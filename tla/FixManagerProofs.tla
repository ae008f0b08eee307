-------------------------- MODULE FixManagerProofs --------------------------
(* For all programs, configuration files, added sessions and bounds: the   *)
(* tables of a session manager agree, no session is bound to a stranger's  *)
(* connection, and none that was logged off is bound again by itself.      *)
EXTENDS FixManager, FiniteSetTheorems, TLAPS

(* What the tables of a program say of its sessions, and what it has       *)
(* before it starts.                                                       *)
PortRows ==
  \A g \in Program : \A r \in acceptorsByPort[g] :
    made[g][r.sess].id = r.id /\ made[g][r.sess].connectionType = "acceptor"
FactoryRows ==
  \A g \in Program : \A k \in initiatorFactories[g] :
    made[g][k].connectionType = "initiator"
NothingYet ==
  \A g \in Program : status[g] = "off" =>
    /\ made[g] = <<>>
    /\ sessionByTuple[g] = {} /\ acceptorsByTuple[g] = {} /\ initiatorsByTuple[g] = {}
    /\ acceptorsByPort[g] = {} /\ initiatorFactories[g] = {} /\ acceptorFactories[g] = {}

Keyed ==
  \A t \in {sessionByTuple, acceptorsByTuple, initiatorsByTuple, acceptorsByPort,
            initiatorFactories, acceptorFactories} : t = [g \in Program |-> t[g]]

ProgramInv ==
  /\ ProgramType /\ Keyed
  /\ PortRows /\ FactoryRows /\ NothingYet /\ TablesAgree /\ OneSessionPerIdentity

(* What the connectors say of the sessions: a connector belongs to an      *)
(* initiator as long as its program runs; a session is bound to the end of *)
(* a connection that is its own, or was before a test request timed out;   *)
(* one acceptor at most to one connection.                                 *)
Owners ==
  \A n \in DOMAIN dials : dials[n].near # "exited" =>
    IsInitiator(dials[n].owner) /\ ConfigOf(dials[n].owner).id = dials[n].id

EndOf(s, n) ==
  \/ IsInitiator(s) /\ dials[n].owner = s /\ dials[n].near \in {"up", "lost"}
  \/ /\ IsAcceptor(s) /\ ConfigOf(s).id = Flip(dials[n].id)
     /\ dials[n].host = s[1] /\ dials[n].far \in {"logged", "gone"}
Bound == \A s \in Session : protocol[s] # 0 => EndOf(s, protocol[s])

OneAcceptor ==
  \A s, t \in Session :
    IsAcceptor(s) /\ IsAcceptor(t) /\ protocol[s] # 0 /\ protocol[s] = protocol[t] => s = t

(* A session that was not dialled twice has one connector, and is wanted   *)
(* while that tries to connect.                                            *)
Trying == {"connecting", "waiting"}
Live == {"connecting", "waiting", "up"}
OneDial ==
  \A m, n \in DOMAIN dials :
    /\ dials[m].near \in Live /\ dials[n].near \in Live
    /\ dials[m].owner = dials[n].owner /\ dials[m].owner \notin doubled
    => m = n
Wanted ==
  \A n \in DOMAIN dials :
    dials[n].near \in Trying /\ dials[n].owner \notin doubled => want[dials[n].owner]
(* Nobody has a far end yet while it tries to connect, and such a session  *)
(* is bound to nothing.                                                    *)
Fresh == \A n \in DOMAIN dials : dials[n].near \in Trying => dials[n].far = "none"
Quiet ==
  \A n \in DOMAIN dials :
    dials[n].near \in Trying /\ dials[n].owner \notin doubled => protocol[dials[n].owner] = 0

ConnectionInv ==
  ConnectionType /\ Owners /\ Bound /\ OneAcceptor /\ OneDial /\ Wanted /\ Fresh /\ Quiet

Inv == ProgramInv /\ ConnectionInv

-----------------------------------------------------------------------------
LEMMA InitInv == Init => Inv
<1> SUFFICES ASSUME Init PROVE Inv
  OBVIOUS
<1>1. ProgramInv
  BY LimitIsNat DEF Init, ProgramInv, ProgramType, Keyed, PortRows, FactoryRows, NothingYet,
     TablesAgree, OneSessionPerIdentity, Numbers, ById, Ports
<1>2. ConnectionInv
  BY LimitIsNat DEF Init, ConnectionInv, ConnectionType, Owners, Bound, OneAcceptor, OneDial, Wanted,
     Fresh, Quiet, Budget
<1> QED BY <1>1, <1>2 DEF Inv

(* The part of the invariant about programs only depends on programVars.   *)
LEMMA ProgramFrame == ProgramInv /\ UNCHANGED programVars => ProgramInv'
  BY DEF programVars, tables, ProgramInv, ProgramType, Keyed, PortRows, FactoryRows, NothingYet,
         TablesAgree, OneSessionPerIdentity, Numbers

(* Every session of a program stays what it is.                            *)
Grows == \A s \in Session : Exists(s) => Exists(s)' /\ ConfigOf(s)' = ConfigOf(s)

LEMMA SameMade == UNCHANGED made => Grows
  BY DEF Grows, Exists, ConfigOf, Numbers

LEMMA SessionIs ==
  ASSUME ProgramInv, NEW s \in Session
  PROVE  /\ s[1] \in Program /\ s[2] \in 1..MaxSession /\ s = <<s[1], s[2]>>
         /\ Exists(s) => ConfigOf(s) \in Config
  BY DEF Session, Exists, ConfigOf, Numbers, ProgramInv, ProgramType

LEMMA OwnerIs ==
  ASSUME ConnectionInv, NEW n \in DOMAIN dials
  PROVE  /\ dials[n] \in Dial /\ dials[n].owner \in Session
         /\ n \in Nat /\ n # 0
<1>1. dials \in Seq(Dial)
  BY DEF ConnectionInv, ConnectionType
<1>2. dials[n] \in Dial /\ n \in Nat /\ n # 0
  BY <1>1
<1> QED BY <1>2 DEF Dial

LEMMA GrowsKeeps ==
  ASSUME Grows, NEW s \in Session
  PROVE  /\ IsInitiator(s) => IsInitiator(s)' /\ ConfigOf(s)' = ConfigOf(s)
         /\ IsAcceptor(s) => IsAcceptor(s)' /\ ConfigOf(s)' = ConfigOf(s)
         /\ Exists(s) => (IsAcceptor(s)' <=> IsAcceptor(s))
  BY DEF Grows, IsInitiator, IsAcceptor

(* A step that changes no connector and no binding.                        *)
LEMMA ConnectionFrame ==
  ASSUME ConnectionInv, Grows, UNCHANGED <<protocol, dials, doubled>>, ConnectionType',
         \A n \in DOMAIN dials :
           dials[n].near \in Trying /\ dials[n].owner \notin doubled => want'[dials[n].owner]
  PROVE  ConnectionInv'
<1>1. Owners'
  BY OwnerIs, GrowsKeeps DEF ConnectionInv, Owners
<1>2. Bound'
  <2> SUFFICES ASSUME NEW s \in Session, protocol[s] # 0 PROVE EndOf(s, protocol[s])'
    BY DEF Bound
  <2>1. EndOf(s, protocol[s])
    BY DEF ConnectionInv, Bound
  <2> QED BY <2>1, GrowsKeeps DEF EndOf
<1>3. OneAcceptor'
  <2>1. \A s \in Session : protocol[s] # 0 => Exists(s)
    BY DEF ConnectionInv, Bound, EndOf, IsInitiator, IsAcceptor
  <2> QED BY <2>1, GrowsKeeps DEF ConnectionInv, OneAcceptor
<1>4. OneDial' /\ Wanted' /\ Fresh' /\ Quiet'
  BY DEF ConnectionInv, OneDial, Wanted, Fresh, Quiet
<1> QED BY <1>1, <1>2, <1>3, <1>4 DEF ConnectionInv

-----------------------------------------------------------------------------
LEMMA SeqOf ==
  ASSUME NEW S, NEW n \in Nat, NEW f \in [1..n -> S]
  PROVE  f \in Seq(S) /\ Len(f) = n
  OBVIOUS

(* The primed invariant about owners, for a session given by name.         *)
LEMMA OwnersNext ==
  ASSUME \A n \in DOMAIN dials' : \A s \in Session :
           dials'[n].owner = s /\ dials'[n].near # "exited" =>
             IsInitiator(s)' /\ ConfigOf(s)'.id = dials'[n].id,
         \A n \in DOMAIN dials' : dials'[n].owner \in Session
  PROVE  Owners'
  BY DEF Owners, IsInitiator, Exists, Numbers, ConfigOf

(* What DialAll does to the connectors.                                    *)
LEMMA DialAllDials ==
  ASSUME dials \in Seq(Dial), NEW g \in Program, NEW ks \in SUBSET (1..MaxSession),
         NEW cfgs \in Seq(Config), ks \subseteq DOMAIN cfgs, DialAll(g, ks, cfgs)
  PROVE  /\ dials' \in Seq(Dial) /\ Len(dials) <= Len(dials')
         /\ \A n \in DOMAIN dials : n \in DOMAIN dials' /\ dials'[n] = dials[n]
         /\ \A n \in DOMAIN dials' \ DOMAIN dials :
              \E k \in ks : dials'[n] = NewDial(<<g, k>>, cfgs[k])
         /\ \A m, n \in DOMAIN dials' \ DOMAIN dials :
              dials'[m].owner = dials'[n].owner => m = n
<1>1. PICK o \in Orders(ks) :
        dials' = dials \o [i \in DOMAIN o |-> NewDial(<<g, o[i]>>, cfgs[o[i]])]
  BY DEF DialAll
<1> DEFINE N == Cardinality(ks)
           new == [i \in DOMAIN o |-> NewDial(<<g, o[i]>>, cfgs[o[i]])]
<1>2. N \in Nat
  <2>1. IsFiniteSet(1..MaxSession)
    BY LimitIsNat, FS_Interval
  <2> QED BY <2>1, FS_Subset, FS_CardinalityType
<1>3. /\ DOMAIN o = 1..N /\ \A i \in 1..N : o[i] \in ks
      /\ \A i, j \in 1..N : o[i] = o[j] => i = j
  BY DEF Orders
<1>4. \A k \in ks : NewDial(<<g, k>>, cfgs[k]) \in Dial
  <2> SUFFICES ASSUME NEW k \in ks PROVE NewDial(<<g, k>>, cfgs[k]) \in Dial
    OBVIOUS
  <2>1. cfgs[k] \in Config /\ <<g, k>> \in Session /\ <<g, k>>[1] = g
    BY DEF Session
  <2> QED BY <2>1 DEF NewDial, Dial, Config, Near, Far
<1>5. new \in Seq(Dial) /\ Len(new) = N /\ \A i \in 1..N : new[i] = NewDial(<<g, o[i]>>, cfgs[o[i]])
  <2>1. new = [i \in 1..N |-> NewDial(<<g, o[i]>>, cfgs[o[i]])]
    BY <1>3
  <2>2. \A i \in 1..N : NewDial(<<g, o[i]>>, cfgs[o[i]]) \in Dial
    BY <1>3, <1>4
  <2>3. new \in [1..N -> Dial]
    BY <2>1, <2>2
  <2> HIDE DEF new, N
  <2> QED BY <1>2, <2>1, <2>3, SeqOf
<1>6. /\ dials' = dials \o new /\ dials' \in Seq(Dial) /\ Len(dials') = Len(dials) + N
      /\ Len(dials) \in Nat
      /\ DOMAIN dials = 1..Len(dials) /\ DOMAIN dials' = 1..Len(dials')
      /\ \A n \in 1..Len(dials) : dials'[n] = dials[n]
      /\ \A n \in Len(dials) + 1 .. Len(dials) + N : dials'[n] = new[n - Len(dials)]
  <2> HIDE DEF new
  <2> QED BY <1>1, <1>2, <1>5 DEF new
<1>7. \A n \in DOMAIN dials' \ DOMAIN dials :
        /\ n - Len(dials) \in 1..N
        /\ dials'[n] = NewDial(<<g, o[n - Len(dials)]>>, cfgs[o[n - Len(dials)]])
  <2>1. ASSUME NEW n \in Len(dials) + 1 .. Len(dials) + N PROVE n - Len(dials) \in 1..N
    <3> HIDE DEF N
    <3> QED BY <1>2, <1>6
  <2>2. \A n \in DOMAIN dials' \ DOMAIN dials : n \in Len(dials) + 1 .. Len(dials) + N
    <3> HIDE DEF N
    <3> QED BY <1>2, <1>6
  <2> HIDE DEF new, N
  <2> QED BY <1>5, <1>6, <2>1, <2>2
<1>8. ASSUME NEW m \in DOMAIN dials' \ DOMAIN dials, NEW n \in DOMAIN dials' \ DOMAIN dials,
             dials'[m].owner = dials'[n].owner
      PROVE  m = n
  <2>1. <<g, o[m - Len(dials)]>> = <<g, o[n - Len(dials)]>>
    BY <1>7, <1>8 DEF NewDial
  <2>2. o[m - Len(dials)] = o[n - Len(dials)]
    BY <2>1
  <2> QED BY <1>2, <1>3, <1>6, <1>7, <2>2
<1>9. ASSUME NEW n \in DOMAIN dials' \ DOMAIN dials
      PROVE  \E k \in ks : dials'[n] = NewDial(<<g, k>>, cfgs[k])
  <2>1. o[n - Len(dials)] \in ks
    BY <1>3, <1>7
  <2> QED BY <1>7, <2>1
<1>10. Len(dials) <= Len(dials') /\ \A n \in DOMAIN dials : n \in DOMAIN dials'
  <2> HIDE DEF new, N
  <2> QED BY <1>2, <1>6
<1>11. \A n \in DOMAIN dials : dials'[n] = dials[n]
  BY <1>6
<1> HIDE DEF new, N
<1> QED BY <1>6, <1>8, <1>9, <1>10, <1>11

(* Sessions are dialled: initiators that exist, or come to exist.          *)
LEMMA DialAllKeeps ==
  ASSUME ConnectionInv, Grows, NEW g \in Program, NEW ks \in SUBSET (1..MaxSession),
         NEW cfgs \in Seq(Config), ks \subseteq DOMAIN cfgs, DialAll(g, ks, cfgs),
         \A k \in ks : IsInitiator(<<g, k>>)' /\ ConfigOf(<<g, k>>)' = cfgs[k],
         UNCHANGED <<protocol, continueTrying>>, used' \in [Budget -> Nat], events' \in Nat
  PROVE  ConnectionInv'
<1>1. dials \in Seq(Dial) /\ DOMAIN dials = 1..Len(dials)
  BY DEF ConnectionInv, ConnectionType
<1>2. /\ dials' \in Seq(Dial) /\ Len(dials) <= Len(dials')
      /\ \A n \in DOMAIN dials : n \in DOMAIN dials' /\ dials'[n] = dials[n]
      /\ \A n \in DOMAIN dials' \ DOMAIN dials :
           \E k \in ks : dials'[n] = NewDial(<<g, k>>, cfgs[k])
      /\ \A m, n \in DOMAIN dials' \ DOMAIN dials :
           dials'[m].owner = dials'[n].owner => m = n
  BY <1>1, DialAllDials
<1>3. /\ want' \in [Session -> BOOLEAN]
      /\ \A s \in Session : want[s] => want'[s]
      /\ \A k \in ks : <<g, k>> \in Session /\ want'[<<g, k>>]
      /\ doubled' = doubled \cup {s \in {g} \X ks : Going(s) # {} \/ protocol[s] # 0}
  BY DEF DialAll, ConnectionInv, ConnectionType, Session
<1>4. ConnectionType'
  <2>1. doubled' \subseteq Session
    BY <1>3 DEF ConnectionInv, ConnectionType, Session
  <2> QED BY <1>2, <1>3, <2>1 DEF ConnectionInv, ConnectionType
<1>5. Owners'
  <2>0. ASSUME NEW n \in DOMAIN dials' PROVE dials'[n].owner \in Session
    <3>1. dials'[n] \in Dial
      BY <1>2
    <3> QED BY <3>1 DEF Dial
  <2> SUFFICES ASSUME NEW n \in DOMAIN dials', NEW s \in Session, dials'[n].owner = s,
                      dials'[n].near # "exited"
               PROVE  IsInitiator(s)' /\ ConfigOf(s)'.id = dials'[n].id
    BY <2>0, OwnersNext
  <2>1. CASE n \in DOMAIN dials
    <3>1. IsInitiator(s) /\ ConfigOf(s).id = dials[n].id
      BY <1>2, <2>1 DEF ConnectionInv, Owners
    <3> QED BY <1>2, <2>1, <3>1, GrowsKeeps
  <2>2. CASE n \notin DOMAIN dials
    <3>1. PICK k \in ks : dials'[n] = NewDial(<<g, k>>, cfgs[k])
      BY <1>2, <2>2
    <3> QED BY <3>1 DEF NewDial
  <2> QED BY <2>1, <2>2
<1>6. Bound'
  <2> SUFFICES ASSUME NEW s \in Session, protocol[s] # 0 PROVE EndOf(s, protocol[s])'
    BY DEF Bound
  <2>1. EndOf(s, protocol[s]) /\ protocol[s] \in DOMAIN dials
    BY DEF ConnectionInv, Bound, ConnectionType
  <2> QED BY <1>2, <2>1, GrowsKeeps DEF EndOf
<1>7. OneAcceptor'
  <2>1. \A s \in Session : protocol[s] # 0 => Exists(s)
    BY DEF ConnectionInv, Bound, EndOf, IsInitiator, IsAcceptor
  <2> QED BY <2>1, GrowsKeeps DEF ConnectionInv, OneAcceptor
<1>8. OneDial'
  <2> SUFFICES ASSUME NEW m \in DOMAIN dials', NEW n \in DOMAIN dials',
                      dials'[m].near \in Live, dials'[n].near \in Live,
                      dials'[m].owner = dials'[n].owner, dials'[m].owner \notin doubled'
               PROVE  m = n
    BY DEF OneDial
  <2>1. ASSUME NEW i \in DOMAIN dials, NEW j \in DOMAIN dials' \ DOMAIN dials,
               dials[i].near \in Live, dials[i].owner = dials'[j].owner
        PROVE  dials[i].owner \in doubled'
    <3>1. PICK k \in ks : dials'[j] = NewDial(<<g, k>>, cfgs[k])
      BY <1>2
    <3>2. dials[i].owner = <<g, k>> /\ <<g, k>> \in {g} \X ks
      BY <2>1, <3>1 DEF NewDial
    <3>3. i \in Going(<<g, k>>)
      BY <2>1, <3>2 DEF Going, Live
    <3> QED BY <1>3, <3>2, <3>3
  <2> QED BY <1>2, <1>3, <2>1 DEF ConnectionInv, OneDial
<1>9. Wanted'
  <2> SUFFICES ASSUME NEW n \in DOMAIN dials', dials'[n].near \in Trying,
                      dials'[n].owner \notin doubled'
               PROVE  want'[dials'[n].owner]
    BY DEF Wanted
  <2>1. CASE n \in DOMAIN dials
    BY <1>2, <1>3, <2>1, OwnerIs DEF ConnectionInv, Wanted
  <2>2. CASE n \notin DOMAIN dials
    <3>1. PICK k \in ks : dials'[n].owner = <<g, k>>
      BY <1>2, <2>2 DEF NewDial
    <3>2. want'[<<g, k>>]
      BY <1>3
    <3> QED BY <3>1, <3>2
  <2> QED BY <2>1, <2>2
<1>10. Fresh'
  <2> SUFFICES ASSUME NEW n \in DOMAIN dials', dials'[n].near \in Trying
               PROVE  dials'[n].far = "none"
    BY DEF Fresh
  <2>1. CASE n \in DOMAIN dials
    BY <1>2, <2>1 DEF ConnectionInv, Fresh
  <2>2. CASE n \notin DOMAIN dials
    BY <1>2, <2>2 DEF NewDial
  <2> QED BY <2>1, <2>2
<1>11. Quiet'
  <2> SUFFICES ASSUME NEW n \in DOMAIN dials', dials'[n].near \in Trying,
                      dials'[n].owner \notin doubled'
               PROVE  protocol[dials'[n].owner] = 0
    BY DEF Quiet
  <2>1. CASE n \in DOMAIN dials
    BY <1>2, <1>3, <2>1 DEF ConnectionInv, Quiet
  <2>2. CASE n \notin DOMAIN dials
    <3>1. PICK k \in ks : dials'[n].owner = <<g, k>>
      BY <1>2, <2>2 DEF NewDial
    <3> QED BY <1>3, <3>1
  <2> QED BY <2>1, <2>2
<1> QED BY <1>4, <1>5, <1>6, <1>7, <1>8, <1>9, <1>10, <1>11 DEF ConnectionInv

-----------------------------------------------------------------------------
LEMMA SeqSame ==
  ASSUME NEW S, NEW T, NEW q \in Seq(T), NEW p, p = [n \in DOMAIN q |-> p[n]],
         \A n \in DOMAIN q : p[n] \in S
  PROVE  p \in Seq(S)
<1>1. DOMAIN q = 1..Len(q) /\ Len(q) \in Nat
  OBVIOUS
<1>2. p \in [1..Len(q) -> S]
  BY <1>1
<1> QED BY <1>1, <1>2, SeqOf

(* A step in which connectors move on, and no new one appears.  What is    *)
(* left to show is who is bound afterwards.                                *)
Moves ==
  \A n \in DOMAIN dials :
    /\ dials'[n] \in Dial
    /\ dials'[n].owner = dials[n].owner /\ dials'[n].id = dials[n].id
    /\ dials[n].near = "exited" => dials'[n].near = "exited"
    /\ dials'[n].near \in Live => dials[n].near \in Live
    /\ dials'[n].near \in Trying => dials[n].near \in Trying /\ dials'[n].far = dials[n].far

LEMMA MovesKeep ==
  ASSUME ConnectionInv, UNCHANGED <<made, doubled>>, Moves,
         dials' = [n \in DOMAIN dials |-> dials'[n]],
         want' \in [Session -> BOOLEAN], continueTrying' \in [Session -> BOOLEAN],
         protocol' \in [Session -> {0} \cup DOMAIN dials],
         used' \in [Budget -> Nat], events' \in Nat,
         \A n \in DOMAIN dials :
           dials[n].near \in Trying /\ dials[n].owner \notin doubled => want'[dials[n].owner],
         Bound', OneAcceptor', Quiet'
  PROVE  ConnectionInv'
<1>1. DOMAIN dials' = DOMAIN dials
  OBVIOUS
<1>2. ConnectionType'
  <2>1. dials' \in Seq(Dial)
    BY SeqSame DEF Moves, ConnectionInv, ConnectionType
  <2> QED BY <1>1, <2>1 DEF ConnectionInv, ConnectionType
<1>3. Owners'
  <2>1. \A n \in DOMAIN dials' : dials'[n].owner \in Session
    BY <1>1, OwnerIs DEF Moves
  <2>2. Grows
    BY SameMade
  <2> SUFFICES ASSUME NEW n \in DOMAIN dials', NEW s \in Session, dials'[n].owner = s,
                      dials'[n].near # "exited"
               PROVE  IsInitiator(s)' /\ ConfigOf(s)'.id = dials'[n].id
    BY <2>1, OwnersNext
  <2>3. IsInitiator(s) /\ ConfigOf(s).id = dials[n].id
    BY <1>1 DEF ConnectionInv, Owners, Moves
  <2> QED BY <1>1, <2>2, <2>3, GrowsKeeps DEF Moves
<1>4. OneDial' /\ Fresh'
  BY <1>1 DEF ConnectionInv, OneDial, Fresh, Moves
<1>5. Wanted'
  BY <1>1 DEF Wanted, Moves
<1> QED BY <1>2, <1>3, <1>4, <1>5 DEF ConnectionInv

(* Where nobody is bound or released, it is enough that the ends to which  *)
(* sessions are bound stay what they are.                                  *)
EndsStay ==
  \A n \in DOMAIN dials :
    /\ dials[n].near \in {"up", "lost"} => dials'[n].near \in {"up", "lost"}
    /\ dials[n].far \in {"logged", "gone"} =>
         dials'[n].far \in {"logged", "gone"} /\ dials'[n].host = dials[n].host

LEMMA SameBound ==
  ASSUME ConnectionInv, UNCHANGED <<made, protocol, doubled>>, Moves, EndsStay,
         dials' = [n \in DOMAIN dials |-> dials'[n]]
  PROVE  Bound' /\ OneAcceptor' /\ Quiet'
<1>1. Bound'
  <2> SUFFICES ASSUME NEW s \in Session, protocol[s] # 0 PROVE EndOf(s, protocol[s])'
    BY DEF Bound
  <2>1. EndOf(s, protocol[s]) /\ protocol[s] \in DOMAIN dials
    BY DEF ConnectionInv, Bound, ConnectionType
  <2> QED BY <2>1, SameMade, GrowsKeeps DEF EndOf, Moves, EndsStay
<1>2. OneAcceptor'
  BY DEF ConnectionInv, OneAcceptor, IsAcceptor, Exists, ConfigOf, Numbers
<1>3. Quiet'
  BY DEF ConnectionInv, Quiet, Moves
<1> QED BY <1>1, <1>2, <1>3

LEMMA CountKept == ConnectionInv /\ UNCHANGED count => used' \in [Budget -> Nat] /\ events' \in Nat
  BY DEF ConnectionInv, ConnectionType, count

LEMMA SpendKeeps ==
  ASSUME ConnectionInv, NEW k \in Budget, Spend(k)
  PROVE  used' \in [Budget -> Nat] /\ events' \in Nat
  BY DEF ConnectionInv, ConnectionType, Spend
-----------------------------------------------------------------------------
(* The connections, one action after the other.                            *)

LEMMA SameDials ==
  ASSUME ConnectionInv, NEW n \in DOMAIN dials
  PROVE  /\ dials[n] \in Dial /\ dials = [m \in DOMAIN dials |-> dials[m]]
         /\ dials[n].owner \in Session
  BY OwnerIs DEF ConnectionInv, ConnectionType

LEMMA LogoffKeeps ==
  ASSUME Inv, NEW s \in Session, NEW again \in BOOLEAN, Logoff(s, again)
  PROVE  ConnectionInv'
<1> USE DEF Inv
<1>1. /\ protocol[s] # 0 /\ protocol[s] \in DOMAIN dials
      /\ UNCHANGED <<made, protocol, doubled>>
  BY DEF Logoff, ConnectionInv, ConnectionType, programVars
<1>2. Moves /\ EndsStay /\ dials' = [n \in DOMAIN dials |-> dials'[n]]
  <2>1. dials' = [n \in DOMAIN dials |->
                    IF n = protocol[s] THEN [dials[n] EXCEPT !.leaving = TRUE] ELSE dials[n]]
    BY SameDials, <1>1 DEF Logoff
  <2> QED BY <2>1, SameDials DEF Moves, EndsStay, Dial, Live, Trying
<1>3. ASSUME NEW n \in DOMAIN dials, dials[n].near \in Trying, dials[n].owner \notin doubled
      PROVE  want'[dials[n].owner]
  <2>1. dials[n].owner # s
    BY <1>1, <1>3 DEF ConnectionInv, Quiet
  <2> QED BY <1>3, <2>1, SameDials DEF ConnectionInv, Wanted, Logoff, ConnectionType
<1>4. UNCHANGED <<doubled, continueTrying>> /\ want' \in [Session -> BOOLEAN]
  BY DEF Logoff, ConnectionInv, ConnectionType
<1>5. used' \in [Budget -> Nat] /\ events' \in Nat
  BY SpendKeeps DEF Logoff, Budget
<1>6. Bound' /\ OneAcceptor' /\ Quiet'
  BY <1>1, <1>2, SameBound
<1> QED BY <1>1, <1>2, <1>3, <1>4, <1>5, <1>6, MovesKeep DEF ConnectionInv, ConnectionType

LEMMA FailedKeeps ==
  ASSUME ConnectionInv, NEW n \in DOMAIN dials, dials[n].near = "connecting",
         ClientConnectionFailed(n), UNCHANGED <<made, doubled>>,
         used' \in [Budget -> Nat], events' \in Nat
  PROVE  ConnectionInv'
<1>1. UNCHANGED <<want, protocol>> /\ continueTrying' \in [Session -> BOOLEAN]
  BY SameDials DEF ClientConnectionFailed, StopTrying, ConnectionInv, ConnectionType
<1>2. Moves /\ EndsStay /\ dials' = [m \in DOMAIN dials |-> dials'[m]]
  <2>1. /\ DOMAIN dials' = DOMAIN dials /\ dials' = [m \in DOMAIN dials |-> dials'[m]]
        /\ \A m \in DOMAIN dials :
             \/ dials'[m] = dials[m]
             \/ /\ dials[m].near \in Trying
                /\ \/ dials'[m] = [dials[m] EXCEPT !.near = "gaveup"]
                   \/ dials'[m] = [dials[m] EXCEPT !.near = "waiting"]
    <3>1. CASE want[dials[n].owner]
      BY <3>1, SameDials DEF ClientConnectionFailed, StopTrying, Trying
    <3>2. CASE ~want[dials[n].owner]
      <4>1. \E known \in DOMAIN dials : dials[known].near \in Trying /\ GiveUp({n, known})
        BY <3>2 DEF ClientConnectionFailed, StopTrying, Dialling, GiveUp, Trying
      <4> QED BY <4>1 DEF GiveUp, Trying
    <3> QED BY <3>1, <3>2
  <2>2. \A m \in DOMAIN dials : dials[m] \in Dial
    BY SameDials
  <2> QED BY <2>1, <2>2 DEF Moves, EndsStay, Dial, Near, Live, Trying
<1>3. Bound' /\ OneAcceptor' /\ Quiet'
  BY <1>1, <1>2, SameBound
<1> QED BY <1>1, <1>2, <1>3, MovesKeep DEF ConnectionInv, ConnectionType, Wanted

LEMMA RefusedKeeps ==
  ASSUME Inv, NEW n \in DOMAIN dials, Refused(n)
  PROVE  ConnectionInv'
<1>1. used' \in [Budget -> Nat] /\ events' \in Nat
  <2>1. CASE UNCHANGED count
    BY <2>1, CountKept DEF Inv
  <2>2. CASE Spend("fault")
    BY <2>2, SpendKeeps DEF Inv, Budget
  <2> QED BY <2>1, <2>2 DEF Refused
<1> QED BY <1>1, FailedKeeps DEF Inv, Refused, Ready, programVars

LEMMA ConnectKeeps ==
  ASSUME Inv, NEW n \in DOMAIN dials, Connect(n)
  PROVE  ConnectionInv'
<1> DEFINE s == dials[n].owner
<1>0. /\ dials[n].near = "connecting" /\ s \in Session /\ UNCHANGED <<made, doubled>>
      /\ used' \in [Budget -> Nat] /\ events' \in Nat
  BY SameDials, CountKept DEF Connect, Ready, Inv, programVars
<1>1. CASE ClientConnectionFailed(n)
  BY <1>0, <1>1, FailedKeeps DEF Inv
<1>2. ASSUME NEW l \in listening, protocol[s] = 0, protocol' = [protocol EXCEPT ![s] = n],
             dials' = [dials EXCEPT ![n].near = "up", ![n].far = "hello", ![n].host = l.prog],
             UNCHANGED <<want, continueTrying>>
      PROVE  ConnectionInv'
  <2>0. l.prog \in Program
    BY DEF Inv, ProgramInv, ProgramType
  <2>1. dials' = [m \in DOMAIN dials |->
          IF m = n THEN [dials[n] EXCEPT !.near = "up", !.far = "hello", !.host = l.prog]
          ELSE dials[m]]
    BY <1>2, SameDials DEF Inv
  <2>2. Moves
    <3> SUFFICES ASSUME NEW m \in DOMAIN dials
                 PROVE  Moves!(m)
      BY DEF Moves
    <3>1. dials[m] \in Dial /\ dials[n] \in Dial
      BY SameDials DEF Inv
    <3> QED BY <1>0, <2>0, <2>1, <3>1 DEF Dial, Near, Far, Live, Trying
  <2>3. \A t \in Session : protocol'[t] = IF t = s THEN n ELSE protocol[t]
    BY <1>0, <1>2 DEF Inv, ConnectionInv, ConnectionType
  <2>4. \A t \in Session : protocol[t] # 0 => protocol[t] # n
    BY <1>0, SameDials DEF Inv, ConnectionInv, Bound, EndOf, Fresh, Trying
  <2>5. IsInitiator(s)
    BY <1>0 DEF Inv, ConnectionInv, Owners
  <2>6. dials'[n].owner = s /\ dials'[n].near = "up"
    BY <1>0, <2>1, SameDials DEF Inv, Dial
  <2>7. Bound'
    <3> SUFFICES ASSUME NEW t \in Session, NEW m, m = protocol'[t], m # 0 PROVE EndOf(t, m)'
      BY DEF Bound
    <3>1. CASE t = s
      <4>1. m = n
        BY <2>3, <3>1
      <4> QED BY <1>0, <2>5, <2>6, <3>1, <4>1, SameMade, GrowsKeeps DEF EndOf
    <3>2. CASE t # s
      <4>1. m = protocol[t] /\ m # n /\ m \in DOMAIN dials /\ EndOf(t, m)
        BY <2>3, <2>4, <3>2 DEF Inv, ConnectionInv, ConnectionType, Bound
      <4> QED BY <1>0, <2>1, <4>1, SameMade, GrowsKeeps DEF EndOf
    <3> QED BY <3>1, <3>2
  <2>8. OneAcceptor'
    <3>1. \A t \in Session : IsAcceptor(t)' => IsAcceptor(t) /\ t # s
      BY <1>0, <2>5 DEF IsAcceptor, IsInitiator, Exists, Numbers, ConfigOf
    <3> QED BY <2>3, <3>1 DEF Inv, ConnectionInv, OneAcceptor
  <2>9. Quiet'
    <3> SUFFICES ASSUME NEW m \in DOMAIN dials, dials'[m].near \in Trying,
                        dials[m].owner \notin doubled
                 PROVE  protocol'[dials[m].owner] = 0
      BY <1>0, <2>1, <2>2 DEF Quiet, Moves
    <3>1. m # n /\ dials'[m] = dials[m] /\ dials[m].near \in Trying
      BY <2>1, <2>6 DEF Trying
    <3>2. dials[m].owner # s
      BY <1>0, <3>1 DEF Inv, ConnectionInv, OneDial, Live, Trying
    <3> QED BY <2>3, <3>1, <3>2, SameDials DEF Inv, ConnectionInv, Quiet
  <2> QED BY <1>0, <1>2, <2>1, <2>2, <2>3, <2>7, <2>8, <2>9, MovesKeep
          DEF Inv, ConnectionInv, ConnectionType, Wanted
<1> QED BY <1>1, <1>2 DEF Connect
LEMMA RetryKeeps ==
  ASSUME Inv, NEW n \in DOMAIN dials, Retry(n)
  PROVE  ConnectionInv'
<1>1. UNCHANGED <<made, protocol, want, continueTrying, doubled, count>>
  BY DEF Retry, programVars, sessionVars
<1>2. dials' = [m \in DOMAIN dials |->
                  IF m = n THEN [dials[n] EXCEPT !.near = "connecting"] ELSE dials[m]]
  BY SameDials DEF Inv, Retry
<1>3. Moves /\ EndsStay
  BY <1>2, SameDials DEF Inv, Retry, Moves, EndsStay, Dial, Near, Live, Trying
<1>4. Bound' /\ OneAcceptor' /\ Quiet'
  BY <1>1, <1>2, <1>3, SameBound DEF Inv
<1> QED BY <1>1, <1>2, <1>3, <1>4, CountKept, MovesKeep DEF Inv, ConnectionInv, ConnectionType, Wanted

LEMMA FoundIs ==
  ASSUME Inv, NEW n \in DOMAIN dials,
         NEW s \in SessionFor(dials[n].host, dials[n].port, dials[n].id)
  PROVE  /\ s \in Session /\ IsAcceptor(s) /\ ConfigOf(s).id = Flip(dials[n].id)
         /\ dials[n].host = s[1] /\ want[s]
<1> DEFINE g == dials[n].host
<1>1. g \in Program
  BY SameDials DEF Inv, Dial
<1>2. PICK r \in acceptorsByPort[g] : s = <<g, r.sess>> /\ r.id = Flip(dials[n].id) /\ want[s]
  BY DEF SessionFor
<1>3. r.sess \in Numbers(g) /\ made[g] \in Seq(Config) /\ Len(made[g]) <= MaxSession
  BY <1>1, <1>2 DEF Inv, ProgramInv, ProgramType
<1>4. made[g][r.sess].id = r.id /\ made[g][r.sess].connectionType = "acceptor"
  BY <1>1, <1>2 DEF Inv, ProgramInv, PortRows
<1>5. r.sess \in 1..MaxSession
  BY <1>3, LimitIsNat DEF Numbers
<1> QED BY <1>1, <1>2, <1>3, <1>4, <1>5 DEF Session, IsAcceptor, Exists, ConfigOf

LEMMA ReadLogonKeeps ==
  ASSUME Inv, NEW n \in DOMAIN dials, ReadLogon(n)
  PROVE  ConnectionInv'
<1>1. UNCHANGED <<made, want, continueTrying, doubled, count>> /\ dials[n].far = "hello"
  BY DEF ReadLogon, programVars
<1>2. ASSUME NEW s \in SessionFor(dials[n].host, dials[n].port, dials[n].id),
             protocol[s] = 0, protocol' = [protocol EXCEPT ![s] = n],
             dials' = [dials EXCEPT ![n].far = "logged"]
      PROVE  ConnectionInv'
  <2>1. dials' = [m \in DOMAIN dials |->
                    IF m = n THEN [dials[n] EXCEPT !.far = "logged"] ELSE dials[m]]
    BY <1>2, SameDials DEF Inv
  <2>2. Moves
    <3>1. dials[n].near \notin Trying
      BY <1>1 DEF Inv, ConnectionInv, Fresh
    <3> QED BY <2>1, <3>1, SameDials DEF Inv, Moves, Dial, Far, Live, Trying
  <2>3. /\ s \in Session /\ IsAcceptor(s) /\ ConfigOf(s).id = Flip(dials[n].id)
        /\ dials[n].host = s[1]
    BY FoundIs
  <2>4. \A t \in Session : protocol'[t] = IF t = s THEN n ELSE protocol[t]
    BY <1>2 DEF Inv, ConnectionInv, ConnectionType
  <2>5. Bound'
    <3> SUFFICES ASSUME NEW t \in Session, NEW m, m = protocol'[t], m # 0 PROVE EndOf(t, m)'
      BY DEF Bound
    <3>1. CASE t = s
      <4>1. m = n
        BY <2>4, <3>1
      <4>2. dials'[n].far = "logged" /\ dials'[n].host = s[1] /\ dials'[n].id = dials[n].id
        BY <2>1, <2>3, SameDials DEF Inv, Dial
      <4> QED BY <1>1, <2>3, <3>1, <4>1, <4>2, SameMade, GrowsKeeps DEF EndOf, Flip
    <3>2. CASE t # s
      <4>1. m = protocol[t] /\ m \in DOMAIN dials /\ EndOf(t, m)
        BY <2>4, <3>2 DEF Inv, ConnectionInv, ConnectionType, Bound
      <4>2. /\ dials'[m].owner = dials[m].owner /\ dials'[m].near = dials[m].near
            /\ dials'[m].id = dials[m].id /\ dials'[m].host = dials[m].host
            /\ dials[m].far \in {"logged", "gone"} => dials'[m].far \in {"logged", "gone"}
        BY <2>1, <4>1, SameDials DEF Inv, Dial
      <4> QED BY <1>1, <4>1, <4>2, SameMade, GrowsKeeps DEF EndOf
    <3> QED BY <3>1, <3>2
  <2>6. OneAcceptor'
    <3>1. \A t \in Session : IsAcceptor(t)' => IsAcceptor(t)
      BY <1>1 DEF IsAcceptor, Exists, Numbers, ConfigOf
    <3>2. \A t \in Session : IsAcceptor(t) /\ protocol[t] # 0 => protocol[t] # n
      BY <1>1 DEF Inv, ConnectionInv, Bound, EndOf, IsAcceptor, IsInitiator
    <3> QED BY <2>4, <3>1, <3>2 DEF Inv, ConnectionInv, OneAcceptor
  <2>7. Quiet'
    <3> SUFFICES ASSUME NEW m \in DOMAIN dials, dials'[m].near \in Trying,
                        dials[m].owner \notin doubled
                 PROVE  protocol'[dials[m].owner] = 0
      BY <1>1, <2>1, <2>2 DEF Quiet, Moves
    <3>1. dials[m].near \in Trying
      BY <2>2 DEF Moves
    <3>2. IsInitiator(dials[m].owner)
      BY <3>1 DEF Inv, ConnectionInv, Owners, Trying
    <3>3. dials[m].owner # s
      BY <2>3, <3>2 DEF IsInitiator, IsAcceptor
    <3> QED BY <2>4, <3>1, <3>3, SameDials DEF Inv, ConnectionInv, Quiet
  <2> QED BY <1>1, <1>2, <2>1, <2>2, <2>4, <2>5, <2>6, <2>7, CountKept, MovesKeep
          DEF Inv, ConnectionInv, ConnectionType, Wanted
<1>3. ASSUME dials' = [dials EXCEPT ![n].far = "gone"], UNCHANGED protocol
      PROVE  ConnectionInv'
  <2>1. dials' = [m \in DOMAIN dials |->
                    IF m = n THEN [dials[n] EXCEPT !.far = "gone"] ELSE dials[m]]
    BY <1>3, SameDials DEF Inv
  <2>2. Moves /\ EndsStay
    <3>1. dials[n].near \notin Trying
      BY <1>1 DEF Inv, ConnectionInv, Fresh
    <3> QED BY <1>1, <2>1, <3>1, SameDials DEF Inv, Moves, EndsStay, Dial, Far, Live, Trying
  <2>3. Bound' /\ OneAcceptor' /\ Quiet'
    BY <1>1, <1>3, <2>1, <2>2, SameBound DEF Inv
  <2> QED BY <1>1, <1>3, <2>1, <2>2, <2>3, CountKept, MovesKeep
          DEF Inv, ConnectionInv, ConnectionType, Wanted
<1> QED BY <1>2, <1>3 DEF ReadLogon

(* Sessions are released from one connection, one end of which closes.     *)
LEMMA ReleaseKeeps ==
  ASSUME ConnectionInv, UNCHANGED <<made, want, continueTrying, doubled>>, Moves,
         dials' = [m \in DOMAIN dials |-> dials'[m]],
         used' \in [Budget -> Nat], events' \in Nat,
         NEW R \in SUBSET Session,
         protocol' = [s \in Session |-> IF s \in R THEN 0 ELSE protocol[s]],
         EndsStay
  PROVE  ConnectionInv'
<1>1. Bound'
  <2> SUFFICES ASSUME NEW s \in Session, NEW m, m = protocol'[s], m # 0 PROVE EndOf(s, m)'
    BY DEF Bound
  <2>1. s \notin R /\ m = protocol[s]
    OBVIOUS
  <2>2. EndOf(s, m) /\ m \in DOMAIN dials
    BY <2>1 DEF ConnectionInv, Bound, ConnectionType
  <2>3. dials'[m].owner = dials[m].owner /\ dials'[m].id = dials[m].id
    BY <2>2 DEF Moves
  <2> QED BY <2>1, <2>2, <2>3, SameMade, GrowsKeeps DEF EndOf, EndsStay, Flip
<1>2. OneAcceptor'
  <2>1. \A t \in Session : IsAcceptor(t)' => IsAcceptor(t)
    BY DEF IsAcceptor, Exists, Numbers, ConfigOf
  <2> QED BY <2>1 DEF ConnectionInv, OneAcceptor
<1>3. protocol' \in [Session -> {0} \cup DOMAIN dials]
  BY DEF ConnectionInv, ConnectionType
<1>4. Quiet'
  BY SameDials DEF ConnectionInv, Quiet, Moves
<1> QED BY <1>1, <1>2, <1>3, <1>4, MovesKeep DEF ConnectionInv, ConnectionType, Wanted

LEMMA ClosingCounts ==
  ASSUME ConnectionInv, NEW n, NEW otherGone, Closing(n, otherGone)
  PROVE  used' \in [Budget -> Nat] /\ events' \in Nat
  BY CountKept, SpendKeeps DEF Closing, Budget

(* A test request times out: the end closes and the session stays bound.   *)
LEMMA StuckKeeps ==
  ASSUME ConnectionInv, UNCHANGED <<made, want, continueTrying, doubled, protocol>>,
         Moves, EndsStay, dials' = [m \in DOMAIN dials |-> dials'[m]], Spend("fault")
  PROVE  ConnectionInv'
<1>1. used' \in [Budget -> Nat] /\ events' \in Nat
  BY SpendKeeps DEF Budget
<1>2. Bound' /\ OneAcceptor' /\ Quiet'
  BY SameBound
<1> QED BY <1>1, <1>2, MovesKeep DEF ConnectionInv, ConnectionType, Wanted

LEMMA CloseNearKeeps ==
  ASSUME Inv, NEW n \in DOMAIN dials, CloseNear(n)
  PROVE  ConnectionInv'
<1>1. /\ UNCHANGED <<made, want, continueTrying, doubled>> /\ dials[n].near = "up"
      /\ dials[n].owner \in Session
  BY SameDials DEF Inv, CloseNear, programVars
<1>2. dials' = [m \in DOMAIN dials |->
                  IF m = n THEN [dials[n] EXCEPT !.near = "lost"] ELSE dials[m]]
  BY SameDials DEF Inv, CloseNear
<1>3. Moves /\ EndsStay
  BY <1>1, <1>2, SameDials DEF Inv, Moves, EndsStay, Dial, Near, Live, Trying
<1>4. CASE /\ Closing(n, dials[n].far = "gone")
           /\ protocol' = [protocol EXCEPT ![dials[n].owner] = 0]
  <2>1. protocol' = [s \in Session |-> IF s \in {dials[n].owner} THEN 0 ELSE protocol[s]]
    BY <1>1, <1>4 DEF Inv, ConnectionInv, ConnectionType
  <2>2. used' \in [Budget -> Nat] /\ events' \in Nat
    BY <1>4, ClosingCounts DEF Inv
  <2>3. {dials[n].owner} \in SUBSET Session
    BY <1>1
  <2> QED BY <1>1, <1>2, <1>3, <2>1, <2>2, <2>3, ReleaseKeeps DEF Inv
<1>5. CASE Spend("fault") /\ UNCHANGED protocol
  BY <1>1, <1>2, <1>3, <1>5, StuckKeeps DEF Inv
<1> QED BY <1>4, <1>5 DEF CloseNear

LEMMA CloseFarKeeps ==
  ASSUME Inv, NEW n \in DOMAIN dials, CloseFar(n)
  PROVE  ConnectionInv'
<1>1. /\ UNCHANGED <<made, want, continueTrying, doubled>> /\ dials[n].near \notin Trying
      /\ AcceptorOf(n) \in SUBSET Session
  BY DEF Inv, ConnectionInv, Fresh, CloseFar, programVars, AcceptorOf
<1>2. dials' = [m \in DOMAIN dials |->
                  IF m = n THEN [dials[n] EXCEPT !.far = "gone"] ELSE dials[m]]
  BY SameDials DEF Inv, CloseFar
<1>3. Moves /\ EndsStay
  BY <1>1, <1>2, SameDials DEF Inv, Moves, EndsStay, Dial, Far, Live, Trying
<1>4. CASE /\ Closing(n, dials[n].near # "up")
           /\ protocol' = [s \in Session |-> IF s \in AcceptorOf(n) THEN 0 ELSE protocol[s]]
  <2>1. used' \in [Budget -> Nat] /\ events' \in Nat
    BY <1>4, ClosingCounts DEF Inv
  <2> QED BY <1>1, <1>2, <1>3, <1>4, <2>1, ReleaseKeeps DEF Inv
<1>5. CASE Spend("fault") /\ UNCHANGED protocol
  BY <1>1, <1>2, <1>3, <1>5, StuckKeeps DEF Inv
<1> QED BY <1>4, <1>5 DEF CloseFar
-----------------------------------------------------------------------------
(* The programs and their users.                                           *)

LEMMA AllowLogonKeeps ==
  ASSUME Inv, NEW s \in Session, AllowLogon(s)
  PROVE  ConnectionInv'
<1>1. UNCHANGED <<made, protocol, continueTrying, dials, doubled>>
  BY DEF AllowLogon, programVars
<1>2. /\ want' \in [Session -> BOOLEAN]
      /\ \A t \in Session : want[t] => want'[t]
  BY DEF AllowLogon, Inv, ConnectionInv, ConnectionType
<1>3. used' \in [Budget -> Nat] /\ events' \in Nat
  BY SpendKeeps DEF AllowLogon, Inv, Budget
<1>4. ConnectionType'
  BY <1>1, <1>2, <1>3 DEF Inv, ConnectionInv, ConnectionType
<1>5. \A n \in DOMAIN dials :
        dials[n].near \in Trying /\ dials[n].owner \notin doubled => want'[dials[n].owner]
  BY <1>2, SameDials DEF Inv, ConnectionInv, Wanted
<1> QED BY <1>1, <1>4, <1>5, SameMade, ConnectionFrame DEF Inv

LEMMA FactoryLogonKeeps ==
  ASSUME Inv, NEW s \in Session, FactoryLogon(s)
  PROVE  ConnectionInv'
<1> DEFINE g == s[1]
           k == s[2]
<1>1. /\ UNCHANGED <<made, protocol, continueTrying>> /\ IsInitiator(s)
      /\ used' \in [Budget -> Nat] /\ events' \in Nat
  BY SpendKeeps DEF FactoryLogon, programVars, Inv, Budget
<1>2. /\ g \in Program /\ k \in 1..MaxSession /\ s = <<g, k>> /\ k \in DOMAIN made[g]
      /\ made[g] \in Seq(Config)
  BY <1>1, SessionIs DEF Inv, IsInitiator, Exists, Numbers, ProgramInv, ProgramType
<1>3. CASE DialAll(g, {k}, made[g])
  <2>1. \A j \in {k} : IsInitiator(<<g, j>>)' /\ ConfigOf(<<g, j>>)' = made[g][j]
    BY <1>1, <1>2, SameMade, GrowsKeeps DEF ConfigOf
  <2>2. {k} \in SUBSET (1..MaxSession) /\ {k} \subseteq DOMAIN made[g] /\ Grows
    BY <1>1, <1>2, SameMade
  <2> HIDE DEF g, k
  <2> QED BY <1>1, <1>2, <1>3, <2>1, <2>2, DialAllKeeps DEF Inv
<1>4. CASE want' = [want EXCEPT ![s] = TRUE] /\ UNCHANGED <<dials, doubled>>
  <2>1. /\ want' \in [Session -> BOOLEAN]
        /\ \A t \in Session : want[t] => want'[t]
    BY <1>4 DEF Inv, ConnectionInv, ConnectionType
  <2>2. ConnectionType'
    BY <1>1, <1>4, <2>1 DEF Inv, ConnectionInv, ConnectionType
  <2>3. \A n \in DOMAIN dials :
          dials[n].near \in Trying /\ dials[n].owner \notin doubled => want'[dials[n].owner]
    BY <2>1, SameDials DEF Inv, ConnectionInv, Wanted
  <2> QED BY <1>1, <1>4, <2>2, <2>3, SameMade, ConnectionFrame DEF Inv
<1> QED BY <1>3, <1>4 DEF FactoryLogon

(* Nothing that a connection depends on: the programs change around it.    *)
LEMMA AroundKeeps ==
  ASSUME Inv, Grows, UNCHANGED <<sessionVars, dials, doubled>>,
         used' \in [Budget -> Nat], events' \in Nat
  PROVE  ConnectionInv'
<1>1. ConnectionType'
  BY DEF Inv, ConnectionInv, ConnectionType, sessionVars
<1> QED BY <1>1, ConnectionFrame DEF Inv, ConnectionInv, Wanted, sessionVars

(* What the invariant says of one program, and a step that changes the     *)
(* state of one program only.                                              *)
ProgramOK(g) ==
  /\ status[g] \in {"off", "built", "running", "refused"}
  /\ made[g] \in Seq(Config) /\ Len(made[g]) <= MaxSession
  /\ sessionByTuple[g] \cup acceptorsByTuple[g] \cup initiatorsByTuple[g]
       \subseteq [id : STRING \X STRING, sess : Numbers(g)]
  /\ acceptorsByPort[g] \subseteq [port : Nat, id : STRING \X STRING, sess : Numbers(g)]
  /\ initiatorFactories[g] \subseteq Numbers(g) /\ acceptorFactories[g] \subseteq Nat
  /\ PortRows!(g) /\ FactoryRows!(g) /\ NothingYet!(g)
  /\ g \notin addFailed => TablesAgree!(g) /\ OneSessionPerIdentity!(g)

Others(g) ==
  /\ status' = [status EXCEPT ![g] = status'[g]]
  /\ made' = [made EXCEPT ![g] = made'[g]]
  /\ sessionByTuple' = [sessionByTuple EXCEPT ![g] = sessionByTuple'[g]]
  /\ acceptorsByTuple' = [acceptorsByTuple EXCEPT ![g] = acceptorsByTuple'[g]]
  /\ initiatorsByTuple' = [initiatorsByTuple EXCEPT ![g] = initiatorsByTuple'[g]]
  /\ acceptorsByPort' = [acceptorsByPort EXCEPT ![g] = acceptorsByPort'[g]]
  /\ initiatorFactories' = [initiatorFactories EXCEPT ![g] = initiatorFactories'[g]]
  /\ acceptorFactories' = [acceptorFactories EXCEPT ![g] = acceptorFactories'[g]]
  /\ addFailed' \subseteq addFailed \cup {g} /\ addFailed \subseteq addFailed' \cup {g}

LEMMA EachProgram == ASSUME ProgramInv, NEW g \in Program PROVE ProgramOK(g)
  BY DEF ProgramInv, ProgramType, PortRows, FactoryRows, NothingYet, TablesAgree,
     OneSessionPerIdentity, ProgramOK

LEMMA OneProgram ==
  ASSUME ProgramInv, NEW g \in Program, Others(g), setup' \in Setup,
         listening' \subseteq [port : Nat, prog : Program], ProgramOK(g)'
  PROVE  ProgramInv'
<1>1. /\ status = [h \in Program |-> status[h]] /\ made = [h \in Program |-> made[h]]
      /\ Keyed
  BY DEF ProgramInv, ProgramType
<1>2. \A h \in Program \ {g} :
        /\ status'[h] = status[h] /\ made'[h] = made[h]
        /\ sessionByTuple'[h] = sessionByTuple[h] /\ acceptorsByTuple'[h] = acceptorsByTuple[h]
        /\ initiatorsByTuple'[h] = initiatorsByTuple[h] /\ acceptorsByPort'[h] = acceptorsByPort[h]
        /\ initiatorFactories'[h] = initiatorFactories[h]
        /\ acceptorFactories'[h] = acceptorFactories[h]
        /\ h \in addFailed' <=> h \in addFailed
  BY <1>1 DEF Others, Keyed
<1>3. status' = [h \in Program |-> status'[h]] /\ made' = [h \in Program |-> made'[h]] /\ Keyed'
  BY <1>1 DEF Others, Keyed
<1>4. ASSUME NEW h \in Program PROVE ProgramOK(h)'
  <2>1. CASE h = g
    BY <2>1
  <2>2. CASE h # g
    <3>1. ProgramOK(h)
      BY EachProgram
    <3> QED BY <1>2, <2>2, <3>1 DEF ProgramOK, Numbers
  <2> QED BY <2>1, <2>2
<1>5. ProgramType'
  <2>1. addFailed' \subseteq Program
    BY DEF Others, ProgramInv, ProgramType
  <2> QED BY <1>3, <1>4, <2>1 DEF ProgramType, ProgramOK
<1>6. PortRows' /\ FactoryRows' /\ NothingYet' /\ TablesAgree' /\ OneSessionPerIdentity'
  BY <1>4 DEF PortRows, FactoryRows, NothingYet, TablesAgree, OneSessionPerIdentity, ProgramOK
<1> QED BY <1>3, <1>5, <1>6 DEF ProgramInv
LEMMA StartKeeps ==
  ASSUME Inv, NEW g \in Program, Start(g)
  PROVE  Inv'
<1> DEFINE cfgs == MakeConfig(File[setup][g])
<1>1. /\ status[g] = "off" /\ setup \in Setup
      /\ UNCHANGED <<setup, listening, addFailed, sessionVars, dials, doubled, count>>
      /\ status = [h \in Program |-> status[h]] /\ made = [h \in Program |-> made[h]] /\ Keyed
      /\ listening \subseteq [port : Nat, prog : Program]
  BY DEF Start, Inv, ProgramInv, ProgramType
<1>2. /\ ProgramOK(g) /\ made[g] = <<>>
      /\ sessionByTuple[g] = {} /\ acceptorsByTuple[g] = {} /\ initiatorsByTuple[g] = {}
      /\ acceptorsByPort[g] = {} /\ initiatorFactories[g] = {} /\ acceptorFactories[g] = {}
  BY <1>1, EachProgram DEF Inv, ProgramInv, NothingYet
<1>3. ProgramOK(g)' /\ Others(g)
  <2>1. CASE status' = [status EXCEPT ![g] = "refused"] /\ UNCHANGED <<made, tables>>
    <3>1. status'[g] = "refused"
      BY <1>1, <2>1
    <3>2. ProgramOK(g)'
      BY <1>1, <1>2, <2>1, <3>1 DEF ProgramOK, tables, Numbers, ById, Ports
    <3>3. Others(g)
      BY <1>1, <2>1, <3>1 DEF Others, tables, Keyed
    <3> QED BY <3>2, <3>3
  <2>2. CASE Accepts(File[setup][g]) /\ status' = [status EXCEPT ![g] = "built"]
             /\ UNCHANGED addFailed /\ Start(g)
    <3>1. /\ status'[g] = "built" /\ made'[g] = cfgs
          /\ sessionByTuple'[g] = ById(cfgs, DOMAIN cfgs)
          /\ acceptorsByTuple'[g] = ById(cfgs, OfRole(cfgs, "acceptor"))
          /\ initiatorsByTuple'[g] = ById(cfgs, OfRole(cfgs, "initiator"))
          /\ acceptorsByPort'[g] = ByPort(cfgs, OfRole(cfgs, "acceptor"))
          /\ initiatorFactories'[g] = OfRole(cfgs, "initiator")
          /\ acceptorFactories'[g] = Ports(acceptorsByPort'[g])
      BY <1>1, <2>2 DEF Start, Keyed
    <3>2. Others(g)
      <4>1. status'[g] = "built"
        BY <3>1
      <4> QED BY <1>1, <2>2, <3>1 DEF Others, Keyed, Start
    <3>3. /\ cfgs \in Seq(Config) /\ Len(cfgs) <= MaxSession
          /\ \A i, j \in DOMAIN cfgs : cfgs[i].id = cfgs[j].id => i = j
      BY <1>1, <2>2, FilesFit, FilesNameEachSessionOnce
    <3> HIDE DEF cfgs
    <3>4. \A k \in DOMAIN cfgs : /\ cfgs[k].id \in STRING \X STRING /\ cfgs[k].port \in Nat
                                 /\ cfgs[k].connectionType \in Role
      <4>1. \A k \in DOMAIN cfgs : cfgs[k] \in Config
        BY <3>3
      <4> QED BY <4>1 DEF Config
    <3>5. \A r : OfRole(cfgs, r) \subseteq DOMAIN cfgs
      BY DEF OfRole
    <3>6. /\ sessionByTuple'[g] \cup acceptorsByTuple'[g] \cup initiatorsByTuple'[g]
               \subseteq [id : STRING \X STRING, sess : DOMAIN cfgs]
          /\ acceptorsByPort'[g] \subseteq [port : Nat, id : STRING \X STRING, sess : DOMAIN cfgs]
          /\ initiatorFactories'[g] \subseteq DOMAIN cfgs /\ acceptorFactories'[g] \subseteq Nat
      BY <3>1, <3>4, <3>5 DEF ById, ByPort, Ports
    <3>7. PortRows!(g)' /\ FactoryRows!(g)' /\ NothingYet!(g)'
      BY <3>1 DEF PortRows, FactoryRows, NothingYet, ByPort, OfRole
    <3>8. TablesAgree!(g)'
      <4>1. sessionByTuple'[g] = acceptorsByTuple'[g] \cup initiatorsByTuple'[g]
        BY <3>1, <3>4 DEF ById, OfRole, Role
      <4>2. acceptorsByTuple'[g] = {[id |-> r.id, sess |-> r.sess] : r \in acceptorsByPort'[g]}
        <5> DEFINE ks == OfRole(cfgs, "acceptor")
                   row(k) == [port |-> cfgs[k].port, id |-> cfgs[k].id, sess |-> k]
        <5>1. acceptorsByTuple'[g] = {[id |-> cfgs[k].id, sess |-> k] : k \in ks}
          BY <3>1 DEF ById
        <5>2. acceptorsByPort'[g] = {row(k) : k \in ks}
          BY <3>1 DEF ByPort
        <5>3. \A k \in ks : row(k).id = cfgs[k].id /\ row(k).sess = k
          OBVIOUS
        <5> HIDE DEF ks, row
        <5>4. {[id |-> r.id, sess |-> r.sess] : r \in {row(k) : k \in ks}}
                = {[id |-> row(k).id, sess |-> row(k).sess] : k \in ks}
          OBVIOUS
        <5> QED BY <5>1, <5>2, <5>3, <5>4
      <4> QED BY <3>1, <4>1, <4>2 DEF TablesAgree, Numbers
    <3>9. OneSessionPerIdentity!(g)'
      BY <3>1, <3>3 DEF OneSessionPerIdentity, Numbers
    <3> QED BY <3>1, <3>2, <3>3, <3>6, <3>7, <3>8, <3>9 DEF ProgramOK, Numbers
  <2> QED BY <2>1, <2>2 DEF Start
<1>4. ProgramInv'
  BY <1>1, <1>3, OneProgram DEF Inv
<1>5. Grows
  <2> SUFFICES ASSUME NEW s \in Session, Exists(s) PROVE Exists(s)' /\ ConfigOf(s)' = ConfigOf(s)
    BY DEF Grows
  <2>1. s[1] # g /\ s[1] \in Program
    BY <1>2, SessionIs DEF Inv, Exists, Numbers
  <2> QED BY <1>1, <1>3, <2>1 DEF Others, Exists, ConfigOf, Numbers
<1>6. ConnectionInv'
  BY <1>1, <1>5, CountKept, AroundKeeps DEF Inv
<1> QED BY <1>4, <1>6 DEF Inv

LEMMA GetConnectedKeeps ==
  ASSUME Inv, NEW g \in Program, GetConnected(g)
  PROVE  Inv'
<1>1. /\ UNCHANGED <<setup, made, tables, addFailed, protocol, continueTrying, count>>
      /\ status[g] = "built" /\ setup \in Setup /\ Keyed
      /\ status = [h \in Program |-> status[h]] /\ made = [h \in Program |-> made[h]]
      /\ listening \subseteq [port : Nat, prog : Program] /\ ProgramOK(g)
      /\ used' \in [Budget -> Nat] /\ events' \in Nat /\ Grows
  BY CountKept, SameMade, EachProgram DEF GetConnected, Inv, ProgramInv, ProgramType
<1>2. ASSUME NEW st \in {"refused", "running"}, status' = [status EXCEPT ![g] = st],
             listening' \subseteq [port : Nat, prog : Program]
      PROVE  ProgramInv'
  <2>1. status'[g] = st
    BY <1>1, <1>2
  <2>2. ProgramOK(g)'
    BY <1>1, <2>1 DEF ProgramOK, tables, Numbers
  <2>3. Others(g)
    BY <1>1, <1>2, <2>1 DEF Others, tables, Keyed
  <2> QED BY <1>1, <1>2, <2>2, <2>3, OneProgram DEF Inv
<1>3. CASE status' = [status EXCEPT ![g] = "refused"] /\ UNCHANGED <<listening, want, dials, doubled>>
  BY <1>1, <1>2, <1>3, AroundKeeps DEF Inv, sessionVars
<1>4. CASE /\ status' = [status EXCEPT ![g] = "running"]
           /\ listening' = listening \cup [port : acceptorFactories[g], prog : {g}]
           /\ DialAll(g, initiatorFactories[g], made[g])
  <2>1. listening' \subseteq [port : Nat, prog : Program]
    BY <1>1, <1>4 DEF ProgramOK
  <2>2. /\ initiatorFactories[g] \in SUBSET (1..MaxSession)
        /\ made[g] \in Seq(Config) /\ initiatorFactories[g] \subseteq DOMAIN made[g]
    BY <1>1, LimitIsNat DEF ProgramOK, Numbers
  <2>3. ASSUME NEW k \in initiatorFactories[g]
        PROVE  IsInitiator(<<g, k>>)' /\ ConfigOf(<<g, k>>)' = made[g][k]
    BY <1>1, <2>2 DEF ProgramOK, IsInitiator, Exists, ConfigOf, Numbers
  <2>4. ConnectionInv'
    BY <1>1, <1>4, <2>2, <2>3, DialAllKeeps DEF Inv
  <2> QED BY <1>2, <1>4, <2>1, <2>4 DEF Inv
<1> QED BY <1>3, <1>4 DEF GetConnected, Inv
LEMMA PutIs ==
  ASSUME NEW T, NEW q
  PROVE  /\ PutById(T, q) \subseteq T \cup {q} /\ PutByPort(T, q) \subseteq T \cup {q}
         /\ (\A r \in T : r.id # q.id) => PutById(T, q) = T \cup {q}
  BY DEF PutById, PutByPort

LEMMA AddSessionKeeps ==
  ASSUME Inv, NEW g \in Program, NEW cfg \in Extra[g], NEW now \in BOOLEAN, AddSession(g, cfg, now)
  PROVE  Inv'
<1> DEFINE k == Len(made[g]) + 1
           row == [id |-> cfg.id, sess |-> k]
<1>1. /\ UNCHANGED <<setup, status, listening, protocol, continueTrying>>
      /\ status[g] \in {"built", "running"} /\ setup \in Setup /\ Keyed
      /\ status = [h \in Program |-> status[h]] /\ made = [h \in Program |-> made[h]]
      /\ made' = [made EXCEPT ![g] = Append(@, cfg)]
      /\ listening \subseteq [port : Nat, prog : Program] /\ ProgramOK(g)
      /\ k <= MaxSession /\ ~Known(g, cfg.id)
  BY EachProgram DEF AddSession, Inv, ProgramInv, ProgramType
<1>2. used' \in [Budget -> Nat] /\ events' \in Nat
  BY SpendKeeps DEF AddSession, Inv, Budget
<1>3. /\ cfg \in Config /\ cfg.id \in STRING \X STRING /\ cfg.port \in Nat
      /\ cfg.connectionType \in Role
  BY ExtraType DEF Config
<1>4. /\ made'[g] = Append(made[g], cfg) /\ made[g] \in Seq(Config) /\ made'[g] \in Seq(Config)
      /\ k \in 1..MaxSession /\ Len(made'[g]) = k /\ Len(made[g]) = k - 1
      /\ DOMAIN made[g] = 1 .. k - 1 /\ DOMAIN made'[g] = 1 .. k
      /\ made'[g][k] = cfg /\ \A j \in 1 .. k - 1 : made'[g][j] = made[g][j]
  BY <1>1, <1>3, LimitIsNat DEF ProgramOK
<1> HIDE DEF k
<1>5. 1 .. k - 1 \subseteq 1 .. k /\ k \in 1 .. k /\ k \notin 1 .. k - 1
      /\ \A j \in 1 .. k : j = k \/ j \in 1 .. k - 1
  BY <1>4
<1>6. Grows
  <2> SUFFICES ASSUME NEW s \in Session, Exists(s) PROVE Exists(s)' /\ ConfigOf(s)' = ConfigOf(s)
    BY DEF Grows
  <2>1. CASE s[1] = g
    BY <1>4, <1>5, <2>1 DEF Exists, ConfigOf, Numbers
  <2>2. CASE s[1] # g
    BY <1>1, <2>2, SessionIs DEF Inv, Exists, ConfigOf, Numbers
  <2> QED BY <2>1, <2>2
<1>7. ASSUME OneSessionPerIdentity!(g), TablesAgree!(g)
      PROVE  OneSessionPerIdentity!(g)'
  <2>1. ASSUME NEW j \in 1 .. k - 1 PROVE made[g][j].id # cfg.id
    <3>1. [id |-> made[g][j].id, sess |-> j] \in sessionByTuple[g]
      BY <1>4, <1>7 DEF TablesAgree, ById, Numbers
    <3>2. [id |-> made[g][j].id, sess |-> j].id = made[g][j].id
      OBVIOUS
    <3> QED BY <1>1, <3>1, <3>2 DEF Known
  <2> QED BY <1>4, <1>5, <1>7, <2>1 DEF OneSessionPerIdentity, Numbers
<1>8. CASE cfg.connectionType = "initiator"
  <2>1. /\ initiatorFactories'[g] = initiatorFactories[g] \cup {k}
        /\ initiatorsByTuple'[g] = PutById(initiatorsByTuple[g], row)
        /\ sessionByTuple'[g] = PutById(sessionByTuple[g], row)
        /\ acceptorFactories'[g] = Ports(acceptorsByPort[g])
        /\ UNCHANGED <<acceptorsByPort, acceptorsByTuple, addFailed>>
    BY <1>1, <1>8 DEF AddSession, Keyed, k
  <2>2. Others(g)
    BY <1>1, <1>4, <1>8, <2>1 DEF Others, AddSession, Keyed
  <2>3. row \in [id : STRING \X STRING, sess : 1 .. k] /\ row.id = cfg.id
    BY <1>3, <1>5
  <2>4. /\ sessionByTuple'[g] \cup acceptorsByTuple'[g] \cup initiatorsByTuple'[g]
             \subseteq [id : STRING \X STRING, sess : 1 .. k]
        /\ acceptorsByPort'[g] \subseteq [port : Nat, id : STRING \X STRING, sess : 1 .. k]
        /\ initiatorFactories'[g] \subseteq 1 .. k /\ acceptorFactories'[g] \subseteq Nat
    <3>1. /\ \A r \in sessionByTuple[g] \cup acceptorsByTuple[g] \cup initiatorsByTuple[g] :
               r \in [id : STRING \X STRING, sess : 1 .. k]
          /\ \A r \in acceptorsByPort[g] :
               r \in [port : Nat, id : STRING \X STRING, sess : 1 .. k]
          /\ initiatorFactories[g] \subseteq 1 .. k
      BY <1>1, <1>4, <1>5 DEF ProgramOK, Numbers
    <3>2. Ports(acceptorsByPort[g]) \subseteq Nat
      BY <3>1 DEF Ports
    <3> HIDE DEF row
    <3> QED BY <1>5, <2>1, <2>3, <3>1, <3>2, PutIs
  <2>5. PortRows!(g)' /\ FactoryRows!(g)' /\ NothingYet!(g)'
    BY <1>1, <1>4, <1>5, <1>8, <2>1 DEF ProgramOK, PortRows, FactoryRows, NothingYet, Numbers
  <2>6. ASSUME g \notin addFailed PROVE TablesAgree!(g)' /\ OneSessionPerIdentity!(g)'
    <3>1. TablesAgree!(g) /\ OneSessionPerIdentity!(g)
      BY <1>1, <2>6 DEF ProgramOK
    <3>2. \A r \in sessionByTuple[g] : r.id # row.id
      BY <1>1, <2>3 DEF Known
    <3>3. /\ sessionByTuple'[g] = sessionByTuple[g] \cup {row}
          /\ initiatorsByTuple'[g] = initiatorsByTuple[g] \cup {row}
      <4> HIDE DEF row
      <4> QED BY <2>1, <3>1, <3>2, PutIs DEF TablesAgree
    <3>4. sessionByTuple'[g] = ById(made'[g], 1 .. k)
      <4>1. ById(made'[g], 1 .. k) = ById(made[g], 1 .. k - 1) \cup {row}
        BY <1>4, <1>5 DEF ById
      <4> QED BY <1>4, <3>1, <3>3, <4>1 DEF TablesAgree, Numbers
    <3>5. sessionByTuple'[g] = acceptorsByTuple'[g] \cup initiatorsByTuple'[g]
      <4> HIDE DEF row
      <4> QED BY <2>1, <3>1, <3>3 DEF TablesAgree
    <3>6. TablesAgree!(g)'
      BY <1>4, <2>1, <3>1, <3>4, <3>5 DEF TablesAgree, Numbers
    <3> QED BY <1>7, <3>1, <3>6
  <2>7. ProgramOK(g)'
    BY <1>1, <1>4, <2>1, <2>4, <2>5, <2>6 DEF ProgramOK, Numbers
  <2>8. ProgramInv'
    BY <1>1, <2>2, <2>7, OneProgram DEF Inv
  <2>9. ConnectionInv'
    <3>1. CASE DialAll(g, {k}, made'[g])
      <4>1. \A j \in {k} : IsInitiator(<<g, j>>)' /\ ConfigOf(<<g, j>>)' = made'[g][j]
        BY <1>4, <1>5, <1>8 DEF IsInitiator, Exists, ConfigOf, Numbers
      <4>2. {k} \in SUBSET (1..MaxSession) /\ {k} \subseteq DOMAIN made'[g]
        BY <1>4, <1>5
      <4> QED BY <1>1, <1>2, <1>4, <1>6, <3>1, <4>1, <4>2, DialAllKeeps DEF Inv
    <3>2. CASE UNCHANGED <<want, dials, doubled>>
      BY <1>1, <1>2, <1>6, <3>2, AroundKeeps DEF sessionVars
    <3> QED BY <1>8, <3>1, <3>2 DEF AddSession, k
  <2> QED BY <2>8, <2>9 DEF Inv
<1>9. CASE cfg.connectionType = "acceptor"
  <2> DEFINE place == [port |-> cfg.port, id |-> cfg.id, sess |-> k]
  <2>1. /\ acceptorsByPort'[g] = PutByPort(acceptorsByPort[g], place)
        /\ acceptorsByTuple'[g] = PutById(acceptorsByTuple[g], row)
        /\ addFailed' = addFailed \cup {g}
        /\ UNCHANGED <<initiatorFactories, initiatorsByTuple, sessionByTuple,
                       acceptorFactories, want, dials, doubled>>
    BY <1>1, <1>9 DEF AddSession, Keyed, k
  <2>2. Others(g)
    BY <1>1, <1>4, <1>9, <2>1 DEF Others, AddSession, Keyed
  <2>3. /\ row \in [id : STRING \X STRING, sess : 1 .. k]
        /\ place \in [port : Nat, id : STRING \X STRING, sess : 1 .. k]
        /\ place.sess = k /\ place.id = cfg.id
    BY <1>3, <1>5
  <2>4. /\ sessionByTuple'[g] \cup acceptorsByTuple'[g] \cup initiatorsByTuple'[g]
             \subseteq [id : STRING \X STRING, sess : 1 .. k]
        /\ acceptorsByPort'[g] \subseteq [port : Nat, id : STRING \X STRING, sess : 1 .. k]
        /\ acceptorsByPort'[g] \subseteq acceptorsByPort[g] \cup {place}
        /\ initiatorFactories'[g] \subseteq 1 .. k /\ acceptorFactories'[g] \subseteq Nat
    <3>1. /\ \A r \in sessionByTuple[g] \cup acceptorsByTuple[g] \cup initiatorsByTuple[g] :
               r \in [id : STRING \X STRING, sess : 1 .. k]
          /\ \A r \in acceptorsByPort[g] :
               r \in [port : Nat, id : STRING \X STRING, sess : 1 .. k]
          /\ initiatorFactories[g] \subseteq 1 .. k /\ acceptorFactories[g] \subseteq Nat
      BY <1>1, <1>4, <1>5 DEF ProgramOK, Numbers
    <3> HIDE DEF row, place
    <3> QED BY <2>1, <2>3, <3>1, PutIs
  <2>5. PortRows!(g)'
    <3> SUFFICES ASSUME NEW r \in acceptorsByPort'[g]
                 PROVE  made'[g][r.sess].id = r.id /\ made'[g][r.sess].connectionType = "acceptor"
      BY DEF PortRows
    <3>1. CASE r = place
      BY <1>4, <1>9, <2>3, <3>1
    <3>2. CASE r \in acceptorsByPort[g]
      BY <1>1, <1>4, <3>2 DEF ProgramOK, PortRows, Numbers
    <3> QED BY <2>4, <3>1, <3>2
  <2>6. FactoryRows!(g)' /\ NothingYet!(g)'
    BY <1>1, <1>4, <2>1 DEF ProgramOK, FactoryRows, NothingYet, Numbers
  <2>7. ProgramOK(g)'
    BY <1>1, <1>4, <2>1, <2>4, <2>5, <2>6 DEF ProgramOK, Numbers
  <2>8. ProgramInv'
    BY <1>1, <2>2, <2>7, OneProgram DEF Inv
  <2>9. ConnectionInv'
    BY <1>1, <1>2, <1>6, <2>1, AroundKeeps DEF sessionVars
  <2> QED BY <2>8, <2>9 DEF Inv
<1> QED BY <1>3, <1>8, <1>9 DEF Role

LEMMA ExitKeeps ==
  ASSUME Inv, NEW g \in Program, Exit(g)
  PROVE  Inv'
<1>1. /\ setup' = setup /\ setup \in Setup /\ Keyed
      /\ status = [h \in Program |-> status[h]] /\ made = [h \in Program |-> made[h]]
      /\ listening' \subseteq [port : Nat, prog : Program]
      /\ addFailed' = addFailed \ {g}
      /\ used' \in [Budget -> Nat] /\ events' \in Nat
  BY SpendKeeps DEF Exit, Inv, ProgramInv, ProgramType, Budget
<1>2. /\ status'[g] = "off" /\ made'[g] = <<>>
      /\ sessionByTuple'[g] = {} /\ acceptorsByTuple'[g] = {} /\ initiatorsByTuple'[g] = {}
      /\ acceptorsByPort'[g] = {} /\ initiatorFactories'[g] = {} /\ acceptorFactories'[g] = {}
  BY <1>1 DEF Exit, Keyed
<1>3. Others(g)
  BY <1>1, <1>2 DEF Exit, Others, Keyed
<1>4. ProgramOK(g)'
  <2>1. <<>> \in Seq(Config) /\ Len(<<>>) <= MaxSession
    BY LimitIsNat
  <2>2. PortRows!(g)' /\ FactoryRows!(g)' /\ NothingYet!(g)' /\ TablesAgree!(g)'
        /\ OneSessionPerIdentity!(g)'
    BY <1>2 DEF PortRows, FactoryRows, NothingYet, TablesAgree, OneSessionPerIdentity, Numbers,
       ById, Ports
  <2> QED BY <1>2, <2>1, <2>2 DEF ProgramOK
<1>5. ProgramInv'
  BY <1>1, <1>3, <1>4, OneProgram DEF Inv
<1>6. /\ \A s \in Session : s[1] # g => want'[s] = want[s]
      /\ \A s \in Session : protocol'[s] = IF s[1] = g THEN 0 ELSE protocol[s]
      /\ dials' = [n \in DOMAIN dials |->
           [dials[n] EXCEPT !.near = IF dials[n].owner[1] = g THEN "exited" ELSE @,
                            !.far = IF dials[n].host = g /\ @ # "none" THEN "gone" ELSE @]]
      /\ doubled' = {s \in doubled : s[1] # g}
  <2>1. /\ want' = [s \in Session |-> s[1] = g \/ want[s]]
        /\ protocol' = [s \in Session |-> IF s[1] = g THEN 0 ELSE protocol[s]]
        /\ doubled' = {s \in doubled : s[1] # g}
    BY DEF Exit
  <2>2. dials' = [n \in DOMAIN dials |->
           [dials[n] EXCEPT !.near = IF dials[n].owner[1] = g THEN "exited" ELSE @,
                            !.far = IF dials[n].host = g /\ @ # "none" THEN "gone" ELSE @]]
    BY DEF Exit
  <2>3. \A s \in Session : s[1] # g => want'[s] = want[s]
    BY <2>1 DEF Inv, ConnectionInv, ConnectionType
  <2>4. \A s \in Session : protocol'[s] = IF s[1] = g THEN 0 ELSE protocol[s]
    BY <2>1
  <2> QED BY <2>1, <2>2, <2>3, <2>4
<1>7. /\ DOMAIN dials' = DOMAIN dials
      /\ \A n \in DOMAIN dials :
           /\ dials[n] \in Dial /\ dials'[n] \in Dial
           /\ dials'[n].owner = dials[n].owner /\ dials'[n].id = dials[n].id
           /\ dials'[n].host = dials[n].host
           /\ dials'[n].near = IF dials[n].owner[1] = g THEN "exited" ELSE dials[n].near
           /\ dials[n].far = "none" => dials'[n].far = "none"
           /\ dials[n].host # g => dials'[n].far = dials[n].far
  <2>1. DOMAIN dials' = DOMAIN dials
    BY <1>6
  <2>2. ASSUME NEW n \in DOMAIN dials, NEW d \in Dial, NEW e, d = dials[n], e = dials'[n]
        PROVE  /\ e \in Dial /\ e.owner = d.owner /\ e.id = d.id /\ e.host = d.host
               /\ e.near = IF d.owner[1] = g THEN "exited" ELSE d.near
               /\ d.far = "none" => e.far = "none"
               /\ d.host # g => e.far = d.far
    <3>1. e = [d EXCEPT !.near = IF d.owner[1] = g THEN "exited" ELSE d.near,
                        !.far = IF d.host = g /\ d.far # "none" THEN "gone" ELSE d.far]
      BY <1>6, <2>2
    <3> QED BY <3>1 DEF Dial, Near, Far
  <2> QED BY <2>1, <2>2, SameDials DEF Inv
<1>8. ConnectionType'
  <2>1. dials' = [n \in DOMAIN dials |-> dials'[n]] /\ dials \in Seq(Dial)
    BY <1>6 DEF Inv, ConnectionInv, ConnectionType
  <2>2. dials' \in Seq(Dial)
    BY <1>7, <2>1, SeqSame
  <2>3. /\ want' \in [Session -> BOOLEAN] /\ continueTrying' \in [Session -> BOOLEAN]
        /\ protocol' \in [Session -> {0} \cup DOMAIN dials'] /\ doubled' \subseteq Session
    BY <1>6, <1>7 DEF Exit, Inv, ConnectionInv, ConnectionType
  <2> QED BY <1>1, <2>2, <2>3 DEF ConnectionType
<1>9. ASSUME NEW s \in Session, s[1] # g
      PROVE  /\ IsInitiator(s)' <=> IsInitiator(s)
             /\ IsAcceptor(s)' <=> IsAcceptor(s)
             /\ ConfigOf(s)' = ConfigOf(s)
  BY <1>1, <1>3, <1>9, SessionIs DEF Inv, Others, IsInitiator, IsAcceptor, Exists, ConfigOf, Numbers
<1>10. Owners'
  <2> SUFFICES ASSUME NEW n \in DOMAIN dials', NEW s \in Session, dials'[n].owner = s,
                      dials'[n].near # "exited"
               PROVE  IsInitiator(s)' /\ ConfigOf(s)'.id = dials'[n].id
    BY <1>7, OwnerIs, OwnersNext DEF Inv
  <2>1. s[1] # g /\ IsInitiator(s) /\ ConfigOf(s).id = dials[n].id
    BY <1>7 DEF Inv, ConnectionInv, Owners
  <2> QED BY <1>7, <1>9, <2>1
<1>11. Bound'
  <2> SUFFICES ASSUME NEW s \in Session, NEW m, m = protocol'[s], m # 0 PROVE EndOf(s, m)'
    BY DEF Bound
  <2>1. s[1] # g /\ m = protocol[s] /\ m \in DOMAIN dials /\ EndOf(s, m)
    BY <1>6 DEF Inv, ConnectionInv, ConnectionType, Bound
  <2> QED BY <1>7, <1>9, <2>1 DEF EndOf, Flip
<1>12. OneAcceptor'
  BY <1>6, <1>9 DEF Inv, ConnectionInv, OneAcceptor
<1>13. \A n \in DOMAIN dials : dials'[n].near \in Live =>
         /\ dials'[n].near = dials[n].near /\ dials[n].owner[1] # g
         /\ dials[n].owner \notin doubled' => dials[n].owner \notin doubled
  <2> SUFFICES ASSUME NEW n \in DOMAIN dials, dials'[n].near \in Live
               PROVE  /\ dials'[n].near = dials[n].near /\ dials[n].owner[1] # g
                      /\ dials[n].owner \in doubled => dials[n].owner \in doubled'
    OBVIOUS
  <2>1. dials'[n].near = dials[n].near /\ dials[n].owner[1] # g
    <3>1. dials'[n].near # "exited"
      BY DEF Live
    <3>2. dials'[n].near = IF dials[n].owner[1] = g THEN "exited" ELSE dials[n].near
      BY <1>7
    <3> QED BY <3>1, <3>2
  <2> QED BY <1>6, <2>1
<1>14. OneDial'
  BY <1>7, <1>13 DEF Inv, ConnectionInv, OneDial
<1>15. Wanted' /\ Fresh' /\ Quiet'
  <2>1. Trying \subseteq Live
    BY DEF Trying, Live
  <2>2. Fresh'
    BY <1>7, <1>13, <2>1 DEF Inv, ConnectionInv, Fresh
  <2>3. Wanted'
    <3> SUFFICES ASSUME NEW n \in DOMAIN dials', NEW s, s = dials'[n].owner,
                        dials'[n].near \in Trying, s \notin doubled'
                 PROVE  want'[s]
      BY DEF Wanted
    <3>1. n \in DOMAIN dials /\ s = dials[n].owner /\ s \in Session /\ s[1] # g
          /\ dials[n].near \in Trying /\ s \notin doubled
      BY <1>7, <1>13, <2>1, OwnerIs DEF Inv
    <3> QED BY <1>6, <3>1 DEF Inv, ConnectionInv, Wanted
  <2>4. Quiet'
    <3> SUFFICES ASSUME NEW n \in DOMAIN dials', NEW s, s = dials'[n].owner,
                        dials'[n].near \in Trying, s \notin doubled'
                 PROVE  protocol'[s] = 0
      BY DEF Quiet
    <3>1. n \in DOMAIN dials /\ s = dials[n].owner /\ s \in Session
          /\ dials[n].near \in Trying /\ s \notin doubled
      BY <1>7, <1>13, <2>1, OwnerIs DEF Inv
    <3> QED BY <1>6, <3>1 DEF Inv, ConnectionInv, Quiet
  <2> QED BY <2>2, <2>3, <2>4
<1> QED BY <1>5, <1>8, <1>10, <1>11, <1>12, <1>14, <1>15 DEF Inv, ConnectionInv
-----------------------------------------------------------------------------
LEMMA ReactorKeeps ==
  ASSUME Inv, Reactor
  PROVE  Inv'
<1>1. PICK n \in DOMAIN dials :
        Connect(n) \/ Refused(n) \/ Retry(n) \/ ReadLogon(n) \/ CloseNear(n) \/ CloseFar(n)
  BY DEF Reactor
<1>2. ConnectionInv'
  BY <1>1, ConnectKeeps, RefusedKeeps, RetryKeeps, ReadLogonKeeps, CloseNearKeeps, CloseFarKeeps
<1>3. UNCHANGED programVars
  BY <1>1 DEF Connect, Refused, Retry, ReadLogon, CloseNear, CloseFar
<1> QED BY <1>2, <1>3, ProgramFrame DEF Inv

LEMMA UserKeeps ==
  ASSUME Inv, User
  PROVE  Inv'
<1>1. ASSUME NEW g \in Program,
             Start(g) \/ GetConnected(g) \/ Exit(g)
             \/ \E cfg \in Extra[g], now \in BOOLEAN : AddSession(g, cfg, now)
      PROVE  Inv'
  BY <1>1, StartKeeps, GetConnectedKeeps, ExitKeeps, AddSessionKeeps
<1>2. ASSUME NEW s \in Session,
             FactoryLogon(s) \/ AllowLogon(s) \/ \E again \in BOOLEAN : Logoff(s, again)
      PROVE  Inv'
  <2>1. ConnectionInv'
    BY <1>2, FactoryLogonKeeps, AllowLogonKeeps, LogoffKeeps
  <2>2. UNCHANGED programVars
    BY <1>2 DEF FactoryLogon, AllowLogon, Logoff
  <2> QED BY <2>1, <2>2, ProgramFrame DEF Inv
<1> QED BY <1>1, <1>2 DEF User

LEMMA StutterKeeps == Inv /\ UNCHANGED vars => Inv'
<1> SUFFICES ASSUME Inv, UNCHANGED vars PROVE Inv'
  OBVIOUS
<1>1. UNCHANGED programVars /\ UNCHANGED <<sessionVars, dials, doubled, count, made>>
  BY DEF vars, programVars
<1>2. ConnectionInv'
  BY <1>1, SameMade, AroundKeeps, CountKept DEF Inv
<1> QED BY <1>1, <1>2, ProgramFrame DEF Inv

LEMMA Invariance == Spec => []Inv
<1>1. Inv /\ [Next]_vars => Inv'
  BY ReactorKeeps, UserKeeps, StutterKeeps DEF Next
<1> QED BY <1>1, InitInv, PTL DEF Spec

(* For all programs, files and users: what a table or a connector refers   *)
(* to exists.                                                              *)
THEOREM TypeCorrect == Spec => []TypeOK
<1>1. Inv => TypeOK
  BY DEF Inv, ProgramInv, ConnectionInv, TypeOK
<1> QED BY <1>1, Invariance, PTL

(* The session manager never makes two Session objects of one pair of      *)
(* compids, unless addSession raised in the program.                       *)
THEOREM IdentitiesAreUnique == Spec => []OneSessionPerIdentity
<1>1. Inv => OneSessionPerIdentity
  BY DEF Inv, ProgramInv
<1> QED BY <1>1, Invariance, PTL

(* Until then its tables agree, and the factories with the ports.          *)
THEOREM TablesAlwaysAgree == Spec => []TablesAgree
<1>1. Inv => TablesAgree
  BY DEF Inv, ProgramInv
<1> QED BY <1>1, Invariance, PTL

(* Two sessions on one connection name each other.                         *)
THEOREM NoStrangerIsBound == Spec => []RightCounterparty
<1>1. ASSUME Inv, NEW s \in Session, NEW t \in Session, s # t, protocol[s] # 0,
             protocol[s] = protocol[t]
      PROVE  /\ Exists(s) /\ Exists(t) /\ ConfigOf(s).id = Flip(ConfigOf(t).id)
             /\ ConfigOf(s).connectionType # ConfigOf(t).connectionType
  <2> DEFINE n == protocol[s]
  <2>1. EndOf(s, n) /\ EndOf(t, n) /\ n \in DOMAIN dials
    BY <1>1 DEF Inv, ConnectionInv, ConnectionType, Bound
  <2> HIDE DEF n
  <2>2. dials[n].id \in STRING \X STRING
    <3>1. dials[n] \in Dial
      BY <1>1, <2>1, SameDials DEF Inv
    <3> QED BY <3>1 DEF Dial
  <2>3. ASSUME NEW u \in Session, IsInitiator(u), EndOf(u, n)
        PROVE  dials[n].owner = u /\ ConfigOf(u).id = dials[n].id
    <3>1. dials[n].owner = u /\ dials[n].near # "exited"
      BY <2>3 DEF EndOf, IsInitiator, IsAcceptor
    <3> QED BY <1>1, <2>1, <3>1 DEF Inv, ConnectionInv, Owners
  <2>4. \A u \in Session : IsAcceptor(u) /\ EndOf(u, n) => ConfigOf(u).id = Flip(dials[n].id)
    BY DEF EndOf, IsInitiator, IsAcceptor
  <2>5. \A u \in Session : EndOf(u, n) => IsInitiator(u) \/ IsAcceptor(u)
    BY DEF EndOf
  <2>6. ~(IsInitiator(s) /\ IsInitiator(t))
    BY <1>1, <2>1, <2>3
  <2>7. ~(IsAcceptor(s) /\ IsAcceptor(t))
    BY <1>1 DEF n, Inv, ConnectionInv, OneAcceptor
  <2>8. Flip(Flip(dials[n].id)) = dials[n].id
    BY <2>2 DEF Flip
  <2>9. CASE IsInitiator(s) /\ IsAcceptor(t)
    BY <2>1, <2>3, <2>4, <2>8, <2>9 DEF IsInitiator, IsAcceptor
  <2>10. CASE IsAcceptor(s) /\ IsInitiator(t)
    BY <2>1, <2>3, <2>4, <2>10 DEF IsInitiator, IsAcceptor
  <2> QED BY <2>1, <2>5, <2>6, <2>7, <2>9, <2>10
<1>2. Inv => RightCounterparty
  BY <1>1 DEF RightCounterparty
<1> QED BY <1>2, Invariance, PTL

(* A session that was logged off is not bound again by itself.             *)
THEOREM LogoffIsFinal == Spec => LoggedOffStaysOff
<1> DEFINE Allowed ==
      \A s \in Session : protocol[s] = 0 /\ protocol'[s] # 0 => want[s] \/ s \in doubled
<1>1. ASSUME Inv, Next, NEW s \in Session, protocol[s] = 0, protocol'[s] # 0
      PROVE  want[s] \/ s \in doubled
  <2>1. ASSUME NEW n \in DOMAIN dials, Connect(n) PROVE want[s] \/ s \in doubled
    <3>1. protocol' = protocol \/ protocol' = [protocol EXCEPT ![dials[n].owner] = n]
      BY <2>1 DEF Connect, ClientConnectionFailed
    <3>2. s = dials[n].owner
      BY <1>1, <3>1 DEF Inv, ConnectionInv, ConnectionType
    <3>3. dials[n].near \in Trying
      BY <2>1 DEF Connect, Ready, Trying
    <3>4. dials[n].owner \notin doubled => want[dials[n].owner]
      BY <1>1, <3>3 DEF Inv, ConnectionInv, Wanted
    <3> QED BY <3>2, <3>4
  <2>2. ASSUME NEW n \in DOMAIN dials, ReadLogon(n) PROVE want[s] \/ s \in doubled
    <3>1. \/ protocol' = protocol
          \/ \E t \in SessionFor(dials[n].host, dials[n].port, dials[n].id) :
               protocol' = [protocol EXCEPT ![t] = n]
      BY <2>2 DEF ReadLogon
    <3>2. s \in SessionFor(dials[n].host, dials[n].port, dials[n].id)
      BY <1>1, <3>1 DEF Inv, ConnectionInv, ConnectionType
    <3>3. want[s]
      BY <1>1, <3>2, FoundIs
    <3> QED BY <3>3
  <2>3. ASSUME NEW n \in DOMAIN dials, CloseNear(n) \/ CloseFar(n) PROVE FALSE
    BY <1>1, <2>3 DEF CloseNear, CloseFar, Inv, ConnectionInv, ConnectionType
  <2>4. ASSUME NEW n \in DOMAIN dials, Refused(n) \/ Retry(n) PROVE FALSE
    BY <1>1, <2>4 DEF Refused, Retry, ClientConnectionFailed, sessionVars
  <2>5. ~User
    <3>1. ASSUME NEW g \in Program, Exit(g) PROVE FALSE
      BY <1>1, <3>1 DEF Exit
    <3> QED BY <1>1, <3>1 DEF User, Start, GetConnected, AddSession, FactoryLogon, AllowLogon,
            Logoff, sessionVars
  <2> QED BY <1>1, <2>1, <2>2, <2>3, <2>4, <2>5 DEF Next, Reactor
<1>2. Inv /\ [Next]_vars => [Allowed]_vars
  BY <1>1
<1>3. LoggedOffStaysOff <=> [][Allowed]_vars
  BY DEF LoggedOffStaysOff
<1> QED BY <1>2, <1>3, Invariance, PTL DEF Spec
=============================================================================
