------------------------------ MODULE FixManager ------------------------------
(***************************************************************************)
(* The programs of one host that use pyfix: from the configuration file to *)
(* the session manager's tables, the listening ports, the attempts of the  *)
(* initiators to connect and the sessions bound to the two ends of a       *)
(* connection.  pyfix/SessionFactory.py, pyfix/ProtocolFactories.py and    *)
(* bind, release, logon and logoff of pyfix/Session.py.  What happens on a *)
(* connection once it is bound is the subject of FixSession.               *)
(***************************************************************************)
EXTENDS FixConfig

CONSTANTS
  Program,     \* the programs
  Setup, File, \* File[u][g] is the file that program g loads in setup u
  Extra,       \* Extra[g]: the configurations that may be added to g
  MaxSession,  \* bound on the Session objects of a program
  Limit,       \* how often each event of the environment may happen
  MaxEvents    \* and how many of them in all

(* "add", "logon", "logoff": somebody at the console of a program calls    *)
(* addSession, a session's or a factory's logon, a session's logoff;       *)
(* "fault": an attempt or one end of a connection fails; "exit": a program *)
(* ends.                                                                   *)
Budget == {"add", "logon", "logoff", "fault", "exit"}

Role == {"initiator", "acceptor"}
Config == [connectionType : Role, id : STRING \X STRING, port : Nat]

ASSUME FilesFit ==
  \A u \in Setup, g \in Program : Accepts(File[u][g]) =>
    /\ MakeConfig(File[u][g]) \in Seq(Config)
    /\ Len(MakeConfig(File[u][g])) <= MaxSession
ASSUME FilesNameEachSessionOnce ==
  \A u \in Setup, g \in Program : Accepts(File[u][g]) =>
    \A i, j \in DOMAIN MakeConfig(File[u][g]) :
      MakeConfig(File[u][g])[i].id = MakeConfig(File[u][g])[j].id => i = j
ASSUME ExtraType == \A g \in Program : Extra[g] \subseteq Config
ASSUME LimitIsNat == Limit \in [Budget -> Nat] /\ {MaxSession, MaxEvents} \subseteq Nat

VARIABLES
  setup, status,     \* status[g]: "off", "built", "running", "refused"
  made,              \* made[g]: configuration of each Session object of g
  sessionByTuple, acceptorsByTuple, initiatorsByTuple, acceptorsByPort,
  initiatorFactories, acceptorFactories,
  listening,         \* which program listens on which port
  want, protocol,    \* of a session; 0 when it is bound to no protocol
  continueTrying,    \* of the session's InitiatorFactory
  dials,             \* the connectors, with the connection each one made
  addFailed,         \* history: programs in which addSession raised
  doubled,           \* history: sessions dialled while a dial was going on
  used, events       \* history: how often each event, and any, happened

tables == <<sessionByTuple, acceptorsByTuple, initiatorsByTuple, acceptorsByPort,
            initiatorFactories, acceptorFactories>>
programVars == <<setup, status, made, tables, listening, addFailed>>
sessionVars == <<want, protocol, continueTrying>>
count == <<used, events>>
vars == <<programVars, sessionVars, dials, doubled, count>>

-----------------------------------------------------------------------------
Session == Program \X (1..MaxSession)

Numbers(g) == DOMAIN made[g]
Exists(s) == s[2] \in Numbers(s[1])
ConfigOf(s) == made[s[1]][s[2]]
IsInitiator(s) == Exists(s) /\ ConfigOf(s).connectionType = "initiator"
IsAcceptor(s) == Exists(s) /\ ConfigOf(s).connectionType = "acceptor"

Flip(id) == <<id[2], id[1]>>

Spend(k) == /\ used[k] < Limit[k] /\ events < MaxEvents
            /\ used' = [used EXCEPT ![k] = @ + 1]
            /\ events' = events + 1

(* dictionary[key] = value, for a table as a set of records.               *)
PutById(table, row) == {r \in table : r.id # row.id} \cup {row}
PutByPort(table, row) ==
  {r \in table : r.id # row.id \/ r.port # row.port} \cup {row}

(* For comparison: a table keyed by the sender alone; a session bound late *)
(* in the loop.                                                            *)
ByIdSender(cfgs, ks) ==
  {[id |-> cfgs[k].id, sess |-> k] :
     k \in {k \in ks : \A j \in ks : cfgs[j].id[1] = cfgs[k].id[1] => j <= k}}
ByPortLate(cfgs, ks) ==
  {[port |-> cfgs[k].port, id |-> cfgs[k].id, sess |-> k + 1] : k \in ks}

(* The tables that hold a Session for each row of a set of numbers.        *)
ById(cfgs, ks) == {[id |-> cfgs[k].id, sess |-> k] : k \in ks}
ByPort(cfgs, ks) == {[port |-> cfgs[k].port, id |-> cfgs[k].id, sess |-> k] : k \in ks}
OfRole(cfgs, r) == {k \in DOMAIN cfgs : cfgs[k].connectionType = r}
Ports(byPort) == {r.port : r \in byPort}

-----------------------------------------------------------------------------
(* A connector, and the connection it makes: near is the initiator's end,  *)
(* far the end at the program that listened (host).  leaving: a Logout is  *)
(* on its way.                                                             *)
Near == {"connecting", "waiting", "up", "lost", "gaveup", "exited"}
Far == {"none", "hello", "logged", "gone"}

NewDial(s, cfg) ==
  [owner |-> s, id |-> cfg.id, port |-> cfg.port, host |-> s[1],
   near |-> "connecting", far |-> "none", leaving |-> FALSE]

Going(s) == {n \in DOMAIN dials :
               dials[n].owner = s /\ dials[n].near \in {"connecting", "waiting", "up"}}

(* InitiatorFactory.logon of the sessions ks of g, in some order: each     *)
(* wants to be logged in, and each gets a connector.                       *)
Orders(ks) == {o \in [1..Cardinality(ks) -> ks] : \A i, j \in DOMAIN o : o[i] = o[j] => i = j}

DialAll(g, ks, cfgs) ==
  /\ want' = [s \in Session |-> want[s] \/ s \in {g} \X ks]
  /\ \E o \in Orders(ks) :
       dials' = dials \o [i \in DOMAIN o |-> NewDial(<<g, o[i]>>, cfgs[o[i]])]
  /\ doubled' = doubled \cup {s \in {g} \X ks : Going(s) # {} \/ protocol[s] # 0}

(* The program makes its SessionManager of the configuration, or ends with *)
(* the exception of makeConfig.                                            *)
Start(g) ==
  LET cfgs == MakeConfig(File[setup][g]) IN
  /\ status[g] = "off"
  /\ \/ /\ ~Accepts(File[setup][g])
        /\ status' = [status EXCEPT ![g] = "refused"]
        /\ UNCHANGED <<made, tables>>
     \/ /\ Accepts(File[setup][g])
        /\ status' = [status EXCEPT ![g] = "built"]
        /\ made' = [made EXCEPT ![g] = cfgs]
        /\ sessionByTuple' = [sessionByTuple EXCEPT ![g] = ById(cfgs, DOMAIN cfgs)]
        /\ acceptorsByTuple' =
             [acceptorsByTuple EXCEPT ![g] = ById(cfgs, OfRole(cfgs, "acceptor"))]
        /\ initiatorsByTuple' =
             [initiatorsByTuple EXCEPT ![g] = ById(cfgs, OfRole(cfgs, "initiator"))]
        /\ acceptorsByPort' =
             [acceptorsByPort EXCEPT ![g] = ByPort(cfgs, OfRole(cfgs, "acceptor"))]
        /\ initiatorFactories' =
             [initiatorFactories EXCEPT ![g] = OfRole(cfgs, "initiator")]
        /\ acceptorFactories' =
             [acceptorFactories EXCEPT ![g] = Ports(acceptorsByPort'[g])]
  /\ UNCHANGED <<setup, listening, addFailed, sessionVars, dials, doubled, count>>

(* getConnected: listenTCP for each acceptor factory, logon of each        *)
(* initiator factory; a port that is taken ends the program.               *)
GetConnected(g) ==
  LET taken == {l.port : l \in listening} IN
  /\ status[g] = "built"
  /\ \/ /\ acceptorFactories[g] \cap taken # {}
        /\ status' = [status EXCEPT ![g] = "refused"]
        /\ UNCHANGED <<listening, want, dials, doubled>>
     \/ /\ acceptorFactories[g] \cap taken = {}
        /\ status' = [status EXCEPT ![g] = "running"]
        /\ listening' = listening \cup [port : acceptorFactories[g], prog : {g}]
        /\ DialAll(g, initiatorFactories[g], made[g])
  /\ UNCHANGED <<setup, made, tables, addFailed, protocol, continueTrying, count>>

KnownAcceptor(g, id) == \E r \in acceptorsByTuple[g] : r.id = id   \* for comparison
Known(g, id) == \E r \in sessionByTuple[g] : r.id = id

(* addSession.  The Session object is made before anything else happens.   *)
(* An acceptor goes into its two tables and then always raises: the table  *)
(* of its port was just made, and add_session takes two arguments.  So     *)
(* sessionByTuple never hears of it, but the factory of a port that is     *)
(* listened to shares the table.                                           *)
AddSession(g, cfg, initiateImmediately) ==
  LET k == Len(made[g]) + 1
      row == [id |-> cfg.id, sess |-> k]
  IN
  /\ status[g] \in {"built", "running"}
  /\ k <= MaxSession
  /\ ~Known(g, cfg.id)
  /\ Spend("add")
  /\ made' = [made EXCEPT ![g] = Append(@, cfg)]
  /\ \/ /\ cfg.connectionType = "initiator"
        /\ initiatorFactories' = [initiatorFactories EXCEPT ![g] = @ \cup {k}]
        /\ initiatorsByTuple' = [initiatorsByTuple EXCEPT ![g] = PutById(@, row)]
        /\ IF initiateImmediately
           THEN DialAll(g, {k}, made'[g])
           ELSE UNCHANGED <<want, dials, doubled>>
        /\ sessionByTuple' = [sessionByTuple EXCEPT ![g] = PutById(@, row)]
        /\ acceptorFactories' =
             [acceptorFactories EXCEPT ![g] = Ports(acceptorsByPort[g])]
        /\ UNCHANGED <<acceptorsByPort, acceptorsByTuple, addFailed>>
     \/ /\ cfg.connectionType = "acceptor"
        /\ acceptorsByPort' =
             [acceptorsByPort EXCEPT
                ![g] = PutByPort(@, [port |-> cfg.port, id |-> cfg.id, sess |-> k])]
        /\ acceptorsByTuple' = [acceptorsByTuple EXCEPT ![g] = PutById(@, row)]
        /\ addFailed' = addFailed \cup {g}
        /\ UNCHANGED <<initiatorFactories, initiatorsByTuple, sessionByTuple,
                       acceptorFactories, want, dials, doubled>>
  /\ UNCHANGED <<setup, status, listening, protocol, continueTrying>>

-----------------------------------------------------------------------------
(* InitiatorFactory.logon, called by hand: the flag is set before the      *)
(* assertion that the session is bound to nothing.                         *)
FactoryLogon(s) ==
  /\ IsInitiator(s) /\ Spend("logon")
  /\ IF protocol[s] = 0
     THEN DialAll(s[1], {s[2]}, made[s[1]])
     ELSE want' = [want EXCEPT ![s] = TRUE] /\ UNCHANGED <<dials, doubled>>
  /\ UNCHANGED <<programVars, protocol, continueTrying>>

(* Session.logon raises behind the flag, for an acceptor (no factory) and  *)
(* for an initiator (InitiatorFactory is not imported there).              *)
AllowLogon(s) ==
  /\ Exists(s) /\ protocol[s] = 0 /\ Spend("logon")
  /\ want' = [want EXCEPT ![s] = TRUE]
  /\ UNCHANGED <<programVars, protocol, continueTrying, dials, doubled>>

(* Session.logoff.                                                         *)
Logoff(s, want_to_be_logged_on) ==
  /\ Exists(s) /\ protocol[s] # 0 /\ Spend("logoff")
  /\ want' = [want EXCEPT ![s] = want_to_be_logged_on]
  /\ dials' = [dials EXCEPT ![protocol[s]].leaving = TRUE]
  /\ UNCHANGED <<programVars, protocol, continueTrying, doubled>>

(* clientConnectionFailed.  The retry, and its end, are Twisted's          *)
(* ReconnectingClientFactory.  stopTrying knows one connector, the one that *)
(* failed last before, and cancels its delayed call or its attempt; it     *)
(* raises when that call was called already.  Any other goes on.           *)
Dialling(s) == {m \in DOMAIN dials :
                  dials[m].owner = s /\ dials[m].near \in {"connecting", "waiting"}}
GiveUp(ns) ==
  dials' = [m \in DOMAIN dials |-> IF m \in ns THEN [dials[m] EXCEPT !.near = "gaveup"]
                                              ELSE dials[m]]

StopTrying(n) ==
  LET s == dials[n].owner IN
  \/ /\ \E known \in Dialling(s) : GiveUp({n, known})
     /\ continueTrying' = [continueTrying EXCEPT ![s] = FALSE]
  \/ GiveUp({n}) /\ UNCHANGED continueTrying

(* For comparison: no retry. *)
FailedForGood(n) ==
  StopTrying(n) /\ UNCHANGED <<want, protocol>>

ClientConnectionFailed(n) ==
  LET s == dials[n].owner IN
  /\ \/ /\ want[s]
        /\ dials' = [dials EXCEPT ![n].near =
                       IF continueTrying[s] THEN "waiting" ELSE "gaveup"]
        /\ UNCHANGED continueTrying
     \/ ~want[s] /\ StopTrying(n)
  /\ UNCHANGED <<want, protocol>>

(* The connector reaches a program, and buildProtocol binds the session;   *)
(* when the session is bound already its assertion fails, and Twisted      *)
(* takes that for a failed connection.  The programs run the reactor after *)
(* getConnected.                                                           *)
Ready(n) == dials[n].near = "connecting" /\ status[dials[n].owner[1]] = "running"

Connect(n) ==
  LET s == dials[n].owner IN
  /\ Ready(n)
  /\ \E l \in listening :
       /\ l.port = dials[n].port
       /\ \/ /\ protocol[s] = 0
             /\ protocol' = [protocol EXCEPT ![s] = n]
             /\ dials' = [dials EXCEPT ![n].near = "up", ![n].far = "hello",
                                       ![n].host = l.prog]
             /\ UNCHANGED <<want, continueTrying>>
          \/ protocol[s] # 0 /\ ClientConnectionFailed(n)
  /\ UNCHANGED <<programVars, doubled, count>>

Refused(n) ==
  /\ Ready(n)
  /\ \/ UNCHANGED count /\ \A l \in listening : l.port # dials[n].port
     \/ Spend("fault")
  /\ ClientConnectionFailed(n)
  /\ UNCHANGED <<programVars, doubled>>

Retry(n) ==
  /\ dials[n].near = "waiting"
  /\ dials' = [dials EXCEPT ![n].near = "connecting"]
  /\ UNCHANGED <<programVars, sessionVars, doubled, count>>

(* For comparison: by the sender alone; without a look at the flag.        *)
SessionForTarget(g, port, id) ==
  {s \in {g} \X {r.sess : r \in {q \in acceptorsByPort[g] :
                                   q.port = port /\ q.id[1] = id[2]}} : want[s]}
SessionForAny(g, port, id) ==
  {g} \X {r.sess : r \in {q \in acceptorsByPort[g] : q.port = port /\ q.id = Flip(id)}}

(* get_session_for_message, in the AcceptorFactory of the dialled port.    *)
SessionFor(g, port, id) ==
  {s \in {g} \X {r.sess : r \in {q \in acceptorsByPort[g] :
                                   q.port = port /\ q.id = Flip(id)}} : want[s]}

(* The acceptor reads the Logon.  No session, or one that is bound: an     *)
(* exception, and the connection is closed.                                *)
ReadLogon(n) ==
  LET d == dials[n]
      found == SessionFor(d.host, d.port, d.id)
  IN
  /\ d.far = "hello"
  /\ \/ \E s \in found :
          /\ protocol[s] = 0
          /\ protocol' = [protocol EXCEPT ![s] = n]
          /\ dials' = [dials EXCEPT ![n].far = "logged"]
     \/ /\ \A s \in found : protocol[s] # 0
        /\ dials' = [dials EXCEPT ![n].far = "gone"]
        /\ UNCHANGED protocol
  /\ UNCHANGED <<programVars, want, continueTrying, doubled, count>>

-----------------------------------------------------------------------------
(* One end of a connection is closed: by its own logout, because the other *)
(* is, or by a fault.  The session is released, unless the fault was a test *)
(* request that timed out, which ends clean_up_and_die with an exception:  *)
(* then the session stays bound (FixTimers).  clientConnectionLost raises  *)
(* before it comes to the retry.                                           *)
Closing(n, otherGone) ==
  \/ (otherGone \/ dials[n].leaving) /\ UNCHANGED count
  \/ Spend("fault")

CloseNear(n) ==
  /\ dials[n].near = "up"
  /\ \/ /\ Closing(n, dials[n].far = "gone")
        /\ protocol' = [protocol EXCEPT ![dials[n].owner] = 0]
     \/ Spend("fault") /\ UNCHANGED protocol
  /\ dials' = [dials EXCEPT ![n].near = "lost"]
  /\ UNCHANGED <<programVars, want, continueTrying, doubled>>

AcceptorOf(n) == {s \in Session : IsAcceptor(s) /\ protocol[s] = n}

CloseFar(n) ==
  /\ dials[n].far \in {"hello", "logged"}
  /\ \/ /\ Closing(n, dials[n].near # "up")
        /\ protocol' = [s \in Session |-> IF s \in AcceptorOf(n) THEN 0 ELSE protocol[s]]
     \/ Spend("fault") /\ UNCHANGED protocol
  /\ dials' = [dials EXCEPT ![n].far = "gone"]
  /\ UNCHANGED <<programVars, want, continueTrying, doubled>>

(* A program ends, with everything it held in memory.                      *)
Exit(g) ==
  LET Mine(s) == s[1] = g IN
  /\ status[g] # "off" /\ Spend("exit")
  /\ status' = [status EXCEPT ![g] = "off"]
  /\ made' = [made EXCEPT ![g] = <<>>]
  /\ sessionByTuple' = [sessionByTuple EXCEPT ![g] = {}]
  /\ acceptorsByTuple' = [acceptorsByTuple EXCEPT ![g] = {}]
  /\ initiatorsByTuple' = [initiatorsByTuple EXCEPT ![g] = {}]
  /\ acceptorsByPort' = [acceptorsByPort EXCEPT ![g] = {}]
  /\ initiatorFactories' = [initiatorFactories EXCEPT ![g] = {}]
  /\ acceptorFactories' = [acceptorFactories EXCEPT ![g] = {}]
  /\ listening' = {l \in listening : l.prog # g}
  /\ want' = [s \in Session |-> Mine(s) \/ want[s]]
  /\ continueTrying' = [s \in Session |-> Mine(s) \/ continueTrying[s]]
  /\ protocol' = [s \in Session |-> IF Mine(s) THEN 0 ELSE protocol[s]]
  /\ dials' = [n \in DOMAIN dials |->
       [dials[n] EXCEPT !.near = IF Mine(dials[n].owner) THEN "exited" ELSE @,
                        !.far = IF dials[n].host = g /\ @ # "none" THEN "gone" ELSE @]]
  /\ addFailed' = addFailed \ {g}
  /\ doubled' = {s \in doubled : ~Mine(s)}
  /\ UNCHANGED setup

-----------------------------------------------------------------------------
Init ==
  /\ setup \in Setup
  /\ status = [g \in Program |-> "off"]
  /\ made = [g \in Program |-> <<>>]
  /\ sessionByTuple = [g \in Program |-> {}]
  /\ acceptorsByTuple = [g \in Program |-> {}]
  /\ initiatorsByTuple = [g \in Program |-> {}]
  /\ acceptorsByPort = [g \in Program |-> {}]
  /\ initiatorFactories = [g \in Program |-> {}]
  /\ acceptorFactories = [g \in Program |-> {}]
  /\ listening = {}
  /\ want = [s \in Session |-> TRUE]
  /\ protocol = [s \in Session |-> 0]
  /\ continueTrying = [s \in Session |-> TRUE]
  /\ dials = <<>>
  /\ addFailed = {} /\ doubled = {}
  /\ used = [k \in Budget |-> 0] /\ events = 0

(* What the reactor does by itself, and what somebody may do.              *)
Reactor ==
  \E n \in DOMAIN dials :
    Connect(n) \/ Refused(n) \/ Retry(n) \/ ReadLogon(n) \/ CloseNear(n) \/ CloseFar(n)

User ==
  \/ \E g \in Program :
       \/ Start(g) \/ GetConnected(g) \/ Exit(g)
       \/ \E cfg \in Extra[g], now \in BOOLEAN : AddSession(g, cfg, now)
  \/ \E s \in Session :
       FactoryLogon(s) \/ AllowLogon(s) \/ \E again \in BOOLEAN : Logoff(s, again)

Next == Reactor \/ User

Spec == Init /\ [][Next]_vars

(* The reactor serves what is ready; Twisted's delay before a retry is     *)
(* bounded and it never gives up by itself.                                *)
Attempt(s) ==
  \E n \in DOMAIN dials :
    dials[n].owner = s /\ (Connect(n) \/ Refused(n) \/ Retry(n))
Settle == \E n \in DOMAIN dials : ReadLogon(n) \/ CloseNear(n)

(* Those that can ever be an initiator.                                    *)
Dialler ==
  {s \in Session :
     \/ \E cfg \in Extra[s[1]] : cfg.connectionType = "initiator"
     \/ \E u \in Setup :
          LET file == File[u][s[1]] IN
          Accepts(file) /\ s[2] \in OfRole(MakeConfig(file), "initiator")}

FairSpec == Spec /\ WF_vars(Settle) /\ \A s \in Dialler : WF_vars(Attempt(s))

-----------------------------------------------------------------------------
Dial == [owner : Session, id : STRING \X STRING, port : Nat, host : Program,
         near : Near, far : Far, leaving : BOOLEAN]

(* The type of the state; what a table or a connector refers to exists.    *)
ProgramType ==
  /\ setup \in Setup
  /\ status \in [Program -> {"off", "built", "running", "refused"}]
  /\ made \in [Program -> Seq(Config)]
  /\ \A g \in Program :
       /\ Len(made[g]) <= MaxSession
       /\ sessionByTuple[g] \cup acceptorsByTuple[g] \cup initiatorsByTuple[g]
            \subseteq [id : STRING \X STRING, sess : Numbers(g)]
       /\ acceptorsByPort[g]
            \subseteq [port : Nat, id : STRING \X STRING, sess : Numbers(g)]
       /\ initiatorFactories[g] \subseteq Numbers(g)
       /\ acceptorFactories[g] \subseteq Nat
  /\ listening \subseteq [port : Nat, prog : Program]
  /\ addFailed \subseteq Program

ConnectionType ==
  /\ want \in [Session -> BOOLEAN]
  /\ protocol \in [Session -> {0} \cup DOMAIN dials]
  /\ continueTrying \in [Session -> BOOLEAN]
  /\ dials \in Seq(Dial)
  /\ doubled \subseteq Session
  /\ used \in [Budget -> Nat] /\ events \in Nat

TypeOK == ProgramType /\ ConnectionType

(* Two sessions bound to the two ends of one connection are an initiator   *)
(* and an acceptor that name each other: whatever programs, ports, twins,  *)
(* repeated dials and restarts there are, nobody is bound to a stranger's  *)
(* connection (get_session_for_message, bind_protocol, release_protocol).  *)
RightCounterparty ==
  \A s, t \in Session :
    s # t /\ protocol[s] # 0 /\ protocol[s] = protocol[t] =>
      /\ Exists(s) /\ Exists(t)
      /\ ConfigOf(s).id = Flip(ConfigOf(t).id)
      /\ ConfigOf(s).connectionType # ConfigOf(t).connectionType

(* As long as addSession has not raised in a program, no two Session       *)
(* objects of it have the same compids (each would open the same           *)
(* databases and number its own messages), and the tables agree with each  *)
(* other: "populating these structures so as to keep them consistent".     *)
OneSessionPerIdentity ==
  \A g \in Program \ addFailed : \A j, k \in Numbers(g) :
    made[g][j].id = made[g][k].id => j = k

TablesAgree ==
  \A g \in Program \ addFailed :
    /\ sessionByTuple[g] = acceptorsByTuple[g] \cup initiatorsByTuple[g]
    /\ acceptorsByTuple[g] = {[id |-> r.id, sess |-> r.sess] : r \in acceptorsByPort[g]}
    /\ sessionByTuple[g] = ById(made[g], Numbers(g))
    /\ status[g] # "off" => acceptorFactories[g] = Ports(acceptorsByPort[g])

(* A session that was logged off, and is not wanted, is not bound again    *)
(* behind the user's back; an initiator dialled while an attempt of it was *)
(* going on (doubled) is the exception, its other attempt binds it.        *)
LoggedOffStaysOff ==
  [][\A s \in Session :
       protocol[s] = 0 /\ protocol'[s] # 0 => want[s] \/ s \in doubled]_vars

(* An initiator that stays wanted, of a program that runs and dialled it,  *)
(* is logged on at the other end, in whatever order the programs start,    *)
(* once a program keeps listening at its port: RCF keeps trying.  Only a   *)
(* connection that it had and lost excuses it (it is never dialled again). *)
Served(s) ==
  /\ IsInitiator(s) /\ want[s] /\ status[s[1]] = "running"
  /\ \E n \in DOMAIN dials : dials[n].owner = s
  /\ \E l \in listening : l.port = ConfigOf(s).port
LoggedOn(s) == protocol[s] # 0 /\ dials[protocol[s]].far = "logged"
Lost(s) == \E n \in DOMAIN dials : dials[n].owner = s /\ dials[n].near = "lost"

EventuallyLoggedOn ==
  \A s \in Dialler : (<>[]Served(s)) => <>(LoggedOn(s) \/ Lost(s))

=============================================================================
