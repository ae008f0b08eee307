------------------------------ MODULE FixConfig ------------------------------
(***************************************************************************)
(* pyfix/FIXConfig.py and the configuration files of the examples: which   *)
(* sessions makeConfig makes of a file, and which files it refuses.  A     *)
(* dictionary is a record.  The ports of other services are left out, the  *)
(* values of paths and intervals do not matter; the fields makeConfig      *)
(* looks for are there, or missing, as in the file.                        *)
(***************************************************************************)
EXTENDS Naturals, Sequences, FiniteSets, TLC

(* What the loop over d['sessions'] sees: the dictionaries of a list, or,  *)
(* where a dictionary stands in place of the list, its keys.               *)
Dicts(rows) == [i \in DOMAIN rows |-> [dict |-> TRUE, fields |-> rows[i]]]
Keys(row) == [i \in 1..Cardinality(DOMAIN row) |-> [dict |-> FALSE, fields |-> row]]

Pair(sender, target) == [SenderCompID |-> sender, TargetCompID |-> target]
PairAt(port, sender, target) == Pair(sender, target) @@ [Port |-> port]

-----------------------------------------------------------------------------
(* makeConfig.                                                             *)
argList == {"ConnectionType", "HeartbeatInterval", "SenderCompID",
            "TargetCompID", "Port"}

Sess(d, chunk) == chunk.fields @@ d.default

ChunkPasses(d, chunk) ==
  /\ "default" \in DOMAIN d
  /\ chunk.dict
  /\ argList \subseteq DOMAIN Sess(d, chunk)
  /\ Sess(d, chunk).ConnectionType \in {"initiator", "acceptor"}
  /\ Sess(d, chunk).ConnectionType = "initiator" => "Host" \in DOMAIN Sess(d, chunk)
  /\ "PersistRoot" \in DOMAIN Sess(d, chunk)

Accepts(d) == \A i \in DOMAIN d.sessions : ChunkPasses(d, d.sessions[i])

SessionConfig(sess) ==
  [connectionType |-> sess.ConnectionType,
   id |-> <<sess.SenderCompID, sess.TargetCompID>>,
   port |-> sess.Port]

MakeConfig(d) == [i \in DOMAIN d.sessions |-> SessionConfig(Sess(d, d.sessions[i]))]

-----------------------------------------------------------------------------
(* The files.                                                              *)
SenderJs ==
  [defaults |-> [ConnectionType |-> "initiator", HeartbeatInterval |-> 30,
                 PersistRoot |-> "send", Host |-> "localhost"],
   sessions |-> Dicts(<<PairAt(1666, "CLIENT", "BROKER")>>)]

ReceiverJs ==
  [defaults |-> [ConnectionType |-> "acceptpr", HeartbeatInterval |-> 30,
                 PersistRoot |-> "receive"],
   sessions |-> Keys(PairAt(1666, "BROKER", "CLIENT"))]

InitiatorDefault ==
  [ConnectionType |-> "initiator", HeartbeatInterval |-> 30,
   PersistRoot |-> "send", Host |-> "localhost"]

AcceptorDefault ==
  [ConnectionType |-> "acceptor", HeartbeatInterval |-> 30, PersistRoot |-> "receive"]

SenderYaml ==
  [default |-> InitiatorDefault,
   sessions |-> Dicts(<<PairAt(1666, "ACME", "BROKER")>>)]

ReceiverYaml ==
  [default |-> AcceptorDefault,
   sessions |-> Dicts(<<PairAt(1666, "BROKER", "ACME")>>)]

(* The files of many sessions: the first of them, one per client given.    *)
SenderMultiYaml(clients) ==
  [default |-> InitiatorDefault,
   sessions |-> Dicts([i \in DOMAIN clients |-> PairAt(1666, clients[i], "BROKER")])]

ReceiverMultiYaml(clients) ==
  [default |-> AcceptorDefault,
   sessions |-> Dicts([i \in DOMAIN clients |-> PairAt(1666, "BROKER", clients[i])])]

(* The multiplexer: acceptors for the sources, initiators for the sinks.   *)
MuxYaml(sources, sinks) ==
  [default |-> InitiatorDefault @@ [Port |-> 10000],
   sessions |->
     Dicts([i \in DOMAIN sources |->
              Pair("MUX", sources[i]) @@ [ConnectionType |-> "acceptor"]]
           \o [i \in DOMAIN sinks |-> PairAt(10000 + i, "MUX", sinks[i])])]

SourcesYaml(sources) ==
  [default |-> InitiatorDefault,
   sessions |-> Dicts([i \in DOMAIN sources |-> PairAt(10000, sources[i], "MUX")])]

SinksYaml(sinks) ==
  [default |-> AcceptorDefault @@ [Host |-> "localhost"],
   sessions |-> Dicts([i \in DOMAIN sinks |-> PairAt(10000 + i, sinks[i], "MUX")])]
=============================================================================
