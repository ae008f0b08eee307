---------------------------- MODULE FixManagerMC ----------------------------
(* The configuration files of the examples, on one host: the pair of       *)
(* examples/config as it is written in JavaScript, a client of senderMulti *)
(* and receiverMulti (and the next to be added), the multiplexer between   *)
(* its neighbours, and two receivers for one port.                         *)
EXTENDS FixManager

CONSTANTS ini, acc, mux

Nothing == [sessions |-> <<>>]

MCProgram == {ini, acc, mux}
MCSetup == {"js", "multi", "mux", "port"}

MCFile ==
  [u \in MCSetup |->
     CASE u = "js" -> (ini :> SenderJs @@ acc :> ReceiverJs @@ mux :> Nothing)
       [] u = "multi" -> (ini :> SenderMultiYaml(<<"CLIENT1">>)
                          @@ acc :> ReceiverMultiYaml(<<"CLIENT1">>)
                          @@ mux :> Nothing)
       [] u = "port" -> (ini :> SenderYaml @@ acc :> ReceiverYaml
                         @@ mux :> ReceiverMultiYaml(<<"CLIENT1">>))
       [] u = "mux" -> (ini :> SourcesYaml(<<"SOURCE1">>)
                        @@ acc :> SinksYaml(<<"SINK1">>)
                        @@ mux :> MuxYaml(<<"SOURCE1">>, <<"SINK1">>))]

MCExtra ==
  (ini :> {[connectionType |-> "initiator", id |-> <<"CLIENT2", "BROKER">>, port |-> 1666]}
   @@ acc :> {[connectionType |-> "acceptor", id |-> <<"BROKER", "CLIENT2">>, port |-> 1666]}
   @@ mux :> {})

CONSTANTS Adds, Logons, Logoffs, Faults, Exits
MCLimit == [add |-> Adds, logon |-> Logons, logoff |-> Logoffs, fault |-> Faults,
            exit |-> Exits]
=============================================================================
