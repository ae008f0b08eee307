------------------------------ MODULE FixParserMC ------------------------------
EXTENDS FixParser, SequencesExt

Shortest == <<"pre", "type", "sum">>
Longer == <<"pre", "type", "body", "sum">>
Tenner == <<"pre", "ten", "type", "sum">>
Untyped == <<"pre", "body", "sum">>
Headless == <<"type", "sum">>

Pairs(pieces) == {FlattenSeq(s) : s \in [1..2 -> pieces]}
Triples(pieces) == {FlattenSeq(s) : s \in [1..3 -> pieces]}

(* Messages only, after the end of one whose beginning was missed.         *)
CleanStreams ==
  {FlattenSeq(<<start, rest>>) :
     start \in {<<>>, <<"body">>, <<"bad">>, Headless, <<"ten", "sum">>},
     rest \in Pairs({Shortest, Longer, Tenner}) \cup Triples({Shortest, Tenner})}

ASSUME CleanAssumption == \A s \in CleanStreams : BackToBack(s)

(* Anything between the messages.                                          *)
NoisyStreams ==
  Triples({Shortest, Tenner, Untyped, Headless, <<"body">>, <<"bad">>, <<"pre">>})
=============================================================================
