------------------------------- MODULE FixStream -------------------------------
(***************************************************************************)
(* What a FIX session promises one application about the other's messages, *)
(* with no protocol in it: sent is what the sending session has compiled,  *)
(* number by number, got the numbers the receiving application was given.  *)
(* The stored messages of the application arrive in the order of their     *)
(* numbers, each once, and none before all those in front of it.           *)
(***************************************************************************)
EXTENDS Naturals, Sequences, SequencesExt

VARIABLES sent, got

vars == <<sent, got>>

Given == ToSet(got)

Init == sent = <<>> /\ got = <<>>

Compile ==
  /\ IsStrictPrefix(sent, sent')
  /\ UNCHANGED got

(* n is the first stored application message that was not given yet.       *)
Deliver ==
  /\ \E n \in DOMAIN sent :
       /\ sent[n] = "app" /\ n \notin Given
       /\ \A k \in 1..(n - 1) : sent[k] = "app" => k \in Given
       /\ got' = Append(got, n)
  /\ UNCHANGED sent

Spec == Init /\ [][Compile \/ Deliver]_vars
=============================================================================
