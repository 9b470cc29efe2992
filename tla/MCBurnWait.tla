---------------------------- MODULE MCBurnWait ----------------------------
(* Instances of BurnWait for TLC. *)
EXTENDS BurnWait

MCArgs  == <<"short", "long", "eager">>
MCTwo   == <<"short", "long">>
MCKops  == [j \in Job |-> CASE j = "short" -> 1 [] j = "long" -> 2 [] j = "eager" -> 0]
MCWait  == [j \in Job |-> CASE j = "short" -> 1 [] j = "long" -> 3 [] j = "eager" -> 0]
=============================================================================
