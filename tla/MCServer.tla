------------------------------ MODULE MCServer ------------------------------
(* Values of the constants of Server for TLC.                              *)
EXTENDS Server

OnePort  == <<"p1">>
TwoPorts == <<"p1", "p2">>
Symmetric == Permutations(Clients)
=============================================================================
