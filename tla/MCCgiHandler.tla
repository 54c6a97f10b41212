----------------------------- MODULE MCCgiHandler -----------------------------
(* Values for TLC.  Neither connections nor pids are told apart.           *)
EXTENDS CgiHandler, TLC

Symmetric == Permutations(Conns) \cup Permutations(Pids)
=============================================================================
