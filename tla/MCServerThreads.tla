-------------------------- MODULE MCServerThreads --------------------------
(* Instances of ServerThreads for TLC.                                     *)
EXTENDS ServerThreads

AddrSymmetry == Permutations(Addr)
=============================================================================
