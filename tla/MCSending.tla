------------------------------ MODULE MCSending ------------------------------
(* Instances of Sending for TLC: the threads are interchangeable.          *)
EXTENDS Sending, TLC

ThreadSymmetry == Permutations(Thread)
=============================================================================
