----------------------------- MODULE MCWorldIds -----------------------------
(* Instances of WorldIds for TLC.                                          *)
EXTENDS WorldIds, TLC

IdSymmetry == Permutations(Client) \cup Permutations(Npc)
=============================================================================
