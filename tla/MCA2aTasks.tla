----------------------------- MODULE MCA2aTasks -----------------------------
(* Instances of A2aTasks for TLC.                                          *)
EXTENDS A2aTasks, TLC

Symmetry == Permutations(Message) \cup Permutations(Mandate)
=============================================================================
