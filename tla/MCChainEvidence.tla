--------------------------- MODULE MCChainEvidence ---------------------------
(* Instances of ChainEvidence for TLC.                                     *)
EXTENDS ChainEvidence

\* Chains when the attempt is reserved; NEAR's block times are its heights.
Chains == {<<0>>, <<0, 2>>}

Limits == [f \in Family |-> IF f = "near" THEN 2 ELSE 3]
=============================================================================
