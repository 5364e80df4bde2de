------------------------------ MODULE MCApiKeys ------------------------------
(* ApiKeys for TLC.                                                        *)
EXTENDS ApiKeys, TLC
Symmetry == Permutations(KeySlots) \cup Permutations(Keys \ Minted) \cup Permutations(Minted)
=============================================================================
