------------------------------ MODULE MCMembers ------------------------------
(* Members for TLC: two requests at a time, three people.                  *)
EXTENDS Members, TLC

Symmetry == Permutations(Users) \cup Permutations(Transfers) \cup Permutations(Slots)
=============================================================================
