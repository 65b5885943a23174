------------------------------ MODULE MCGroups ------------------------------
(* Two users, two overlapping requests.                                     *)
EXTENDS Groups, TLC

Symmetry == Permutations(Users) \cup Permutations(Procs)

=============================================================================
