---------------------------- MODULE MCDirectory ----------------------------
(* Directory for TLC, with the same interchangeable model values.           *)
EXTENDS Directory, TLC

Symmetry == Permutations(Procs) \cup Permutations(Tokens) \cup Permutations(Syncs)

=============================================================================
