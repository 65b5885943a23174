--------------------------- MODULE MCProvisioning ---------------------------
(* Two people, two names  (one of which the local administrator has), two    *)
(* requests at a time.                                                      *)
EXTENDS Provisioning, TLC

Symmetry == Permutations(Procs) \cup Permutations(Ids) \cup Permutations(Names)
            \cup Permutations(Subjects)

=============================================================================
