--------------------------- MODULE MCCredentials ---------------------------
(* Credentials for TLC: secrets, request slots and codes are model values,  *)
(* interchangeable because no expression tells two of them apart.           *)
EXTENDS Credentials, TLC

Symmetry == Permutations(Procs) \cup Permutations(Tokens) \cup Permutations(Codes)

=============================================================================
