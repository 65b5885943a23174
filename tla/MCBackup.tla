------------------------------ MODULE MCBackup ------------------------------
(* Two KyRecovery servers with different suite keys and one more key to pin *)
(* by hand.                                                                 *)
EXTENDS Backup, TLC
CONSTANTS u1, u2, k1, k2

MCKeyOf  == u1 :> k1 @@ u2 :> k2
Renamed  == u1 :> u2 @@ u2 :> u1 @@ k1 :> k2 @@ k2 :> k1
Symmetry == Permutations(Admins) \cup {Renamed}

=============================================================================
