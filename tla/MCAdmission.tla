---------------------------- MODULE MCAdmission -----------------------------
(* Two clients, two proxies, one account, two password changes at a time, *)
(* each of which is charged to two keys; the map holds two.                 *)
EXTENDS Admission, TLC

MCKeys   == {<<path, x>> : path \in {"login", "mfa", "password-change"}, x \in Addrs \cup Users}
MCLimit  == [k \in MCKeys |-> 1]
MCWindow == [k \in MCKeys |-> 1]
Symmetry == Permutations(Callers) \cup Permutations(Clients)

=============================================================================
