-------------------------- MODULE SessionAuthority --------------------------
(***************************************************************************)
(* What the server promises about sessions, without tables, requests or    *)
(* statements: an authority that issues a session to an eligible account   *)
(* on evidence nobody used before and under the credential of that moment, *)
(* that ends sessions and never brings one back, and that replaces a       *)
(* credential and ends every session of the account in one step.           *)
(***************************************************************************)
EXTENDS Naturals

CONSTANT Users

VARIABLES
  eligible,  \* accounts that may be given a session
  cred,      \* the generation of each account's credential
  live,      \* sessions that are good: [tok, user, hash]
  issued     \* every session ever issued, with the evidence it cost

authority == <<eligible, cred, live, issued>>

Used == UNION {g.held : g \in issued}

Init ==
  /\ eligible \subseteq Users
  /\ cred \in [Users -> Nat]
  /\ live = {}
  /\ issued = {}

Issue(u, g) ==
  /\ u \in eligible
  /\ \A old \in issued : old.sess # g.sess
  /\ g.held \cap Used = {}
  /\ issued' = issued \cup {g}
  /\ live' = live \cup {[tok |-> g.sess, user |-> u, hash |-> cred[u]]}
  /\ UNCHANGED <<eligible, cred>>

EndSessions ==
  /\ live' \subseteq live
  /\ UNCHANGED <<eligible, cred, issued>>

Replace(u) ==
  /\ cred'[u] > cred[u]
  /\ cred' = [cred EXCEPT ![u] = cred'[u]]
  /\ eligible' = eligible \cup {u}
  /\ live' = {s \in live : s.user # u}
  /\ UNCHANGED issued

Next ==
  \/ \E u \in Users, g \in issued' \ issued : Issue(u, g)
  \/ EndSessions
  \/ \E u \in Users : Replace(u)

Spec == Init /\ [][Next]_authority

=============================================================================
