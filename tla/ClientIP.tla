------------------------------ MODULE ClientIP ------------------------------
(***************************************************************************)
(* auth.ClientIP: the address a request is attributed to, which keys the   *)
(* rate limiter and is bound into sessions.  The same address may be       *)
(* spelled in several ways.                                                *)
(***************************************************************************)
EXTENDS Integers, Sequences, FiniteSetsExt

CONSTANTS
  Addrs,     \* addresses
  Trusted,   \* those inside KY_TRUSTED_PROXIES
  NoAddr     \* what does not parse

ASSUME ClientIPAssumption == Trusted \subseteq Addrs /\ NoAddr \notin Addrs

(* How an address may be spelled: bare, as an IPv4-mapped IPv6 address, or *)
(* with a port.  What does not parse is no address at all; an absent       *)
(* header splits into one such entry, the empty string.                    *)
Forms == {"bare", "mapped", "port"}
Junk  == [addr |-> NoAddr, form |-> "junk"]
Entry == [addr: Addrs, form: Forms] \cup {Junk}

(* parseForwardedEntry and peerIP: the port goes, the mapping is undone.   *)
ParseEntry(e) == e.addr

IsTrusted(a) == a \in Trusted

(* Mutant of Nearest: the leftmost hop that is not trusted.                *)
Farthest(S) == Min(S)

(* The walk goes from the right.                                           *)
Nearest(S) == Max(S)

(* The entry that ends the walk over the header is the nearest one that is *)
(* not a trusted proxy: the answer if it is an address.  The peer is the   *)
(* answer if that entry does not parse, if there is none, and if the peer  *)
(* itself is not a trusted proxy.                                          *)
ClientIP(peer, parts) ==
  LET p    == ParseEntry(peer)
      hops == [j \in DOMAIN parts |-> ParseEntry(parts[j])]
      ends == {j \in DOMAIN parts : ~IsTrusted(hops[j])}
  IN  IF IsTrusted(p) /\ ends # {} /\ hops[Nearest(ends)] # NoAddr
      THEN hops[Nearest(ends)] ELSE p

=============================================================================
