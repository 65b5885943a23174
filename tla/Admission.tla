----------------------------- MODULE Admission ------------------------------
(***************************************************************************)
(* From the network to the limiter: a request passes proxies that append   *)
(* to whatever X-Forwarded-For its sender made up, then the gate of        *)
(* ServeHTTP, and is then charged to one or two keys of the limiter, which *)
(* are served to concurrent requests in any order.                         *)
(*                                                                         *)
(* The questions are end to end: what a sender may spend, and what a       *)
(* sender is refused for, whatever anybody writes into headers.            *)
(***************************************************************************)
EXTENDS RateLimiter, ClientIP

CONSTANTS
  Clients,   \* the addresses of senders, none of them a trusted proxy
  Users,     \* accounts
  Paths,     \* the limited paths requests are for
  MaxForged  \* bound: header entries a sender makes up

ASSUME AdmissionAssumption ==
  /\ Clients \subseteq Addrs \ Trusted /\ MaxForged \in Nat
  /\ Paths \subseteq {"login", "mfa", "password-change"}

VARIABLES
  req,    \* the request each caller handles
  served  \* history: of each entry of log, who sent it and what room it took

admissionVars == <<vars, req, served>>

----------------------------------------------------------------------------
(* What a sender can make arrive: the last proxy is the peer, and every    *)
(* proxy has added the hop before it, in a spelling of its own.            *)
Upto(n, S) == UNION {[1..i -> S] : i \in 0..n}
Spelled(a) == {[addr |-> a, form |-> f] : f \in Forms}

Direct(client) == {[peer |-> e, parts |-> forged] :
                     e \in Spelled(client), forged \in Upto(MaxForged, Entry)}
Through(r, proxy) == {[peer |-> e, parts |-> Append(r.parts, [r.peer EXCEPT !.form = f])] :
                        e \in Spelled(proxy), f \in Forms}
ThroughOne(client) ==
  UNION {Through(r, proxy) : r \in Direct(client), proxy \in Trusted}
ThroughTwo(client) ==
  UNION {Through(r, proxy) : r \in ThroughOne(client), proxy \in Trusted}

(* requestIP: every address a sender's requests can be attributed to.      *)
RequestIP == [client \in Clients |->
  {ClientIP(r.peer, r.parts) : r \in Direct(client) \cup ThroughOne(client) \cup ThroughTwo(client)}]

----------------------------------------------------------------------------
CsrfExempt(path) == path \in {"login", "mfa"}

(* The gate of ServeHTTP, of a POST.  A browser made to send a request     *)
(* across sites adds the cookie, and has no way to add the token.          *)
Gate(path, r) == r.cookie => (CsrfExempt(path) \/ r.token)
CrossSite(r)  == r.cookie /\ ~r.token

(* A password change is refused without a session before it is counted.    *)
MayBeCounted(path, r) == path = "password-change" => r.cookie

(* The second key a handler charges once the first has admitted it.        *)
UserKeys(path) ==
  IF path \in {"mfa", "password-change"} THEN {<<path, u>> : u \in Users} ELSE {}

(* Whatever the handlers may charge has a key: the map takes any string.   *)
ASSUME KeysAssumption ==
  /\ \A client \in Clients, path \in Paths : \A ip \in RequestIP[client] : <<path, ip>> \in Keys
  /\ \A path \in {"mfa", "password-change"} : UserKeys(path) \subseteq Keys

NoRequest == [client |-> NoAddr, path |-> "none", own |-> TRUE, stage |-> "idle"]

AdmissionInit ==
  /\ Init
  /\ req = [c \in Callers |-> NoRequest]
  /\ served = <<>>

(* A request arrives at its handler, which reads the clock for its first   *)
(* key.  Of a request that uses the session it is noted whose idea it was. *)
Arrive(c, client, path, r) ==
  /\ req[c] = NoRequest
  /\ Gate(path, r) /\ MayBeCounted(path, r)
  /\ \E ip \in RequestIP[client] : ReadClock(c, <<path, ip>>)
  /\ req' = [req EXCEPT ![c] =
       [client |-> client, path |-> path,
        own |-> CrossSite(r) => path # "password-change",
        stage |-> "address"]]
  /\ UNCHANGED served

(* allowAttempt answers; the handler goes on to the account's key, if it   *)
(* has one, or is done with the limiter.                                   *)
Serve(c, a) ==
  /\ a.who = c /\ AllowAttempt(a)
  /\ served' = Append(served, [client |-> req[c].client, own |-> req[c].own,
                               dropped |-> DOMAIN attempts \ DOMAIN attempts'])
  /\ req' = [req EXCEPT ![c] =
       IF req[c].stage = "address" /\ log'[Len(log')].ok /\ UserKeys(req[c].path) # {}
       THEN [@ EXCEPT !.stage = "account"] ELSE NoRequest]

(* An MFA code is charged to the account of its challenge, a password to   *)
(* the account of its session.                                             *)
ChargeUser(c) ==
  /\ req[c].stage = "account"
  /\ \E k \in UserKeys(req[c].path) : ReadClock(c, k)
  /\ req' = [req EXCEPT ![c].stage = "charged"]
  /\ UNCHANGED served

(* No account: an MFA challenge that is not there, a lookup that fails.    *)
Abort(c) ==
  /\ req[c].stage = "account"
  /\ req' = [req EXCEPT ![c] = NoRequest]
  /\ UNCHANGED <<vars, served>>

AdmissionNext ==
  \/ \E c \in Callers, client \in Clients, path \in Paths, r \in [cookie: BOOLEAN, token: BOOLEAN] :
       Arrive(c, client, path, r)
  \/ \E c \in Callers : (\E a \in pending : Serve(c, a)) \/ ChargeUser(c) \/ Abort(c)
  \/ Tick /\ UNCHANGED <<req, served>>

AdmissionSpec == AdmissionInit /\ [][AdmissionNext]_admissionVars

----------------------------------------------------------------------------
(* Whom an entry of the log should be charged to: the account, or whoever  *)
(* really sent the request.                                                *)
Purpose(i) == log[i].key[1]
Spender(i) ==
  IF log[i].key[2] \in Users THEN log[i].key
  ELSE <<Purpose(i), served[i].client, served[i].own>>
Spent(i) == {j \in DOMAIN log : log[j].ok /\ Spender(j) = Spender(i)}

(* The limiter never locks anyone out, although the map evicts, callers    *)
(* are served out of order, clients share proxies and pages make browsers  *)
(* send requests across sites: a sender is refused only when it had Limit  *)
(* attempts of its own admitted within one window of the clock it read.    *)
RefusedForOwnDeeds ==
  \A i \in DOMAIN log : ~log[i].ok =>
    LET k == log[i].key IN
      Limit[k] <= Cardinality({j \in Spent(i) : j < i /\ log[j].at + Window[k] >= log[i].now})

(* A limit cannot be escaped by forged or differently spelled headers, by  *)
(* other proxies or by concurrent requests: fixed windows admit at most    *)
(* twice Limit attempts of a sender, or on an account, before two of them  *)
(* have read clocks more than a window apart, unless the full map gave the *)
(* window up.                                                              *)
BudgetHolds ==
  \A i, j \in DOMAIN log :
    LET k   == log[j].key
        run == Spent(j) \cap i..j
    IN  Cardinality(run) > 2 * Limit[k] /\ (\A m \in i..j : k \notin served[m].dropped) =>
          \E m, n \in run : m < n /\ log[n].now > log[m].now + Window[k]

=============================================================================
