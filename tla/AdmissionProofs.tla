-------------------------- MODULE AdmissionProofs ---------------------------
(***************************************************************************)
(* The limiter and the requests that use it, for any keys, limits, windows *)
(* and callers and any capacity.                                           *)
(*                                                                         *)
(* First the limiter by itself: the keys of its map are finitely many      *)
(* although Keys need not be, and makeRoom always leaves a free slot.      *)
(* Then the requests of Admission: every step of the composition is a step *)
(* of the limiter or leaves it alone, so what is proved of the limiter     *)
(* holds for the whole.                                                    *)
(***************************************************************************)
EXTENDS Admission, FiniteSetTheorems, SequenceTheorems, TLAPS

FiniteMap == IsFiniteSet(DOMAIN attempts)
Inv == TypeOK /\ FiniteMap /\ BoundedMap

(* What makeRoom leaves is part of the map and leaves room for one more.   *)
LEMMA RoomForOne ==
  ASSUME FiniteMap, BoundedMap, NEW now, NEW room \in MakeRoom(now)
  PROVE  /\ IsFiniteSet(DOMAIN room) /\ Cardinality(DOMAIN room) < AttemptsCap
         /\ DOMAIN room \subseteq DOMAIN attempts
         /\ \A k \in DOMAIN room : room[k] = attempts[k]
<1>1. IsFiniteSet(Live(now)) /\ Cardinality(Live(now)) \in Nat
  BY FS_Subset, FS_CardinalityType DEF FiniteMap, Live
<1>2. CASE Cardinality(Live(now)) >= AttemptsCap
  <2>1. PICK victim \in Live(now) : room = Keep(Live(now) \ {victim})
    BY <1>2 DEF MakeRoom
  <2>2. DOMAIN room = Live(now) \ {victim}
    BY <2>1 DEF Keep
  <2>3. IsFiniteSet(DOMAIN room) /\ Cardinality(DOMAIN room) = Cardinality(Live(now)) - 1
    BY <1>1, <2>2, FS_RemoveElement
  <2>4. Cardinality(Live(now)) <= Cardinality(DOMAIN attempts)
    BY FS_Subset DEF FiniteMap, Live
  <2>5. Cardinality(DOMAIN room) < AttemptsCap
    BY <1>1, <2>3, <2>4, LimiterAssumption, FS_CardinalityType DEF BoundedMap, FiniteMap
  <2>6. DOMAIN room \subseteq DOMAIN attempts /\ \A k \in DOMAIN room : room[k] = attempts[k]
    BY <2>1, <2>2 DEF Keep, Live
  <2> QED BY <2>3, <2>5, <2>6
<1>3. CASE ~(Cardinality(Live(now)) >= AttemptsCap)
  <2>1. room = Keep(Live(now))
    BY <1>3 DEF MakeRoom
  <2>2. DOMAIN room = Live(now)
    BY <2>1 DEF Keep
  <2> QED BY <1>1, <1>3, <2>1, <2>2, LimiterAssumption DEF Keep, Live
<1> QED BY <1>2, <1>3

(* Raising the count of a window that exists, or of the zero window,       *)
(* gives a window.                                                         *)
LEMMA BumpWindowType ==
  ASSUME NEW entry \in AttemptWindow \cup {ZeroWindow},
         NEW now \in Nat \ {0}, NEW window \in Nat \ {0}
  PROVE  BumpWindow(entry, now, window) \in AttemptWindow
  BY DEF BumpWindow, AttemptWindow, ZeroWindow, After

(* The critical section keeps the invariant: room first, then one window.   *)
LEMMA ServeInv ==
  ASSUME Inv, NEW a \in pending, AllowAttempt(a)
  PROVE  Inv'
<1> DEFINE k   == a.key
           now == a.now
           full == k \notin DOMAIN attempts /\ Cardinality(DOMAIN attempts) >= AttemptsCap
           Old(room) == IF k \in DOMAIN room THEN room[k] ELSE ZeroWindow
<1>1. k \in Keys /\ now \in 1..clock /\ clock \in Nat \ {0}
  BY DEF Inv, TypeOK
<1>2. PICK room \in (IF full THEN MakeRoom(now) ELSE {attempts}) :
        attempts' = [x \in DOMAIN room \cup {k} |->
                       IF x = k THEN BumpWindow(Old(room), now, Window[k]) ELSE room[x]]
  BY DEF AllowAttempt
<1>3. /\ IsFiniteSet(DOMAIN room) /\ DOMAIN room \subseteq DOMAIN attempts
      /\ \A x \in DOMAIN room : room[x] = attempts[x]
      /\ k \in DOMAIN room \/ Cardinality(DOMAIN room) < AttemptsCap
      /\ Cardinality(DOMAIN room) <= AttemptsCap
  <2>1. CASE full
    BY <2>1, <1>2, RoomForOne, LimiterAssumption, FS_CardinalityType DEF Inv
  <2>2. CASE ~full
    <3>1. room = attempts
      BY <2>2, <1>2
    <3> QED BY <2>2, <3>1, FS_CardinalityType, LimiterAssumption DEF Inv, FiniteMap, BoundedMap
  <2> QED BY <2>1, <2>2
<1>4. DOMAIN attempts' = DOMAIN room \cup {k}
  BY <1>2
<1>5. IsFiniteSet(DOMAIN attempts') /\ Cardinality(DOMAIN attempts') <= AttemptsCap
  <2>1. IsFiniteSet(DOMAIN room \cup {k})
    BY <1>3, FS_AddElement
  <2>2. CASE k \in DOMAIN room
    <3>1. DOMAIN room \cup {k} = DOMAIN room
      BY <2>2
    <3> QED BY <1>3, <1>4, <3>1
  <2>3. CASE k \notin DOMAIN room
    <3>1. Cardinality(DOMAIN room \cup {k}) = Cardinality(DOMAIN room) + 1
      BY <1>3, <2>3, FS_AddElement
    <3> QED BY <1>3, <1>4, <2>1, <2>3, <3>1, FS_CardinalityType, LimiterAssumption
  <2> QED BY <2>2, <2>3
<1>6. Window[k] \in Nat \ {0} /\ now \in Nat \ {0}
  BY <1>1, LimiterAssumption
<1>7. Old(room) \in AttemptWindow \cup {ZeroWindow}
  BY <1>3 DEF Inv, TypeOK
<1>8. BumpWindow(Old(room), now, Window[k]) \in AttemptWindow
  BY <1>6, <1>7, BumpWindowType
<1>9. \A x \in DOMAIN attempts' : attempts'[x] \in AttemptWindow
  <2> HIDE DEF Old, k, now, full
  <2> QED BY <1>2, <1>3, <1>8 DEF Inv, TypeOK
<1>10. pending' \subseteq pending /\ clock' = clock
  BY DEF AllowAttempt
<1>11. TypeOK'
  <2>1. DOMAIN attempts' \subseteq Keys
    BY <1>1, <1>3, <1>4 DEF Inv, TypeOK
  <2> QED BY <1>9, <1>10, <2>1 DEF Inv, TypeOK
<1> QED BY <1>5, <1>11 DEF Inv, FiniteMap, BoundedMap

(* The empty map satisfies the invariant.                                   *)
LEMMA InitInv == Init => Inv
<1> SUFFICES ASSUME Init PROVE Inv
  OBVIOUS
<1>1. DOMAIN attempts = {}
  BY DEF Init
<1>2. FiniteMap /\ BoundedMap
  BY <1>1, FS_EmptySet, LimiterAssumption DEF FiniteMap, BoundedMap
<1>3. TypeOK
  BY <1>1 DEF Init, TypeOK
<1> QED BY <1>2, <1>3 DEF Inv

(* Every step preserves the invariant.                                      *)
LEMMA StepInv == Inv /\ [Next]_vars => Inv'
<1> SUFFICES ASSUME Inv, [Next]_vars PROVE Inv'
  OBVIOUS
<1>1. ASSUME NEW c \in Callers, NEW k \in Keys, ReadClock(c, k) PROVE Inv'
  <2>1. TypeOK'
    BY <1>1 DEF ReadClock, Inv, TypeOK
  <2> QED BY <1>1, <2>1 DEF ReadClock, Inv, FiniteMap, BoundedMap
<1>2. ASSUME NEW a \in pending, AllowAttempt(a) PROVE Inv'
  BY <1>2, ServeInv
<1>3. CASE Tick
  BY <1>3 DEF Tick, Inv, TypeOK, FiniteMap, BoundedMap
<1>4. CASE UNCHANGED vars
  BY <1>4 DEF vars, Inv, TypeOK, FiniteMap, BoundedMap
<1> QED BY <1>1, <1>2, <1>3, <1>4 DEF Next

(* Types, finiteness and the bound hold together in every state.           *)
THEOREM LimiterInvariance == Spec => []Inv
<1> QED BY InitInv, StepInv, PTL DEF Spec

(* The limiter map never outgrows attemptsCap, whatever keys arrive:       *)
(* allowAttempt makes room before it stores, and makeRoom always finds a   *)
(* slot.                                                                   *)
THEOREM MapNeverOutgrowsCap == Spec => []BoundedMap
<1>1. Inv => BoundedMap
  BY DEF Inv
<1> QED BY LimiterInvariance, <1>1, PTL

(* Types of the limiter: a stored window counts an attempt, and no caller  *)
(* acts on a time that has not come.                                       *)
THEOREM LimiterTypes == Spec => []TypeOK
<1>1. Inv => TypeOK
  BY DEF Inv
<1> QED BY LimiterInvariance, <1>1, PTL

----------------------------------------------------------------------------
(* A request charges keys the limiter knows, one caller and one attempt at *)
(* a time; the gate and the choice of keys are invisible to the limiter.   *)
LEMMA StepSimulates == [AdmissionNext]_admissionVars => [Next]_vars
<1> SUFFICES ASSUME [AdmissionNext]_admissionVars PROVE [Next]_vars
  OBVIOUS
<1>1. ASSUME NEW c \in Callers, NEW client \in Clients, NEW path \in Paths,
             NEW r \in [cookie: BOOLEAN, token: BOOLEAN], Arrive(c, client, path, r)
      PROVE  Next
  <2>1. PICK ip \in RequestIP[client] : ReadClock(c, <<path, ip>>)
    BY <1>1 DEF Arrive
  <2>2. <<path, ip>> \in Keys
    BY <2>1, KeysAssumption
  <2> QED BY <2>1, <2>2 DEF Next
<1>2. ASSUME NEW c \in Callers, NEW a \in pending, Serve(c, a)
      PROVE  Next
  BY <1>2 DEF Serve, Next
<1>3. ASSUME NEW c \in Callers, ChargeUser(c)
      PROVE  Next
  <2>1. PICK k \in UserKeys(req[c].path) : ReadClock(c, k)
    BY <1>3 DEF ChargeUser
  <2>2. req[c].path \in {"mfa", "password-change"}
    BY <2>1 DEF UserKeys
  <2>3. k \in Keys
    BY <2>1, <2>2, KeysAssumption
  <2> QED BY <2>1, <2>3 DEF Next
<1>4. ASSUME NEW c \in Callers, Abort(c)
      PROVE  UNCHANGED vars
  BY <1>4 DEF Abort
<1>5. CASE Tick /\ UNCHANGED <<req, served>>
  BY <1>5 DEF Next
<1>6. CASE UNCHANGED admissionVars
  BY <1>6 DEF admissionVars
<1> QED BY <1>1, <1>2, <1>3, <1>4, <1>5, <1>6 DEF AdmissionNext

(* Requests as the handlers make them, two keys each and from any senders, *)
(* implement the limiter.                                                  *)
THEOREM AdmissionImplementsLimiter == AdmissionSpec => Spec
<1>1. AdmissionInit => Init
  BY DEF AdmissionInit
<1> QED BY <1>1, StepSimulates, PTL DEF AdmissionSpec, Spec

(* Behind the handlers of the server the map keeps its bound: no sender    *)
(* and no header can make it outgrow attemptsCap.                          *)
THEOREM MapBoundedBehindHandlers == AdmissionSpec => []BoundedMap
  BY AdmissionImplementsLimiter, MapNeverOutgrowsCap, PTL

(* Behind the handlers the limiter keeps its types.                        *)
THEOREM LimiterTypesBehindHandlers == AdmissionSpec => []TypeOK
  BY AdmissionImplementsLimiter, LimiterTypes, PTL

----------------------------------------------------------------------------
(* Who pays for what.  The inductive invariant says of the requests that a *)
(* key belongs to the sender or to an account (Charged, Attributed), of    *)
(* each window that it counts attempts which were admitted and are recent  *)
(* (Counted), and of each stretch of the log up to now how many windows it *)
(* has met (Paced).                                                        *)

LogEntry   == [key: Keys, now: Nat, at: Nat, ok: BOOLEAN]
ServedNote == [client: Clients \cup {NoAddr}, own: {TRUE}, dropped: SUBSET Keys]
Handled    == [client: Clients \cup {NoAddr}, path: Paths \cup {"none"}, own: {TRUE},
               stage: {"idle", "address", "account", "charged"}]

HistoryOK ==
  /\ log \in Seq(LogEntry) /\ served \in Seq(ServedNote) /\ Len(served) = Len(log)
  /\ req \in [Callers -> Handled]

(* A caller has one attempt under way, for the key its request is due for. *)
PaysFor(r, k) ==
  \/ r.stage = "address" /\ k = <<r.path, r.client>>
  \/ r.stage = "charged" /\ k \in UserKeys(r.path)
Charged ==
  /\ \A a, b \in pending : a.who = b.who => a = b
  /\ \A a \in pending : PaysFor(req[a.who], a.key)

(* An entry of the log is under a key of its sender or of an account.      *)
Owner(k, client) ==
  \E path, x : k = <<path, x>> /\ (x \in Users \/ x = client)
Attributed == \A i \in DOMAIN log : Owner(log[i].key, served[i].client)

Admitted(k) == {j \in DOMAIN log : log[j].ok /\ log[j].key = k}

(* A window is not of the future, and what it counts was admitted no       *)
(* earlier than a window before it ends, up to the limit.                  *)
Recent(k, reset) == {j \in Admitted(k) : log[j].at + Window[k] >= reset}
Counted ==
  \A k \in DOMAIN attempts :
    /\ attempts[k].reset <= clock + Window[k]
    /\ \/ attempts[k].count <= Cardinality(Recent(k, attempts[k].reset))
       \/ Limit[k] <= Cardinality(Recent(k, attempts[k].reset))

(* What the log admitted under a key from entry i on; the key kept its     *)
(* window all the while.  Nothing yet; or within the window there is now;  *)
(* or that window and the one before it; or two entries that are apart.    *)
Since(i, k)  == {j \in Admitted(k) : i <= j}
KeptFrom(i, k) == \A m \in DOMAIN log : i <= m => k \notin served[m].dropped
Apart(R, k)  == \E m, n \in R : m < n /\ log[n].now > log[m].now + Window[k]

OneWindow(R, k) ==
  /\ k \in DOMAIN attempts
  /\ Cardinality(R) <= attempts[k].count /\ Cardinality(R) <= Limit[k]
TwoWindows(R, k) ==
  /\ k \in DOMAIN attempts
  /\ \E m \in R : attempts[k].reset = log[m].now + Window[k]
  /\ Cardinality(R) <= Limit[k] + attempts[k].count /\ Cardinality(R) <= 2 * Limit[k]
Pace(R, k) == R = {} \/ OneWindow(R, k) \/ TwoWindows(R, k) \/ Apart(R, k)
Paced ==
  \A k \in Keys, i \in 1..Len(log) + 1 : KeptFrom(i, k) => Pace(Since(i, k), k)

(* The two properties, of keys instead of senders.                         *)
Before(i) ==
  {j \in Admitted(log[i].key) : j < i /\ log[j].at + Window[log[i].key] >= log[i].now}
RefusedByKey ==
  \A i \in DOMAIN log : ~log[i].ok => Limit[log[i].key] <= Cardinality(Before(i))

Within(i, j) == {m \in Admitted(log[j].key) : i <= m /\ m <= j}
BudgetByKey ==
  \A i, j \in DOMAIN log :
    /\ Cardinality(Within(i, j)) > 2 * Limit[log[j].key]
    /\ \A m \in DOMAIN log : i <= m /\ m <= j => log[j].key \notin served[m].dropped
    => Apart(Within(i, j), log[j].key)

AdmissionInv ==
  /\ Inv /\ HistoryOK /\ Charged /\ Attributed /\ Counted /\ Paced
  /\ RefusedByKey /\ BudgetByKey

----------------------------------------------------------------------------
(* The walk over the header stops at the last hop that is not a proxy.     *)
LEMMA WalkStops ==
  ASSUME NEW peer, NEW parts, NEW last \in DOMAIN parts, DOMAIN parts \subseteq Int,
         parts[last].addr \notin Trusted, parts[last].addr # NoAddr, peer.addr \in Trusted,
         \A j \in DOMAIN parts : j > last => parts[j].addr \in Trusted
  PROVE  ClientIP(peer, parts) = parts[last].addr
  <1> DEFINE hops == [j \in DOMAIN parts |-> ParseEntry(parts[j])]
             ends == {j \in DOMAIN parts : ~IsTrusted(hops[j])}
  <1>1. last \in ends /\ \A j \in ends : last >= j
    BY DEF ParseEntry, IsTrusted
  <1>2. Nearest(ends) = last
    <2>1. /\ Max(ends) \in ends
          /\ \A y \in ends : Max(ends) >= y
      BY <1>1 DEF Max
    <2>2. ends \subseteq Int
      OBVIOUS
    <2> HIDE DEF ends
    <2> QED
      BY <1>1, <2>1, <2>2 DEF Nearest
  <1>3. hops[Nearest(ends)] = parts[last].addr /\ IsTrusted(ParseEntry(peer)) /\ ends # {}
    BY <1>1, <1>2 DEF ParseEntry, IsTrusted
  <1> QED
    BY <1>3 DEF ClientIP

(* A header is a sequence of entries, whatever its sender made up.         *)
LEMMA HeaderIsSequence ==
  ASSUME NEW S, NEW n \in Nat, NEW parts \in Upto(n, S)
  PROVE  parts \in Seq(S)
  <1>1. PICK i \in 0..n : parts \in [1..i -> S]
    BY DEF Upto
  <1>2. i \in Nat
    BY <1>1
  <1> QED
    BY <1>1, <1>2, SeqDef

(* One proxy on the way: it is the peer, and the hop before it ends the    *)
(* header.                                                                 *)
Hop == [addr: Addrs, form: Forms]
LEMMA ProxyAppends ==
  ASSUME NEW r, r.peer \in Hop, r.parts \in Seq(Entry), NEW proxy \in Trusted,
         NEW q \in Through(r, proxy)
  PROVE  /\ q.peer \in Hop /\ q.peer.addr = proxy
         /\ q.parts \in Seq(Entry) /\ Len(q.parts) = Len(r.parts) + 1
         /\ q.parts[Len(q.parts)].addr = r.peer.addr
         /\ \A j \in 1..Len(r.parts) : q.parts[j] = r.parts[j]
  <1>1. PICK e \in Spelled(proxy), f \in Forms :
          q = [peer |-> e, parts |-> Append(r.parts, [r.peer EXCEPT !.form = f])]
    BY DEF Through
  <1>2. e \in Hop /\ e.addr = proxy
    BY ClientIPAssumption DEF Spelled, Hop
  <1> DEFINE hop == [r.peer EXCEPT !.form = f]
  <1>3. hop \in Hop /\ hop.addr = r.peer.addr
    BY DEF Hop
  <1>4. hop \in Entry
    BY <1>3 DEF Entry, Hop
  <1> HIDE DEF hop
  <1>5. q.peer = e /\ q.parts = Append(r.parts, hop)
    BY <1>1 DEF hop
  <1>6. /\ Append(r.parts, hop) \in Seq(Entry) /\ Len(Append(r.parts, hop)) = Len(r.parts) + 1
        /\ Append(r.parts, hop)[Len(r.parts) + 1] = hop
        /\ \A j \in 1..Len(r.parts) : Append(r.parts, hop)[j] = r.parts[j]
    BY <1>4, AppendProperties
  <1> QED
    BY <1>2, <1>3, <1>5, <1>6

(* Proxies append the hop before them, so that the sender's own address is *)
(* the last entry that is no proxy's: requestIP attributes every request   *)
(* to its sender, whatever the sender wrote and however it came.           *)
LEMMA RequestIPIsSender ==
  ASSUME NEW client \in Clients, NEW ip \in RequestIP[client]
  PROVE  ip = client
  <1>0. client \in Addrs /\ client \notin Trusted /\ client # NoAddr
    BY AdmissionAssumption, ClientIPAssumption
  <1>1. ASSUME NEW r \in Direct(client)
        PROVE  r.peer \in Hop /\ r.peer.addr = client /\ r.parts \in Seq(Entry)
    <2>1. PICK e \in Spelled(client), forged \in Upto(MaxForged, Entry) :
            r = [peer |-> e, parts |-> forged]
      BY <1>1 DEF Direct
    <2>2. forged \in Seq(Entry)
      BY AdmissionAssumption, HeaderIsSequence
    <2>3. e \in Hop /\ e.addr = client
      BY <1>0 DEF Spelled, Hop
    <2> QED
      BY <2>1, <2>2, <2>3
  <1>2. ASSUME NEW r \in ThroughOne(client)
        PROVE  /\ r.peer \in Hop /\ r.peer.addr \in Trusted /\ r.parts \in Seq(Entry)
               /\ Len(r.parts) >= 1 /\ r.parts[Len(r.parts)].addr = client
    <2>1. PICK d \in Direct(client), proxy \in Trusted : r \in Through(d, proxy)
      BY <1>2 DEF ThroughOne
    <2> QED
      BY <1>1, <2>1, ProxyAppends, LenProperties
  <1>3. ASSUME NEW r \in ThroughTwo(client)
        PROVE  /\ r.peer.addr \in Trusted /\ r.parts \in Seq(Entry)
               /\ Len(r.parts) >= 2 /\ r.parts[Len(r.parts)].addr \in Trusted
               /\ r.parts[Len(r.parts) - 1].addr = client
    <2>1. PICK d \in ThroughOne(client), proxy \in Trusted : r \in Through(d, proxy)
      BY <1>3 DEF ThroughTwo
    <2>2. /\ d.peer \in Hop /\ d.peer.addr \in Trusted /\ d.parts \in Seq(Entry)
          /\ Len(d.parts) >= 1 /\ d.parts[Len(d.parts)].addr = client /\ Len(d.parts) \in Nat
      BY <1>2, LenProperties
    <2>3. /\ r.peer.addr = proxy /\ r.parts \in Seq(Entry) /\ Len(r.parts) = Len(d.parts) + 1
          /\ r.parts[Len(r.parts)].addr = d.peer.addr
          /\ \A j \in 1..Len(d.parts) : r.parts[j] = d.parts[j]
      BY <2>1, <2>2, ProxyAppends
    <2>4. Len(r.parts) - 1 = Len(d.parts) /\ Len(d.parts) \in 1..Len(d.parts)
      BY <2>2, <2>3
    <2> QED
      BY <2>2, <2>3, <2>4
  <1>4. PICK r \in Direct(client) \cup ThroughOne(client) \cup ThroughTwo(client) :
          ip = ClientIP(r.peer, r.parts)
    BY DEF RequestIP
  <1>5. CASE r \in Direct(client)
    BY <1>0, <1>1, <1>4, <1>5 DEF ClientIP, IsTrusted, ParseEntry
  <1>6. CASE r \in ThroughOne(client)
    <2> DEFINE last == Len(r.parts)
    <2>1. DOMAIN r.parts = 1..last /\ last \in Nat /\ last \in DOMAIN r.parts
      BY <1>2, <1>6, LenProperties
    <2>2. r.parts[last].addr = client /\ r.peer.addr \in Trusted
      BY <1>2, <1>6
    <2>3. \A j \in DOMAIN r.parts : ~(j > last)
      BY <2>1
    <2> HIDE DEF last
    <2> QED
      BY <1>0, <1>4, <2>1, <2>2, <2>3, WalkStops
  <1>7. CASE r \in ThroughTwo(client)
    <2> DEFINE last == Len(r.parts) - 1
    <2>1. DOMAIN r.parts = 1..last + 1 /\ last \in Nat /\ last \in DOMAIN r.parts
      BY <1>3, <1>7, LenProperties
    <2>2. r.parts[last].addr = client /\ r.parts[last + 1].addr \in Trusted /\ r.peer.addr \in Trusted
      BY <1>3, <1>7, LenProperties
    <2>3. \A j \in DOMAIN r.parts : j > last => j = last + 1
      BY <2>1
    <2> HIDE DEF last
    <2> QED
      BY <1>0, <1>4, <2>1, <2>2, <2>3, WalkStops
  <1> QED
    BY <1>4, <1>5, <1>6, <1>7

----------------------------------------------------------------------------
(* An attempt opens a window of its key or is counted in the one there is. *)
OpensWindow(a) ==
  /\ a.key \in DOMAIN attempts => a.now > attempts[a.key].reset
  /\ attempts'[a.key].count = 1 /\ attempts'[a.key].reset = a.now + Window[a.key]
JoinsWindow(a) ==
  /\ a.key \in DOMAIN attempts /\ a.now <= attempts[a.key].reset
  /\ attempts'[a.key].count = attempts[a.key].count + 1
  /\ attempts'[a.key].reset = attempts[a.key].reset

(* The critical section touches one window; others stay or are dropped.    *)
LEMMA WindowMoves ==
  ASSUME Inv, NEW a \in pending, AllowAttempt(a)
  PROVE  /\ a.key \in DOMAIN attempts' /\ DOMAIN attempts' \subseteq DOMAIN attempts \cup {a.key}
         /\ \A x \in DOMAIN attempts' : x # a.key => attempts'[x] = attempts[x]
         /\ OpensWindow(a) \/ JoinsWindow(a)
         /\ log' = Append(log, [key |-> a.key, now |-> a.now, at |-> clock,
                                ok |-> attempts'[a.key].count <= Limit[a.key]])
  <1> DEFINE k == a.key
             full == k \notin DOMAIN attempts /\ Cardinality(DOMAIN attempts) >= AttemptsCap
             Old(room) == IF k \in DOMAIN room THEN room[k] ELSE ZeroWindow
             Entry1(room) == BumpWindow(Old(room), a.now, Window[k])
  <1>1. PICK room \in (IF full THEN MakeRoom(a.now) ELSE {attempts}) :
          /\ attempts' = [x \in DOMAIN room \cup {k} |->
                            IF x = k THEN Entry1(room) ELSE room[x]]
          /\ log' = Append(log, [key |-> k, now |-> a.now, at |-> clock,
                                 ok |-> Admits(Entry1(room), k)])
    BY DEF AllowAttempt
  <1>2. /\ DOMAIN room \subseteq DOMAIN attempts /\ \A x \in DOMAIN room : room[x] = attempts[x]
        /\ k \in DOMAIN attempts => k \in DOMAIN room
    <2>1. CASE full
      BY <2>1, <1>1, RoomForOne DEF Inv
    <2>2. CASE ~full
      BY <2>2, <1>1
    <2> QED
      BY <2>1, <2>2
  <1>3. /\ k \in DOMAIN attempts' /\ DOMAIN attempts' \subseteq DOMAIN attempts \cup {k}
        /\ \A x \in DOMAIN attempts' : x # k => attempts'[x] = attempts[x]
        /\ attempts'[k] = Entry1(room)
    <2> HIDE DEF Old, Entry1, full, k
    <2> QED
      BY <1>1, <1>2
  <1>4. a.now \in Nat \ {0} /\ k \in Keys /\ Window[k] \in Nat
    BY LimiterAssumption DEF Inv, TypeOK
  <1>5. OpensWindow(a) \/ JoinsWindow(a)
    <2>1. CASE k \in DOMAIN attempts
      <3>1. Old(room) = attempts[k] /\ attempts[k] \in AttemptWindow
        BY <1>2, <2>1 DEF Inv, TypeOK
      <3>2. CASE a.now > attempts[k].reset
        BY <1>3, <1>4, <2>1, <3>1, <3>2 DEF OpensWindow, BumpWindow, After, AttemptWindow
      <3>3. CASE ~(a.now > attempts[k].reset)
        BY <1>3, <1>4, <2>1, <3>1, <3>3 DEF JoinsWindow, BumpWindow, After, AttemptWindow
      <3> QED
        BY <3>2, <3>3
    <2>2. CASE k \notin DOMAIN attempts
      <3>1. Old(room) = ZeroWindow
        BY <1>2, <2>2
      <3> QED
        BY <1>3, <1>4, <2>2, <3>1 DEF OpensWindow, BumpWindow, After, ZeroWindow
    <2> QED
      BY <2>1, <2>2
  <1>6. log' = Append(log, [key |-> k, now |-> a.now, at |-> clock,
                            ok |-> attempts'[k].count <= Limit[k]])
    BY <1>1, <1>3 DEF Admits
  <1> QED
    BY <1>3, <1>5, <1>6

(* What one answer of the limiter adds to the histories.                   *)
Logs(c, a) ==
  LET L == Len(log) IN
  /\ L \in Nat /\ DOMAIN log = 1..L /\ Len(log') = L + 1 /\ DOMAIN log' = 1..L + 1
  /\ \A i \in 1..L : log'[i] = log[i] /\ served'[i] = served[i]
  /\ log'[L + 1].key = a.key /\ log'[L + 1].now = a.now /\ log'[L + 1].at = clock
  /\ log'[L + 1].ok <=> attempts'[a.key].count <= Limit[a.key]
  /\ served'[L + 1].client = req[c].client
  /\ served'[L + 1].dropped = DOMAIN attempts \ DOMAIN attempts'

(* The histories keep their types.                                         *)
LEMMA HistoryMoves ==
  ASSUME Inv, HistoryOK, NEW c \in Callers, NEW a \in pending, Serve(c, a)
  PROVE  Logs(c, a) /\ HistoryOK'
  <1> DEFINE e == [key |-> a.key, now |-> a.now, at |-> clock,
                   ok |-> attempts'[a.key].count <= Limit[a.key]]
             note == [client |-> req[c].client, own |-> req[c].own,
                      dropped |-> DOMAIN attempts \ DOMAIN attempts']
  <1>1. log' = Append(log, e) /\ served' = Append(served, note)
    BY WindowMoves DEF Serve
  <1>2. e \in LogEntry
    <2>1. a.key \in Keys /\ a.now \in Nat /\ clock \in Nat
      BY DEF Inv, TypeOK
    <2>2. (attempts'[a.key].count <= Limit[a.key]) \in BOOLEAN
      OBVIOUS
    <2> QED
      BY <2>1, <2>2, Zenon DEF LogEntry
  <1>3. note \in ServedNote
    <2>1. req[c] \in Handled /\ DOMAIN attempts \subseteq Keys
      BY DEF HistoryOK, Inv, TypeOK
    <2> QED
      BY <2>1 DEF ServedNote, Handled
  <1>4. /\ log' \in Seq(LogEntry) /\ Len(log') = Len(log) + 1 /\ log'[Len(log) + 1] = e
        /\ \A i \in 1..Len(log) : log'[i] = log[i]
        /\ Len(log) \in Nat /\ DOMAIN log = 1..Len(log) /\ DOMAIN log' = 1..Len(log')
    <2> HIDE DEF e
    <2> QED
      BY <1>1, <1>2, AppendProperties, LenProperties DEF HistoryOK
  <1>5. /\ served' \in Seq(ServedNote) /\ Len(served') = Len(log) + 1 /\ served'[Len(log) + 1] = note
        /\ \A i \in 1..Len(log) : served'[i] = served[i]
    <2> HIDE DEF note
    <2> QED
      BY <1>1, <1>3, AppendProperties, LenProperties DEF HistoryOK
  <1>6. req' \in [Callers -> Handled]
    <2>1. req[c] \in Handled /\ req \in [Callers -> Handled]
      BY DEF HistoryOK
    <2>2. NoRequest \in Handled /\ [req[c] EXCEPT !.stage = "account"] \in Handled
      BY <2>1 DEF NoRequest, Handled
    <2>3. \E r \in Handled : req' = [req EXCEPT ![c] = r]
      BY <2>2 DEF Serve
    <2> QED
      BY <2>1, <2>3
  <1>7. Logs(c, a)
    <2>1. /\ e.key = a.key /\ e.now = a.now /\ e.at = clock
          /\ e.ok <=> attempts'[a.key].count <= Limit[a.key]
      OBVIOUS
    <2>2. note.client = req[c].client /\ note.dropped = DOMAIN attempts \ DOMAIN attempts'
      OBVIOUS
    <2> HIDE DEF e, note
    <2> QED
      BY <1>4, <1>5, <2>1, <2>2 DEF Logs
  <1> QED
    BY <1>4, <1>5, <1>6, <1>7 DEF HistoryOK

AdmittedNext(x) == {j \in DOMAIN log' : log'[j].ok /\ log'[j].key = x}

(* Admitted entries are among finitely many, and one answer adds at most   *)
(* one, under its own key.                                                 *)
LEMMA AdmittedMoves ==
  ASSUME NEW c \in Callers, NEW a \in pending, Logs(c, a)
  PROVE  /\ \A x : x # a.key => AdmittedNext(x) = Admitted(x)
         /\ log'[Len(log) + 1].ok => AdmittedNext(a.key) = Admitted(a.key) \cup {Len(log) + 1}
         /\ ~log'[Len(log) + 1].ok => AdmittedNext(a.key) = Admitted(a.key)
         /\ \A x : Admitted(x) \subseteq 1..Len(log)
  BY DEF Logs, Admitted, AdmittedNext

(* The key an attempt is charged to is its sender's or an account's, and   *)
(* stays so while the request waits for the mutex.                         *)
LEMMA ChargeMoves ==
  ASSUME Inv, HistoryOK, Charged, Attributed, [AdmissionNext]_admissionVars
  PROVE  HistoryOK' /\ Charged' /\ Attributed'
  <1>0. req \in [Callers -> Handled] /\ pending \subseteq [who: Callers, key: Keys, now: 1..clock]
    BY DEF HistoryOK, Inv, TypeOK
  <1>1. ASSUME NEW c \in Callers, NEW client \in Clients, NEW path \in Paths,
               NEW r \in [cookie: BOOLEAN, token: BOOLEAN], Arrive(c, client, path, r)
        PROVE  HistoryOK' /\ Charged' /\ Attributed'
    <2> DEFINE own == CrossSite(r) => path # "password-change"
               new == [client |-> client, path |-> path, own |-> own, stage |-> "address"]
    <2>1. own = TRUE
      BY <1>1 DEF Arrive, Gate, CrossSite, CsrfExempt
    <2>2. new = [client |-> client, path |-> path, own |-> TRUE, stage |-> "address"]
      BY <2>1
    <2>3. new \in Handled /\ new.stage = "address" /\ new.path = path /\ new.client = client
      BY <2>2 DEF Handled
    <2>4. req' = [req EXCEPT ![c] = new] /\ UNCHANGED <<served, log>>
      BY <1>1 DEF Arrive, ReadClock
    <2>5. PICK ip \in RequestIP[client] : ReadClock(c, <<path, ip>>)
      BY <1>1 DEF Arrive
    <2>6. ip = client
      BY RequestIPIsSender
    <2> HIDE DEF new
    <2>7. /\ req' \in [Callers -> Handled] /\ req'[c] = new
          /\ \A d \in Callers : d # c => req'[d] = req[d]
      BY <1>0, <2>3, <2>4
    <2>8. HistoryOK' /\ Attributed'
      BY <2>4, <2>7 DEF HistoryOK, Attributed
    <2>9. Charged'
      <3>1. /\ pending' = pending \cup {[who |-> c, key |-> <<path, client>>, now |-> clock]}
            /\ \A b \in pending : b.who # c
        BY <2>5, <2>6 DEF ReadClock
      <3>2. \A a \in pending' : PaysFor(req'[a.who], a.key)
        BY <1>0, <2>3, <2>7, <3>1 DEF Charged, PaysFor
      <3>3. \A a, b \in pending' : a.who = b.who => a = b
        BY <3>1 DEF Charged
      <3> QED
        BY <3>2, <3>3 DEF Charged, PaysFor
    <2> QED
      BY <2>8, <2>9
  <1>2. ASSUME NEW c \in Callers, NEW a \in pending, Serve(c, a)
        PROVE  HistoryOK' /\ Charged' /\ Attributed'
    <2>1. Logs(c, a) /\ HistoryOK'
      BY <1>2, HistoryMoves
    <2>2. a.who = c /\ pending' = pending \ {a} /\ PaysFor(req[c], a.key)
      BY <1>2 DEF Serve, AllowAttempt, Charged
    <2>3. Owner(a.key, req[c].client)
      BY <2>2 DEF PaysFor, Owner, UserKeys
    <2>4. Attributed'
      <3> SUFFICES ASSUME NEW i \in DOMAIN log' PROVE Owner(log'[i].key, served'[i].client)
        BY DEF Attributed, Owner
      <3>1. CASE i \in 1..Len(log)
        BY <2>1, <3>1 DEF Attributed, Logs
      <3>2. CASE i = Len(log) + 1
        BY <2>1, <2>3, <3>2 DEF Logs
      <3> QED
        BY <2>1, <3>1, <3>2 DEF Logs
    <2>5. \A b \in pending' : b \in pending /\ b.who # c
      BY <2>2 DEF Charged
    <2>6. \A d \in Callers : d # c => req'[d] = req[d]
      BY <1>0, <1>2 DEF Serve
    <2>7. Charged'
      <3>1. \A b \in pending' : req'[b.who] = req[b.who]
        BY <1>0, <2>5, <2>6
      <3>2. \A b \in pending' : PaysFor(req'[b.who], b.key)
        BY <2>5, <3>1 DEF Charged
      <3>3. \A x, y \in pending' : x.who = y.who => x = y
        BY <2>5 DEF Charged
      <3> QED
        BY <3>2, <3>3 DEF Charged, PaysFor
    <2> QED
      BY <2>1, <2>4, <2>7
  <1>3. ASSUME NEW c \in Callers, ChargeUser(c)
        PROVE  HistoryOK' /\ Charged' /\ Attributed'
    <2> DEFINE new == [req[c] EXCEPT !.stage = "charged"]
    <2>1. new \in Handled /\ new.stage = "charged" /\ new.path = req[c].path
      BY <1>0 DEF Handled
    <2>2. req' = [req EXCEPT ![c] = new] /\ UNCHANGED <<served, log>>
      BY <1>0, <1>3 DEF ChargeUser, ReadClock
    <2>3. PICK k \in UserKeys(req[c].path) : ReadClock(c, k)
      BY <1>3 DEF ChargeUser
    <2> HIDE DEF new
    <2>4. /\ req' \in [Callers -> Handled] /\ req'[c] = new
          /\ \A d \in Callers : d # c => req'[d] = req[d]
      BY <1>0, <2>1, <2>2
    <2>5. HistoryOK' /\ Attributed'
      BY <2>2, <2>4 DEF HistoryOK, Attributed
    <2>6. Charged'
      <3>1. /\ pending' = pending \cup {[who |-> c, key |-> k, now |-> clock]}
            /\ \A b \in pending : b.who # c
        BY <2>3 DEF ReadClock
      <3>2. \A a \in pending' : PaysFor(req'[a.who], a.key)
        BY <1>0, <2>1, <2>3, <2>4, <3>1 DEF Charged, PaysFor
      <3>3. \A a, b \in pending' : a.who = b.who => a = b
        BY <3>1 DEF Charged
      <3> QED
        BY <3>2, <3>3 DEF Charged, PaysFor
    <2> QED
      BY <2>5, <2>6
  <1>4. ASSUME NEW c \in Callers, Abort(c)
        PROVE  HistoryOK' /\ Charged' /\ Attributed'
    <2>1. NoRequest \in Handled
      BY DEF NoRequest, Handled
    <2>2. /\ req' = [req EXCEPT ![c] = NoRequest] /\ req[c].stage = "account"
          /\ UNCHANGED <<served, log, pending>>
      BY <1>4 DEF Abort, vars
    <2>3. HistoryOK' /\ Attributed'
      BY <1>0, <2>1, <2>2 DEF HistoryOK, Attributed
    <2>4. \A b \in pending : b.who # c
      BY <2>2 DEF Charged, PaysFor
    <2>5. Charged'
      BY <1>0, <2>2, <2>4 DEF Charged, PaysFor
    <2> QED
      BY <2>3, <2>5
  <1>5. CASE UNCHANGED <<req, served, pending, log>>
    BY <1>5 DEF HistoryOK, Charged, PaysFor, Attributed
  <1> QED
    BY <1>1, <1>2, <1>3, <1>4, <1>5 DEF AdmissionNext, Tick, admissionVars, vars

(* Two entries of the log have the same sender to blame exactly when they  *)
(* are under the same key.                                                 *)
LEMMA SpenderIsKey ==
  ASSUME HistoryOK, Attributed, NEW i \in DOMAIN log
  PROVE  Spent(i) = Admitted(log[i].key)
  <1>1. \A m \in DOMAIN log : served[m].own = TRUE
    <2>1. \A m \in DOMAIN log : served[m] \in ServedNote
      BY LenProperties DEF HistoryOK
    <2> QED
      BY <2>1, Zenon DEF ServedNote
  <1>2. ASSUME NEW m \in DOMAIN log
        PROVE  /\ log[m].key = <<log[m].key[1], log[m].key[2]>>
               /\ log[m].key[2] \in Users \/ log[m].key[2] = served[m].client
    BY <1>2 DEF Attributed, Owner
  <1>3. ASSUME NEW m \in DOMAIN log
        PROVE  Spender(m) = Spender(i) <=> log[m].key = log[i].key
    <2>1. CASE log[m].key[2] \in Users /\ log[i].key[2] \in Users
      BY <2>1 DEF Spender
    <2>2. CASE log[m].key[2] \notin Users /\ log[i].key[2] \notin Users
      <3>1. /\ Spender(m) = <<log[m].key[1], log[m].key[2], TRUE>>
            /\ Spender(i) = <<log[i].key[1], log[i].key[2], TRUE>>
        BY <1>1, <1>2, <2>2 DEF Spender, Purpose
      <3> QED
        BY <1>2, <3>1
    <2>3. CASE log[m].key[2] \in Users /\ log[i].key[2] \notin Users
      <3>1. /\ Spender(m) = <<log[m].key[1], log[m].key[2]>>
            /\ Spender(i) = <<log[i].key[1], log[i].key[2], TRUE>>
        BY <1>1, <1>2, <2>3 DEF Spender, Purpose
      <3> QED
        BY <2>3, <3>1
    <2>4. CASE log[m].key[2] \notin Users /\ log[i].key[2] \in Users
      <3>1. /\ Spender(i) = <<log[i].key[1], log[i].key[2]>>
            /\ Spender(m) = <<log[m].key[1], log[m].key[2], TRUE>>
        BY <1>1, <1>2, <2>4 DEF Spender, Purpose
      <3> QED
        BY <2>4, <3>1
    <2> QED
      BY <2>1, <2>2, <2>3, <2>4
  <1> QED
    BY <1>3 DEF Spent, Admitted

----------------------------------------------------------------------------
RecentNext(x, r) == {j \in AdmittedNext(x) : log'[j].at + Window[x] >= r}

(* The entries recent for a window, after one answer of the limiter.       *)
LEMMA RecentMoves ==
  ASSUME HistoryOK, NEW c \in Callers, NEW a \in pending, Logs(c, a), NEW x, NEW r
  PROVE  LET n == Len(log) + 1 IN
         /\ IsFiniteSet(Recent(x, r)) /\ Cardinality(Recent(x, r)) \in Nat
         /\ x # a.key \/ ~log'[n].ok => RecentNext(x, r) = Recent(x, r)
         /\ x = a.key /\ log'[n].ok /\ clock + Window[x] >= r =>
              Cardinality(RecentNext(x, r)) = Cardinality(Recent(x, r)) + 1
  <1> DEFINE n == Len(log) + 1
  <1>1. Len(log) \in Nat /\ Recent(x, r) \subseteq 1..Len(log)
    BY AdmittedMoves DEF Logs, Recent
  <1>2. IsFiniteSet(Recent(x, r)) /\ Cardinality(Recent(x, r)) \in Nat
    <2>1. IsFiniteSet(1..Len(log))
      BY <1>1, FS_Interval
    <2> QED
      BY <1>1, <2>1, FS_Subset, FS_CardinalityType
  <1>3. \A j \in 1..Len(log) : log'[j] = log[j]
    BY DEF Logs
  <1>4. ASSUME x # a.key \/ ~log'[n].ok PROVE RecentNext(x, r) = Recent(x, r)
    <2>1. AdmittedNext(x) = Admitted(x) /\ Admitted(x) \subseteq 1..Len(log)
      BY <1>4, AdmittedMoves
    <2> QED
      BY <1>3, <2>1 DEF Recent, RecentNext
  <1>5. ASSUME x = a.key, log'[n].ok, clock + Window[x] >= r
        PROVE  Cardinality(RecentNext(x, r)) = Cardinality(Recent(x, r)) + 1
    <2>1. AdmittedNext(x) = Admitted(x) \cup {n} /\ Admitted(x) \subseteq 1..Len(log)
      BY <1>5, AdmittedMoves
    <2>2. log'[n].at = clock
      BY DEF Logs
    <2>3. RecentNext(x, r) = Recent(x, r) \cup {n}
      BY <1>3, <1>5, <2>1, <2>2 DEF Recent, RecentNext
    <2>4. n \notin Recent(x, r)
      BY <1>1
    <2> QED
      BY <1>2, <2>3, <2>4, FS_AddElement
  <1> QED
    BY <1>2, <1>4, <1>5

(* A window counts what was admitted and is recent.                        *)
LEMMA CountedMoves ==
  ASSUME Inv, HistoryOK, Counted, NEW c \in Callers, NEW a \in pending, Serve(c, a)
  PROVE  Counted'
  <1> DEFINE k == a.key
             n == Len(log) + 1
             New(x) == RecentNext(x, attempts'[x].reset)
  <1>1. /\ k \in DOMAIN attempts' /\ DOMAIN attempts' \subseteq DOMAIN attempts \cup {k}
        /\ \A x \in DOMAIN attempts' : x # k => attempts'[x] = attempts[x]
        /\ OpensWindow(a) \/ JoinsWindow(a)
    BY WindowMoves DEF Serve
  <1>2. Logs(c, a) /\ clock' = clock
    BY HistoryMoves DEF Serve, AllowAttempt
  <1>3. /\ clock \in Nat /\ k \in Keys /\ a.now \in Nat /\ a.now <= clock
        /\ Limit[k] \in Nat \ {0} /\ Window[k] \in Nat
        /\ \A x \in DOMAIN attempts : attempts[x].count \in Nat /\ attempts[x].reset \in Nat
    BY LimiterAssumption DEF Inv, TypeOK, AttemptWindow
  <1> SUFFICES ASSUME NEW x \in DOMAIN attempts'
               PROVE  /\ attempts'[x].reset <= clock + Window[x]
                      /\ \/ attempts'[x].count <= Cardinality(New(x))
                         \/ Limit[x] <= Cardinality(New(x))
    BY <1>2 DEF Counted, Recent, RecentNext, Admitted, AdmittedNext
  <1>4. CASE x # k
    <2>1. x \in DOMAIN attempts /\ attempts'[x] = attempts[x]
      BY <1>1, <1>4
    <2>2. New(x) = Recent(x, attempts[x].reset)
      BY <1>2, <1>4, <2>1, RecentMoves
    <2> HIDE DEF New
    <2> QED
      BY <2>1, <2>2 DEF Counted
  <1>5. CASE x = k /\ OpensWindow(a)
    <2>1. attempts'[k].count = 1 /\ attempts'[k].reset = a.now + Window[k] /\ log'[n].ok
      BY <1>2, <1>3, <1>5 DEF OpensWindow, Logs
    <2>2. clock + Window[k] >= attempts'[k].reset
      BY <1>3, <2>1
    <2>3. /\ Cardinality(New(k)) = Cardinality(Recent(k, attempts'[k].reset)) + 1
          /\ Cardinality(Recent(k, attempts'[k].reset)) \in Nat
      BY <1>2, <2>1, <2>2, RecentMoves
    <2> QED
      BY <1>3, <1>5, <2>1, <2>2, <2>3
  <1>6. CASE x = k /\ JoinsWindow(a)
    <2> DEFINE R == Recent(k, attempts[k].reset)
    <2>1. /\ k \in DOMAIN attempts /\ attempts'[k].count = attempts[k].count + 1
          /\ attempts'[k].reset = attempts[k].reset
          /\ log'[n].ok <=> attempts[k].count + 1 <= Limit[k]
      BY <1>2, <1>6 DEF JoinsWindow, Logs
    <2>2. /\ attempts[k].reset <= clock + Window[k]
          /\ attempts[k].count <= Cardinality(R) \/ Limit[k] <= Cardinality(R)
      BY <2>1 DEF Counted
    <2>3. clock + Window[k] >= attempts[k].reset /\ attempts[k].count \in Nat
      BY <1>3, <2>1, <2>2
    <2>4. Cardinality(R) \in Nat /\ (~log'[n].ok => New(k) = R)
      BY <1>2, <2>1, RecentMoves
    <2>5. log'[n].ok => Cardinality(New(k)) = Cardinality(R) + 1
      BY <1>2, <2>1, <2>3, RecentMoves
    <2> HIDE DEF R, New
    <2> QED
      BY <1>3, <1>6, <2>1, <2>2, <2>3, <2>4, <2>5
  <1> QED
    BY <1>1, <1>4, <1>5, <1>6

(* A refusal: the window is full, and all it counts came before.           *)
LEMMA RefusedMoves ==
  ASSUME Inv, HistoryOK, Counted, RefusedByKey, NEW c \in Callers, NEW a \in pending, Serve(c, a)
  PROVE  RefusedByKey'
  <1> DEFINE k == a.key
             n == Len(log) + 1
             New(i) == {j \in AdmittedNext(log'[i].key) :
                          j < i /\ log'[j].at + Window[log'[i].key] >= log'[i].now}
  <1>1. Logs(c, a)
    BY HistoryMoves
  <1>2. Len(log) \in Nat /\ DOMAIN log = 1..Len(log) /\ DOMAIN log' = 1..n
    BY <1>1 DEF Logs
  <1> SUFFICES ASSUME NEW i \in DOMAIN log', ~log'[i].ok
               PROVE  Limit[log'[i].key] <= Cardinality(New(i))
    BY DEF RefusedByKey, Before, Admitted, AdmittedNext
  <1>3. CASE i \in 1..Len(log)
    <2>1. log'[i] = log[i] /\ \A j \in 1..Len(log) : log'[j] = log[j]
      BY <1>1, <1>3 DEF Logs
    <2>2. \A j : j \in AdmittedNext(log[i].key) /\ j < i <=> j \in Admitted(log[i].key) /\ j < i
      <3>1. ~(n < i)
        BY <1>2, <1>3
      <3> QED
        BY <1>1, <3>1, AdmittedMoves
    <2>3. Admitted(log[i].key) \subseteq 1..Len(log)
      BY <1>1, AdmittedMoves
    <2>4. New(i) = Before(i)
      BY <2>1, <2>2, <2>3 DEF Before
    <2> QED
      BY <1>2, <1>3, <2>1, <2>4 DEF RefusedByKey
  <1>4. CASE i = n
    <2>1. log'[i].key = k /\ log'[i].now = a.now /\ ~(attempts'[k].count <= Limit[k])
      BY <1>1, <1>4 DEF Logs
    <2>2. /\ k \in Keys /\ a.now \in Nat /\ Limit[k] \in Nat \ {0} /\ Window[k] \in Nat
          /\ \A x \in DOMAIN attempts : attempts[x].count \in Nat /\ attempts[x].reset \in Nat
      BY LimiterAssumption DEF Inv, TypeOK, AttemptWindow
    <2>3. /\ k \in DOMAIN attempts /\ a.now <= attempts[k].reset
          /\ attempts'[k].count = attempts[k].count + 1
      <3>1. OpensWindow(a) \/ JoinsWindow(a)
        BY WindowMoves DEF Serve
      <3>2. ~OpensWindow(a)
        BY <2>1, <2>2 DEF OpensWindow
      <3> QED
        BY <3>1, <3>2 DEF JoinsWindow
    <2> DEFINE R == Recent(k, attempts[k].reset)
    <2>4. Cardinality(R) \in Nat /\ R \subseteq 1..Len(log)
      BY <1>1, RecentMoves, AdmittedMoves DEF Recent
    <2>5. Limit[k] <= Cardinality(R)
      <3>1. attempts[k].count <= Cardinality(R) \/ Limit[k] <= Cardinality(R)
        BY <2>3 DEF Counted
      <3> HIDE DEF R
      <3> QED
        BY <2>1, <2>2, <2>3, <2>4, <3>1
    <2>6. R \subseteq New(i)
      <3> SUFFICES ASSUME NEW j \in R PROVE j \in New(i)
        OBVIOUS
      <3>1. j \in 1..Len(log) /\ log'[j] = log[j] /\ j < i
        BY <1>1, <1>2, <1>4, <2>4 DEF Logs
      <3>2. j \in AdmittedNext(k)
        BY <1>1, AdmittedMoves DEF Recent
      <3>3. log[j].at \in Nat
        <4>1. log[j] \in LogEntry
          BY <1>2, <3>1 DEF HistoryOK
        <4> QED
          BY <4>1 DEF LogEntry
      <3>4. log[j].at + Window[k] >= a.now
        BY <2>2, <2>3, <3>3 DEF Recent
      <3> QED
        BY <2>1, <3>1, <3>2, <3>4
    <2>7. IsFiniteSet(New(i))
      <3>1. New(i) \subseteq 1..n
        BY <1>2 DEF AdmittedNext
      <3>2. IsFiniteSet(1..n)
        BY <1>2, FS_Interval
      <3> QED
        BY <3>1, <3>2, FS_Subset
    <2>8. Cardinality(R) <= Cardinality(New(i)) /\ Cardinality(New(i)) \in Nat
      BY <2>6, <2>7, FS_Subset, FS_CardinalityType
    <2> HIDE DEF R, New
    <2> QED
      BY <2>1, <2>2, <2>4, <2>5, <2>8
  <1> QED
    BY <1>2, <1>3, <1>4

----------------------------------------------------------------------------
(* The entries admitted since entry i, after one answer of the limiter.    *)
LEMMA SinceMoves ==
  ASSUME NEW c \in Callers, NEW a \in pending, Logs(c, a), NEW x, NEW i \in 1..Len(log) + 1,
         NEW R, R = Since(i, x), NEW S, S = Since(i, x)'
  PROVE  LET n == Len(log) + 1 IN
         /\ IsFiniteSet(R) /\ Cardinality(R) \in Nat
         /\ R \subseteq S /\ R \subseteq 1..Len(log) /\ \A j \in R : log'[j] = log[j]
         /\ x # a.key \/ ~log'[n].ok => S = R
         /\ x = a.key /\ log'[n].ok =>
              n \in S /\ S = R \cup {n} /\ Cardinality(S) = Cardinality(R) + 1
  <1> DEFINE n == Len(log) + 1
  <1>1. S = {j \in AdmittedNext(x) : i <= j}
    BY DEF Since, Admitted, AdmittedNext
  <1>2. /\ x # a.key => AdmittedNext(x) = Admitted(x)
        /\ x = a.key /\ log'[n].ok => AdmittedNext(x) = Admitted(x) \cup {n}
        /\ x = a.key /\ ~log'[n].ok => AdmittedNext(x) = Admitted(x)
        /\ Admitted(x) \subseteq 1..Len(log)
    BY AdmittedMoves
  <1>3. Len(log) \in Nat /\ R \subseteq 1..Len(log) /\ \A j \in R : log'[j] = log[j]
    BY <1>2 DEF Since, Logs
  <1>4. IsFiniteSet(R) /\ Cardinality(R) \in Nat
    <2>1. IsFiniteSet(1..Len(log))
      BY <1>3, FS_Interval
    <2> QED
      BY <1>3, <2>1, FS_Subset, FS_CardinalityType
  <1>5. x # a.key \/ ~log'[n].ok => S = R
    BY <1>1, <1>2 DEF Since
  <1>6. ASSUME x = a.key, log'[n].ok
        PROVE  n \in S /\ S = R \cup {n} /\ Cardinality(S) = Cardinality(R) + 1
    <2>1. S = R \cup {n} /\ n \notin R
      BY <1>1, <1>2, <1>3, <1>6 DEF Since
    <2> QED
      BY <1>4, <2>1, FS_AddElement
  <1> QED
    BY <1>3, <1>4, <1>5, <1>6

(* Each attempt stays within the window there is, opens the one after it,  *)
(* or opens a window after that, which is more than a window later.        *)
LEMMA PacedMoves ==
  ASSUME Inv, HistoryOK, Paced, NEW c \in Callers, NEW a \in pending, Serve(c, a)
  PROVE  Paced'
  <1> DEFINE k == a.key
             n == Len(log) + 1
  <1>1. /\ k \in DOMAIN attempts' /\ DOMAIN attempts' \subseteq DOMAIN attempts \cup {k}
        /\ \A x \in DOMAIN attempts' : x # k => attempts'[x] = attempts[x]
        /\ OpensWindow(a) \/ JoinsWindow(a)
    BY WindowMoves DEF Serve
  <1>2. Logs(c, a)
    BY HistoryMoves
  <1>3. Len(log) \in Nat /\ DOMAIN log = 1..Len(log) /\ DOMAIN log' = 1..n /\ Len(log') = n
    BY <1>2 DEF Logs
  <1> SUFFICES ASSUME NEW x \in Keys, NEW i \in 1..n + 1, KeptFrom(i, x)'
               PROVE  Pace(Since(i, x), x)'
    BY <1>3 DEF Paced
  <1>4. CASE i = n + 1
    <2>1. Since(i, x)' = {}
      BY <1>3, <1>4 DEF Since, Admitted
    <2> QED
      BY <2>1 DEF Pace
  <1>5. CASE i \in 1..n
    <2>1. KeptFrom(i, x) /\ x \notin DOMAIN attempts \ DOMAIN attempts'
      BY <1>2, <1>3, <1>5 DEF KeptFrom, Logs
    <2>2. PICK R : R = Since(i, x)
      OBVIOUS
    <2>3. PICK S : S = Since(i, x)'
      OBVIOUS
    <2> SUFFICES Pace(S, x)'
      BY <2>3 DEF Pace, OneWindow, TwoWindows, Apart
    <2>4. Pace(R, x)
      BY <1>5, <2>1, <2>2 DEF Paced
    <2>5. /\ IsFiniteSet(R) /\ Cardinality(R) \in Nat
          /\ R \subseteq S /\ R \subseteq 1..Len(log) /\ \A j \in R : log'[j] = log[j]
          /\ x # k \/ ~log'[n].ok => S = R
          /\ x = k /\ log'[n].ok => n \in S /\ S = R \cup {n} /\ Cardinality(S) = Cardinality(R) + 1
      BY <1>2, <1>5, <2>2, <2>3, SinceMoves
    <2>6. /\ Limit[x] \in Nat \ {0} /\ Window[x] \in Nat /\ a.now \in Nat
          /\ \A y \in DOMAIN attempts : attempts[y].count \in Nat \ {0} /\ attempts[y].reset \in Nat
      BY LimiterAssumption DEF Inv, TypeOK, AttemptWindow
    <2>7. CASE Apart(R, x)
      BY <2>5, <2>7 DEF Pace, Apart
    <2>8. CASE x # k /\ ~Apart(R, x)
      <3>1. S = R
        BY <2>5, <2>8
      <3>2. x \in DOMAIN attempts => x \in DOMAIN attempts' /\ attempts'[x] = attempts[x]
        BY <1>1, <2>1, <2>8
      <3> QED
        BY <2>4, <2>5, <2>8, <3>1, <3>2 DEF Pace, OneWindow, TwoWindows
    <2>9. CASE x = k /\ OpensWindow(a) /\ ~Apart(R, x)
      <3>1. /\ attempts'[x].count = 1 /\ attempts'[x].reset = a.now + Window[x]
            /\ x \in DOMAIN attempts => a.now > attempts[x].reset
            /\ x \in DOMAIN attempts'
        BY <1>1, <2>9 DEF OpensWindow
      <3>2. log'[n].ok /\ log'[n].now = a.now
        BY <1>2, <2>6, <2>9, <3>1 DEF Logs
      <3>3. n \in S /\ S = R \cup {n} /\ Cardinality(S) = Cardinality(R) + 1
        BY <2>5, <2>9, <3>2
      <3>4. CASE R = {}
        <4>1. Cardinality(S) = 1
          BY <3>3, <3>4, FS_EmptySet
        <4> QED
          BY <2>6, <3>1, <4>1 DEF Pace, OneWindow
      <3>5. CASE OneWindow(R, x)
        <4>1. Cardinality(S) <= Limit[x] + 1 /\ Cardinality(S) <= 2 * Limit[x]
          BY <2>5, <2>6, <3>3, <3>5 DEF OneWindow
        <4>2. \E m \in S : attempts'[x].reset = log'[m].now + Window[x]
          BY <3>1, <3>2, <3>3
        <4> QED
          BY <3>1, <4>1, <4>2 DEF Pace, TwoWindows
      <3>6. CASE TwoWindows(R, x)
        <4>1. PICK m \in R : attempts[x].reset = log[m].now + Window[x]
          BY <3>6 DEF TwoWindows
        <4>2. m < n /\ m \in S /\ log'[m] = log[m]
          BY <1>3, <2>5, <4>1
        <4>3. log'[n].now > log'[m].now + Window[x]
          BY <3>1, <3>2, <3>6, <4>1, <4>2 DEF TwoWindows
        <4> QED
          BY <3>3, <4>2, <4>3 DEF Pace, Apart
      <3> QED
        BY <2>4, <2>9, <3>4, <3>5, <3>6 DEF Pace
    <2>10. CASE x = k /\ JoinsWindow(a) /\ ~Apart(R, x)
      <3>1. /\ x \in DOMAIN attempts /\ x \in DOMAIN attempts'
            /\ attempts'[x].count = attempts[x].count + 1
            /\ attempts'[x].reset = attempts[x].reset
            /\ log'[n].ok <=> attempts[x].count + 1 <= Limit[x]
            /\ attempts[x].count \in Nat \ {0}
        BY <1>1, <1>2, <2>6, <2>10 DEF JoinsWindow, Logs
      <3>2. CASE R = {}
        <4>1. S = {} \/ (log'[n].ok /\ Cardinality(S) = 1)
          BY <2>5, <2>10, <3>2, FS_EmptySet
        <4> QED
          BY <2>6, <3>1, <4>1 DEF Pace, OneWindow
      <3>3. CASE OneWindow(R, x)
        <4>1. Cardinality(S) <= attempts'[x].count /\ Cardinality(S) <= Limit[x]
          BY <2>5, <2>6, <2>10, <3>1, <3>3 DEF OneWindow
        <4> QED
          BY <3>1, <4>1 DEF Pace, OneWindow
      <3>4. CASE TwoWindows(R, x)
        <4>1. Cardinality(S) <= Limit[x] + attempts'[x].count /\ Cardinality(S) <= 2 * Limit[x]
          <5> DEFINE lim == Limit[x]
                     count == attempts[x].count
          <5>1. /\ lim \in Nat /\ count \in Nat /\ attempts'[x].count = count + 1
                /\ Cardinality(R) \in Nat /\ Cardinality(R) <= lim + count /\ Cardinality(R) <= 2 * lim
            BY <2>5, <2>6, <3>1, <3>4 DEF TwoWindows
          <5>2. \/ Cardinality(S) = Cardinality(R)
                \/ Cardinality(S) = Cardinality(R) + 1 /\ count + 1 <= lim
            BY <2>5, <2>10, <3>1
          <5> HIDE DEF lim, count
          <5>3. Cardinality(S) <= lim + (count + 1) /\ Cardinality(S) <= 2 * lim
            BY <5>1, <5>2
          <5> QED
            BY <5>1, <5>3 DEF lim
        <4>2. \E m \in S : attempts'[x].reset = log'[m].now + Window[x]
          BY <2>5, <3>1, <3>4 DEF TwoWindows
        <4> QED
          BY <3>1, <4>1, <4>2 DEF Pace, TwoWindows
      <3> QED
        BY <2>4, <2>10, <3>2, <3>3, <3>4 DEF Pace
    <2> QED
      BY <1>1, <2>7, <2>8, <2>9, <2>10
  <1> QED
    BY <1>3, <1>4, <1>5

(* More than two windows' worth of a stretch has entries apart.            *)
LEMMA BudgetMoves ==
  ASSUME Inv, HistoryOK, BudgetByKey, Paced', NEW c \in Callers, NEW a \in pending, Serve(c, a)
  PROVE  BudgetByKey'
  <1> DEFINE n == Len(log) + 1
             New(i, j) == {m \in AdmittedNext(log'[j].key) : i <= m /\ m <= j}
             Far(R, x) == \E p, q \in R : p < q /\ log'[q].now > log'[p].now + Window[x]
  <1>1. Logs(c, a)
    BY HistoryMoves
  <1>2. /\ Len(log) \in Nat /\ DOMAIN log = 1..Len(log) /\ DOMAIN log' = 1..n /\ Len(log') = n
        /\ \A j \in 1..Len(log) : log'[j] = log[j] /\ served'[j] = served[j]
    BY <1>1 DEF Logs
  <1> SUFFICES ASSUME NEW i \in DOMAIN log', NEW j \in DOMAIN log',
                      Cardinality(New(i, j)) > 2 * Limit[log'[j].key],
                      \A m \in DOMAIN log' : i <= m /\ m <= j => log'[j].key \notin served'[m].dropped
               PROVE  Far(New(i, j), log'[j].key)
    BY DEF BudgetByKey, Within, Apart, Admitted, AdmittedNext
  <1>3. log'[j].key \in Keys /\ Limit[log'[j].key] \in Nat \ {0}
    <2>1. log'[j] \in LogEntry
      BY HistoryMoves DEF HistoryOK
    <2> QED
      BY <2>1, LimiterAssumption DEF LogEntry
  <1>4. ASSUME New(i, j) = {} PROVE FALSE
    BY <1>3, <1>4, FS_EmptySet
  <1>5. CASE j \in 1..Len(log) /\ i \in 1..Len(log)
    <2>1. New(i, j) = Within(i, j)
      BY <1>2, <1>5 DEF Within, Admitted, AdmittedNext
    <2>2. /\ Cardinality(Within(i, j)) > 2 * Limit[log[j].key]
          /\ \A m \in DOMAIN log : i <= m /\ m <= j => log[j].key \notin served[m].dropped
      <3>1. log'[j] = log[j] /\ Cardinality(New(i, j)) > 2 * Limit[log'[j].key]
        BY <1>2, <1>5
      <3>2. \A m \in DOMAIN log : m \in DOMAIN log' /\ served'[m] = served[m]
        BY <1>2
      <3> HIDE DEF New
      <3> QED
        BY <2>1, <3>1, <3>2
    <2>3. Apart(Within(i, j), log[j].key)
      BY <1>2, <1>5, <2>2 DEF BudgetByKey
    <2>4. \A m \in Within(i, j) : m \in 1..Len(log)
      BY <1>2 DEF Within, Admitted
    <2> HIDE DEF New
    <2> QED
      BY <1>2, <1>5, <2>1, <2>3, <2>4 DEF Apart
  <1>6. CASE j \in 1..Len(log) /\ i = n
    <2>1. New(i, j) = {}
      BY <1>2, <1>6 DEF AdmittedNext
    <2> QED
      BY <1>4, <2>1
  <1>7. CASE j = n
    <2> DEFINE k == a.key
    <2>1. log'[j].key = k
      BY <1>1, <1>7 DEF Logs
    <2>2. PICK S : S = Since(i, k)'
      OBVIOUS
    <2>3. New(i, j) = S
      BY <1>2, <1>7, <2>1, <2>2 DEF Since, Admitted, AdmittedNext
    <2>4. KeptFrom(i, k)'
      BY <1>2, <1>7, <2>1 DEF KeptFrom
    <2>5. Pace(Since(i, k), k)'
      BY <1>2, <1>3, <2>1, <2>4 DEF Paced
    <2>6. Pace(S, k)'
      BY <2>2, <2>5 DEF Pace, OneWindow, TwoWindows, Apart
    <2>7. S # {} /\ Cardinality(S) > 2 * Limit[k] /\ Limit[k] \in Nat \ {0}
      BY <1>3, <1>4, <2>1, <2>3
    <2>8. Cardinality(S) \in Nat
      <3>1. S \subseteq 1..n /\ IsFiniteSet(1..n)
        BY <1>2, <2>2, FS_Interval DEF Since, Admitted
      <3> QED
        BY <3>1, FS_Subset, FS_CardinalityType
    <2>9. Apart(S, k)'
      BY <2>6, <2>7, <2>8 DEF Pace, OneWindow, TwoWindows
    <2> HIDE DEF New
    <2> QED
      BY <2>1, <2>3, <2>9 DEF Apart
  <1> QED
    BY <1>2, <1>5, <1>6, <1>7

----------------------------------------------------------------------------
(* No request, no window and no history at the start.                      *)
LEMMA AdmissionInvInit == AdmissionInit => AdmissionInv
  <1> SUFFICES ASSUME AdmissionInit PROVE AdmissionInv
    OBVIOUS
  <1>1. Inv
    BY InitInv DEF AdmissionInit
  <1>2. /\ log = <<>> /\ served = <<>> /\ pending = {} /\ DOMAIN attempts = {}
        /\ req = [c \in Callers |-> NoRequest]
    BY DEF AdmissionInit, Init
  <1>3. HistoryOK
    BY <1>2, EmptySeq DEF HistoryOK, NoRequest, Handled
  <1>4. DOMAIN log = {} /\ Len(log) = 0
    BY <1>2
  <1>5. Charged /\ Attributed /\ Counted /\ RefusedByKey /\ BudgetByKey
    BY <1>2, <1>4 DEF Charged, Attributed, Counted, RefusedByKey, BudgetByKey
  <1>6. Paced
    BY <1>4 DEF Paced, Pace, Since, Admitted
  <1> QED
    BY <1>1, <1>3, <1>5, <1>6 DEF AdmissionInv

(* Time passes and requests come and go; only an answer of the limiter     *)
(* changes windows and histories.                                          *)
LEMMA AdmissionInvStep == AdmissionInv /\ [AdmissionNext]_admissionVars => AdmissionInv'
  <1> SUFFICES ASSUME AdmissionInv, [AdmissionNext]_admissionVars PROVE AdmissionInv'
    OBVIOUS
  <1>1. Inv'
    BY StepSimulates, StepInv DEF AdmissionInv
  <1>2. HistoryOK' /\ Charged' /\ Attributed'
    BY ChargeMoves DEF AdmissionInv
  <1>3. ASSUME NEW c \in Callers, NEW a \in pending, Serve(c, a)
        PROVE  Counted' /\ Paced' /\ RefusedByKey' /\ BudgetByKey'
    <2>1. Counted' /\ Paced' /\ RefusedByKey'
      BY <1>3, CountedMoves, PacedMoves, RefusedMoves DEF AdmissionInv
    <2> QED
      BY <1>3, <2>1, BudgetMoves DEF AdmissionInv
  <1>4. ASSUME UNCHANGED <<attempts, log, served>>, clock' \in Nat, clock' >= clock
        PROVE  Counted' /\ Paced' /\ RefusedByKey' /\ BudgetByKey'
    <2>1. Counted'
      <3>1. /\ clock \in Nat /\ DOMAIN attempts \subseteq Keys
            /\ \A k \in DOMAIN attempts : attempts[k].reset \in Nat /\ Window[k] \in Nat
        BY LimiterAssumption DEF AdmissionInv, Inv, TypeOK, AttemptWindow
      <3>2. \A k, r : Recent(k, r)' = Recent(k, r)
        BY <1>4 DEF Recent, Admitted
      <3>3. \A k \in DOMAIN attempts : attempts[k].reset <= clock' + Window[k]
        BY <1>4, <3>1 DEF AdmissionInv, Counted
      <3> QED
        BY <1>4, <3>2, <3>3 DEF AdmissionInv, Counted, Recent, Admitted
    <2>2. Paced'
      BY <1>4 DEF AdmissionInv, Paced, Pace, OneWindow, TwoWindows, Apart, Since, KeptFrom, Admitted
    <2>3. RefusedByKey' /\ BudgetByKey'
      BY <1>4 DEF AdmissionInv, RefusedByKey, BudgetByKey, Before, Within, Apart, Admitted
    <2> QED
      BY <2>1, <2>2, <2>3
  <1>5. \/ \E c \in Callers : \E a \in pending : Serve(c, a)
        \/ UNCHANGED <<attempts, log, served>> /\ clock' \in Nat /\ clock' >= clock
    <2>1. clock \in Nat
      BY DEF AdmissionInv, Inv, TypeOK
    <2> QED
      BY <2>1 DEF AdmissionNext, Arrive, ChargeUser, ReadClock, Abort, Tick, admissionVars, vars
  <1> QED
    BY <1>1, <1>2, <1>3, <1>4, <1>5 DEF AdmissionInv

(* The inductive invariant of the limiter behind the handlers.             *)
THEOREM AdmissionInvariance == AdmissionSpec => []AdmissionInv
  BY AdmissionInvInit, AdmissionInvStep, PTL DEF AdmissionSpec

(* Nobody is locked out by others: a refused sender had Limit attempts of  *)
(* its own admitted within a window, for any proxies, header entries,      *)
(* callers, limits, windows and capacity, with a map that evicts.          *)
THEOREM NobodyIsLockedOut == AdmissionSpec => []RefusedForOwnDeeds
  <1>1. AdmissionInv => RefusedForOwnDeeds
    <2> SUFFICES ASSUME AdmissionInv, NEW i \in DOMAIN log, ~log[i].ok
                 PROVE  Limit[log[i].key] <=
                          Cardinality({j \in Spent(i) :
                                         j < i /\ log[j].at + Window[log[i].key] >= log[i].now})
      BY DEF RefusedForOwnDeeds
    <2>1. {j \in Spent(i) : j < i /\ log[j].at + Window[log[i].key] >= log[i].now} = Before(i)
      BY SpenderIsKey DEF AdmissionInv, Before
    <2> QED
      BY <2>1 DEF AdmissionInv, RefusedByKey
  <1> QED
    BY AdmissionInvariance, <1>1, PTL

(* Nobody escapes a limit: more than twice Limit admitted attempts of a    *)
(* sender, or on an account, are spread over more than a window of the     *)
(* clocks they read, unless the full map gave the window up.               *)
THEOREM NobodyEscapesTheLimit == AdmissionSpec => []BudgetHolds
  <1>1. AdmissionInv => BudgetHolds
    <2> SUFFICES ASSUME AdmissionInv, NEW i \in DOMAIN log, NEW j \in DOMAIN log,
                        Cardinality(Spent(j) \cap i..j) > 2 * Limit[log[j].key],
                        \A m \in i..j : log[j].key \notin served[m].dropped
                 PROVE  \E m, n \in Spent(j) \cap i..j :
                          m < n /\ log[n].now > log[m].now + Window[log[j].key]
      BY DEF BudgetHolds
    <2>1. DOMAIN log = 1..Len(log) /\ Len(log) \in Nat
      BY LenProperties DEF AdmissionInv, HistoryOK
    <2>2. Spent(j) \cap i..j = Within(i, j)
      <3>1. Spent(j) = Admitted(log[j].key)
        BY SpenderIsKey DEF AdmissionInv
      <3> QED
        BY <2>1, <3>1 DEF Within, Admitted
    <2>3. \A m \in DOMAIN log : i <= m /\ m <= j => log[j].key \notin served[m].dropped
      BY <2>1
    <2>4. Apart(Within(i, j), log[j].key)
      BY <2>2, <2>3 DEF AdmissionInv, BudgetByKey
    <2> QED
      BY <2>2, <2>4 DEF Apart
  <1> QED
    BY AdmissionInvariance, <1>1, PTL

=============================================================================
