---------------------------- MODULE RateLimiter ----------------------------
(***************************************************************************)
(* The fixed-window attempt limiter of the API server: one map from key to *)
(* window, under a mutex, bounded by attemptsCap.  A caller reads the      *)
(* clock BEFORE it takes the mutex, so callers may be served out of the    *)
(* order of their clock readings.                                          *)
(***************************************************************************)
EXTENDS Naturals, Sequences, FiniteSets

CONSTANTS
  Callers,      \* request goroutines
  Keys,         \* limiter keys: a purpose and an address, or a user
  Limit,        \* attempts a window of a key admits
  Window,       \* length of a window of a key
  AttemptsCap,  \* attemptsCap
  MaxTime,      \* bound: clock ticks of a behaviour
  MaxAttempts   \* bound: attempts of a behaviour

ASSUME LimiterAssumption ==
  /\ Limit \in [Keys -> Nat \ {0}] /\ Window \in [Keys -> Nat \ {0}]
  /\ AttemptsCap \in Nat \ {0}
  /\ MaxTime \in Nat /\ MaxAttempts \in Nat

VARIABLES
  clock,     \* time.Now(), starting after the zero time
  attempts,  \* the map
  pending,   \* callers between the clock and the mutex, with what they read
  log        \* history: the attempts served, in the order of the mutex

vars == <<clock, attempts, pending, log>>

AttemptWindow == [count: Nat \ {0}, reset: Nat \ {0}]
ZeroWindow    == [count |-> 0, reset |-> 0]

Init ==
  /\ clock = 1
  /\ attempts = [k \in {} |-> ZeroWindow]
  /\ pending = {}
  /\ log = <<>>

----------------------------------------------------------------------------
(* time.Time.After is strict: a window still counts at its reset instant.  *)
After(now, t) == now > t

Keep(S) == [k \in S |-> attempts[k]]
Live(now) == {k \in DOMAIN attempts : ~After(now, attempts[k].reset)}

(* Mutant of MakeRoom: only expired windows are dropped.                   *)
MakeRoomExpiredOnly(now) == {Keep(Live(now))}

(* The maps makeRoom may leave: expired windows go, and if every slot is   *)
(* live one of them, any one, goes too.                                    *)
MakeRoom(now) ==
  IF Cardinality(Live(now)) >= AttemptsCap
  THEN {Keep(Live(now) \ {victim}) : victim \in Live(now)}
  ELSE {Keep(Live(now))}

(* Mutant of BumpWindow: the attempt that opens a window is not counted.   *)
BumpWindowUncounted(entry, now, window) ==
  IF After(now, entry.reset) THEN [count |-> 0, reset |-> now + window]
                             ELSE [entry EXCEPT !.count = @ + 1]

BumpWindow(entry, now, window) ==
  LET w == IF After(now, entry.reset)
           THEN [count |-> 0, reset |-> now + window] ELSE entry
  IN  [w EXCEPT !.count = @ + 1]

(* Mutant of Admits: one attempt more than the limit.                      *)
AdmitsOneMore(entry, k) == entry.count - 1 <= Limit[k]

Admits(entry, k) == entry.count <= Limit[k]

----------------------------------------------------------------------------
ReadClock(c, k) ==
  /\ \A a \in pending : a.who # c
  /\ Len(log) < MaxAttempts
  /\ pending' = pending \cup {[who |-> c, key |-> k, now |-> clock]}
  /\ UNCHANGED <<clock, attempts, log>>

(* The critical section of allowAttempt.                                   *)
AllowAttempt(a) ==
  LET k    == a.key
      full == k \notin DOMAIN attempts /\ Cardinality(DOMAIN attempts) >= AttemptsCap
  IN
  /\ \E room \in (IF full THEN MakeRoom(a.now) ELSE {attempts}) :
       LET old   == IF k \in DOMAIN room THEN room[k] ELSE ZeroWindow
           entry == BumpWindow(old, a.now, Window[k])
       IN  /\ attempts' = [x \in DOMAIN room \cup {k} |->
                             IF x = k THEN entry ELSE room[x]]
           /\ log' = Append(log, [key |-> k, now |-> a.now, at |-> clock,
                                  ok |-> Admits(entry, k)])
  /\ pending' = pending \ {a}
  /\ UNCHANGED clock

Tick ==
  /\ clock < MaxTime
  /\ clock' = clock + 1
  /\ UNCHANGED <<attempts, pending, log>>

Next ==
  \/ \E c \in Callers, k \in Keys : ReadClock(c, k)
  \/ \E a \in pending : AllowAttempt(a)
  \/ Tick

Spec == Init /\ [][Next]_vars

----------------------------------------------------------------------------
(* Types: no window is stored that does not count an attempt, and no       *)
(* caller acts on a time that has not come.                                *)
TypeOK ==
  /\ clock \in Nat \ {0}
  /\ DOMAIN attempts \subseteq Keys
  /\ \A k \in DOMAIN attempts : attempts[k] \in AttemptWindow
  /\ pending \subseteq [who: Callers, key: Keys, now: 1..clock]

(* Callers choose the keys, so the map is attack surface: it never holds   *)
(* more than attemptsCap windows, whatever keys arrive and when.           *)
BoundedMap == Cardinality(DOMAIN attempts) <= AttemptsCap

=============================================================================
