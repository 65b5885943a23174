---------------------------- MODULE BackupProofs ----------------------------
(***************************************************************************)
(* The safety properties of Backup for any number of administrators,       *)
(* KyRecovery servers, keys and runs.  None of them is inductive: each     *)
(* speaks of the tables, and what keeps it true is what the handlers under *)
(* way still carry.  Slot says what a handler knows at each of its steps,  *)
(* PinDue and RunDue who still owes the audit trail a row.                 *)
(***************************************************************************)
EXTENDS Backup, TLAPS

Items == 1..MaxRuns
InRun == {"destination", "deposit", "receipt"}
Trail == audit \cup lost

Rows  == [action: Kept \cup {"failure", "unpair", "schedule", "export"},
          item: Keys \cup Nat \cup {None}]
Slots == [pc: InRun \cup {"idle", "pin_pair", "pin_hand", "store_pairing", "clear_pairing",
                          "read_back", "audit", "send"},
          url: Urls \cup {None}, key: Keys \cup {None}, item: Items \cup {None}, row: Rows]

(* What a handler in state r knows: the key it carries belongs to the      *)
(* server it talks to; once past the pin, the key is the pinned one p.     *)
Slot(r, p) ==
  /\ r \in Slots
  /\ r.pc = "pin_pair" => r.url \in Urls /\ r.key = KeyOf[r.url] /\ r.item = None
  /\ r.pc = "pin_hand" => r.key \in Keys /\ r.item = None
  /\ r.pc = "store_pairing" =>
       r.url \in Urls /\ r.key = KeyOf[r.url] /\ r.key = p /\ r.item = None
  /\ r.pc \in InRun => r.key \in Keys /\ r.key = p /\ r.item \in Items
  /\ r.pc = "deposit" => r.url \in Urls /\ r.key = KeyOf[r.url]
  /\ r.pc = "audit" /\ r.row.action = "pin" =>
       r.row = Row("pin", p) /\ r.key = p /\ r.key \in Keys

(* The handler will write the row of the pin p; a crash finds it in flight.*)
PinDue(r, p) ==
  /\ r.key = p /\ r.item = None
  /\ r.pc = "store_pairing" \/ (r.pc = "audit" /\ r.row = Row("pin", p))

(* The run of capsule id is past its upload and its row is still due.      *)
RunDue(r, id) ==
  /\ r.item = id
  /\ r.pc = "receipt" \/ (r.pc = "audit" /\ r.row = Row("run", id))

Shared ==
  /\ pin \in Keys \cup {None} /\ pairing \in Urls \cup {None}
  /\ interval \in Intervals /\ nextRun \in Nat \ {0}
  /\ capsules \subseteq [id: Items, at: Urls, key: Keys]

Handlers == DOMAIN req = Actors /\ \A a \in Actors : Slot(req[a], pin)
Lock     == \A a \in Actors : req[a].pc \in InRun <=> running = a
PinOwed  == pin # None =>
              Row("pin", pin) \in Trail \/ \E a \in Actors : PinDue(req[a], pin)
RunsOwed == \A c \in capsules :
              Row("run", c.id) \in Trail \/ \E a \in Actors : RunDue(req[a], c.id)

Inv == /\ Shared /\ Handlers /\ Lock /\ SealedForDestination
       /\ PinOwed /\ RunsOwed

(* What one actor's step may do to the tables, given what it holds.        *)
Local(a) ==
  /\ req' = [req EXCEPT ![a] = req'[a]]
  /\ Slot(req'[a], pin')
  /\ pin' = pin \/ (pin = None /\ pin' \in Keys /\ PinDue(req'[a], pin'))
  /\ \/ pairing' \in {pairing, None}
     \/ pairing' \in Urls /\ pin' = KeyOf[pairing']
  /\ interval' \in Intervals /\ nextRun' \in Nat \ {0}
  /\ \/ running' = running /\ (req[a].pc \in InRun <=> req'[a].pc \in InRun)
     \/ running = None /\ running' = a /\ req'[a].pc \in InRun
     \/ running = a /\ running' = None /\ req'[a].pc \notin InRun
  /\ \A c \in capsules' :
       \/ c \in capsules
       \/ /\ c \in [id: Items, at: Urls, key: Keys]
          /\ c.key = KeyOf[c.at] /\ RunDue(req'[a], c.id)
  /\ Trail \subseteq Trail'
  /\ PinDue(req[a], pin) => PinDue(req'[a], pin) \/ Row("pin", pin) \in Trail'
  /\ \A id \in Items : RunDue(req[a], id) =>
       RunDue(req'[a], id) \/ Row("run", id) \in Trail'

(* The pin is written once, so a handler that takes no step still knows    *)
(* what it knew.                                                           *)
LEMMA SlotStable ==
  ASSUME NEW r, NEW p, NEW q, Slot(r, p), q = p \/ p = None
  PROVE  Slot(r, q)
  <1>1. r.pc = "store_pairing" => q = p
    BY BackupAssumption DEF Slot
  <1>2. r.pc \in InRun => q = p
    BY BackupAssumption DEF Slot
  <1>3. r.pc = "audit" /\ r.row.action = "pin" => q = p
    BY BackupAssumption DEF Slot
  <1> QED
    BY <1>1, <1>2, <1>3 DEF Slot

(* A step of one actor that is Local keeps the invariant.                  *)
LEMMA LocalStep ==
  ASSUME Inv, NEW a \in Actors, Local(a)
  PROVE  Inv'
  <1> USE DEF Inv
  <1>0. /\ DOMAIN req = Actors /\ DOMAIN req' = Actors
        /\ \A b \in Actors : b # a => req'[b] = req[b]
    BY DEF Handlers, Local
  <1>1. Shared'
    BY DEF Shared, Local
  <1>2. Handlers'
    <2>1. ASSUME NEW b \in Actors PROVE Slot(req'[b], pin')
      <3>1. CASE b = a
        BY <3>1 DEF Local
      <3>2. CASE b # a
        BY <1>0, <3>2, SlotStable DEF Handlers, Local
      <3> QED
        BY <3>1, <3>2
    <2> QED
      BY <1>0, <2>1 DEF Handlers
  <1>3. Lock'
    <2>1. a # None /\ \A b \in Actors : b # None
      BY BackupAssumption
    <2> QED
      BY <1>0, <2>1 DEF Lock, Local
  <1>4. SealedForDestination'
    BY BackupAssumption DEF SealedForDestination, Local, Shared
  <1>5. PinOwed'
    <2>1. CASE pin' = pin
      BY <1>0, <2>1 DEF PinOwed, Local
    <2>2. CASE pin' # pin
      BY <2>2 DEF PinOwed, Local
    <2> QED
      BY <2>1, <2>2
  <1>6. RunsOwed'
    <2> SUFFICES ASSUME NEW c \in capsules'
                 PROVE  \/ Row("run", c.id) \in Trail'
                        \/ \E b \in Actors : RunDue(req'[b], c.id)
      BY DEF RunsOwed
    <2>1. CASE c \in capsules
      <3>1. c.id \in Items
        BY <2>1 DEF Shared
      <3> QED
        BY <1>0, <2>1, <3>1 DEF RunsOwed, Local
    <2>2. CASE c \notin capsules
      BY <2>2 DEF Local
    <2> QED
      BY <2>1, <2>2
  <1> QED
    BY <1>1, <1>2, <1>3, <1>4, <1>5, <1>6

----------------------------------------------------------------------------
(* A handler that goes on to its audit row keeps its key and its capsule.  *)
LEMMA Recorded ==
  ASSUME NEW r \in Slots, NEW w \in Rows
  PROVE  LET q == [r EXCEPT !.pc = "audit", !.url = None, !.row = w] IN
         q \in Slots /\ q.pc = "audit" /\ q.row = w /\ q.key = r.key /\ q.item = r.item
  BY DEF Slots

(* The row of a run names its capsule.                                     *)
LEMMA RunRow ==
  ASSUME NEW id \in Items
  PROVE  Row("run", id) \in Rows
  BY DEF Items, Rows, Row, Kept

(* What every step of an actor may take for granted.                       *)
LEMMA Carried ==
  ASSUME Inv, NEW a \in Actors
  PROVE  /\ Slot(req[a], pin) /\ DOMAIN req = Actors
         /\ Shared /\ SealedForDestination
         /\ req[a].pc \in InRun <=> running = a
         /\ a # None /\ None \notin Keys /\ None \notin Urls /\ None \notin Nat
  BY BackupAssumption DEF Inv, Handlers, Lock

(* An actor moves on and the tables stay as they are: it is enough that    *)
(* its new state is a legal one and that it drops no row it owes.          *)
LEMMA MovesOn ==
  ASSUME Inv, NEW a \in Actors,
         UNCHANGED <<pin, pairing, capsules, audit, lost>>,
         interval' \in Intervals, nextRun' \in Nat \ {0},
         req' = [req EXCEPT ![a] = req'[a]],
         Slot(req'[a], pin),
         \/ running' = running /\ (req[a].pc \in InRun <=> req'[a].pc \in InRun)
         \/ running = None /\ running' = a /\ req'[a].pc \in InRun
         \/ running = a /\ running' = None /\ req'[a].pc \notin InRun,
         PinDue(req[a], pin) => PinDue(req'[a], pin),
         \A id \in Items : RunDue(req[a], id) => RunDue(req'[a], id)
  PROVE  Inv'
  <1>1. Local(a)
    BY DEF Local, Trail
  <1> QED
    BY <1>1, LocalStep

(* Requests that begin: nothing is owed yet.                               *)
LEMMA BeginStep ==
  ASSUME Inv, NEW a \in Actors,
         \/ \E url \in Urls : ClaimPairing(a, url)
         \/ \E key \in Keys : ParsePinRequest(a, key)
         \/ ReadTarget(a)
         \/ \E i \in Intervals : SetInterval(a, i)
         \/ RefuseRun(a)
  PROVE  Inv'
  <1> USE DEF Idle, Failure, Row, Kept
  <1>0. /\ req[a].pc = "idle" /\ running # a /\ UNCHANGED running
        /\ UNCHANGED <<pin, pairing, capsules, audit, lost>>
        /\ interval' \in Intervals /\ nextRun' \in Nat \ {0}
    BY Carried DEF ClaimPairing, ParsePinRequest, ReadTarget, SetInterval, RefuseRun, At,
       InRun, Shared
  <1> DEFINE Begun(r) ==
        /\ r.item = None
        /\ \/ r.pc = "pin_pair" /\ r.url \in Urls /\ r.key = KeyOf[r.url]
           \/ r.pc = "pin_hand" /\ r.key \in Keys
           \/ r.pc \in {"clear_pairing", "read_back"}
           \/ r.pc = "audit" /\ r.row.action = "failure"
  <1>1. \E r \in Slots : Begun(r) /\ req' = [req EXCEPT ![a] = r]
    <2> DEFINE refused  == [Idle EXCEPT !.pc = "audit", !.row = Failure]
               reads(s) == [Idle EXCEPT !.pc = s]
    <2>1. ASSUME NEW url \in Urls, ClaimPairing(a, url)
          PROVE  \E r \in Slots : Begun(r) /\ req' = [req EXCEPT ![a] = r]
      <3> DEFINE r == [Idle EXCEPT !.pc = "pin_pair", !.url = url, !.key = KeyOf[url]]
      <3>1. r \in Slots /\ refused \in Slots /\ Begun(r) /\ Begun(refused)
        BY BackupAssumption DEF Slots, Rows
      <3> QED
        BY <2>1, <3>1 DEF ClaimPairing, Become
    <2>2. ASSUME NEW key \in Keys, ParsePinRequest(a, key)
          PROVE  \E r \in Slots : Begun(r) /\ req' = [req EXCEPT ![a] = r]
      <3> DEFINE r == [Idle EXCEPT !.pc = "pin_hand", !.key = key]
      <3>1. r \in Slots /\ Begun(r)
        BY DEF Slots, Rows
      <3> QED
        BY <2>2, <3>1 DEF ParsePinRequest, Become
    <2>3. /\ reads("clear_pairing") \in Slots /\ Begun(reads("clear_pairing"))
          /\ reads("read_back") \in Slots /\ Begun(reads("read_back"))
          /\ refused \in Slots /\ Begun(refused)
      BY DEF Slots, Rows
    <2> HIDE DEF Begun, Idle
    <2> QED
      BY <2>1, <2>2, <2>3 DEF ReadTarget, SetInterval, RefuseRun, Become
  <1>a. PICK r \in Slots : Begun(r) /\ req' = [req EXCEPT ![a] = r]
    BY <1>1
  <1>2. DOMAIN req = Actors /\ req'[a] = r
    BY <1>a, Carried
  <1>3. Slot(req'[a], pin)
    BY <1>a, <1>2 DEF Slot, InRun
  <1> QED
    BY <1>0, <1>a, <1>2, <1>3, MovesOn DEF InRun, PinDue, RunDue


(* The key is saved by whoever comes first, and the row of a first pin is  *)
(* due from then on.                                                       *)
LEMMA PinStep ==
  ASSUME Inv, NEW a \in Actors, PinPaired(a) \/ PinByHand(a)
  PROVE  Inv'
  <1> USE Carried DEF Row
  <1> DEFINE r == req[a]
             stores  == [r EXCEPT !.pc = "store_pairing"]
             pinned  == [r EXCEPT !.pc = "audit", !.url = None, !.row = Row("pin", r.key)]
             refused == [r EXCEPT !.pc = "audit", !.url = None, !.row = Failure]
  <1>0. /\ r \in Slots /\ r.key \in Keys /\ r.item = None /\ running # a
        /\ r.pc \in {"pin_pair", "pin_hand"}
        /\ r.pc = "pin_pair" => r.url \in Urls /\ r.key = KeyOf[r.url]
        /\ UNCHANGED <<pairing, interval, capsules, audit, nextRun, running, lost>>
    BY BackupAssumption DEF Slot, PinPaired, PinByHand, At, InRun
  <1>1. ASSUME pin \in {None, r.key}, pin' = r.key,
               req' = [req EXCEPT ![a] = IF r.pc = "pin_pair" THEN stores ELSE pinned]
        PROVE  Inv'
    <2>1. /\ r.pc = "pin_pair" => stores \in Slots /\ PinDue(stores, r.key)
          /\ r.pc = "pin_hand" => pinned \in Slots /\ PinDue(pinned, r.key)
      BY <1>0 DEF Slots, Rows, PinDue, Kept
    <2>2. req'[a] = IF r.pc = "pin_pair" THEN stores ELSE pinned
      BY <1>1
    <2>3. Slot(req'[a], pin')
      BY <1>0, <1>1, <2>1, <2>2 DEF Slot, InRun, Slots, Rows
    <2>4. PinDue(req'[a], pin')
      BY <1>0, <1>1, <2>1, <2>2
    <2>5. ~PinDue(r, pin) /\ (\A id \in Items : ~RunDue(r, id))
      BY <1>0 DEF PinDue, RunDue
    <2>6. r.pc \notin InRun /\ req'[a].pc \notin InRun
      BY <1>0, <2>1, <2>2 DEF InRun, Slots, Rows
    <2>7. Local(a)
      BY <1>0, <1>1, <2>2, <2>3, <2>4, <2>5, <2>6 DEF Local, Trail, Shared
    <2> QED
      BY <2>7, LocalStep
  <1>2. ASSUME UNCHANGED pin, req' = [req EXCEPT ![a] = refused] \/ req' = [req EXCEPT ![a] = Idle]
        PROVE  Inv'
    <2>1. /\ refused \in Slots /\ refused.pc = "audit" /\ refused.row.action = "failure"
          /\ Idle \in Slots /\ Idle.pc = "idle"
      BY <1>0 DEF Slots, Rows, Kept, Idle, Failure
    <2>2. req'[a] \in {refused, Idle} /\ req' = [req EXCEPT ![a] = req'[a]]
      BY <1>2
    <2>3. Slot(req'[a], pin) /\ req'[a].pc \notin InRun /\ r.pc \notin InRun
      BY <1>0, <2>1, <2>2 DEF Slot, InRun
    <2>4. ~PinDue(r, pin) /\ (\A id \in Items : ~RunDue(r, id))
      BY <1>0 DEF PinDue, RunDue
    <2> QED
      BY <1>0, <1>2, <2>2, <2>3, <2>4, MovesOn DEF Shared
  <1> QED
    BY <1>1, <1>2 DEF PinPaired, PinByHand, StoreRecoveryKey, SaveFailed, Goto, Record, Become, At

(* The pairing is stored only past the pin, whose key is the server's own; *)
(* stored or not, the row of the pin follows.                              *)
LEMMA StorePairingStep ==
  ASSUME Inv, NEW a \in Actors, StorePairing(a)
  PROVE  Inv'
  <1> USE Carried DEF Row
  <1> DEFINE r == req[a]
             pinned == [r EXCEPT !.pc = "audit", !.url = None, !.row = Row("pin", r.key)]
  <1>0. /\ r \in Slots /\ r.key \in Keys /\ r.item = None /\ running # a
        /\ r.pc = "store_pairing" /\ r.url \in Urls /\ r.key = KeyOf[r.url] /\ r.key = pin
        /\ pairing' \in {pairing, r.url} /\ req' = [req EXCEPT ![a] = pinned]
        /\ UNCHANGED <<pin, interval, capsules, audit, nextRun, running, lost>>
    BY BackupAssumption DEF Slot, StorePairing, At, InRun, Record, Become
  <1>1. pinned \in Slots /\ PinDue(pinned, pin) /\ pinned.pc = "audit" /\ pinned.key = pin
        /\ pinned.row = Row("pin", pin)
    BY <1>0 DEF Slots, Rows, PinDue, Kept
  <1>2. req'[a] = pinned
    BY <1>0
  <1> HIDE DEF pinned
  <1>3. Slot(req'[a], pin') /\ req'[a].pc \notin InRun /\ r.pc \notin InRun
    BY <1>0, <1>1, <1>2 DEF Slot, InRun
  <1>4. \A id \in Items : ~RunDue(r, id)
    BY <1>0 DEF RunDue
  <1>5. Local(a)
    BY <1>0, <1>1, <1>2, <1>3, <1>4 DEF Local, Trail, Shared
  <1> QED
    BY <1>5, LocalStep

(* Unpairing and the schedule owe no row the trail keeps.                  *)
LEMMA SettingsStep ==
  ASSUME Inv, NEW a \in Actors, ClearPairing(a) \/ ReadBack(a)
  PROVE  Inv'
  <1> USE Carried DEF Row
  <1> DEFINE r == req[a]
             unpaired  == [r EXCEPT !.pc = "audit", !.url = None, !.row = Row("unpair", None)]
             scheduled == [r EXCEPT !.pc = "audit", !.url = None, !.row = Row("schedule", interval)]
  <1>0. /\ r \in Slots /\ r.pc \in {"clear_pairing", "read_back"} /\ running # a
        /\ pairing' \in {pairing, None}
        /\ UNCHANGED <<pin, interval, capsules, audit, nextRun, running, lost>>
        /\ \/ req' = [req EXCEPT ![a] = unpaired]
           \/ req' = [req EXCEPT ![a] = scheduled]
           \/ req' = [req EXCEPT ![a] = Idle]
    BY DEF Slot, ClearPairing, ReadBack, At, InRun, Record, Become
  <1>1. /\ unpaired \in Slots /\ unpaired.pc = "audit" /\ unpaired.row.action = "unpair"
        /\ scheduled \in Slots /\ scheduled.pc = "audit" /\ scheduled.row.action = "schedule"
        /\ Idle \in Slots /\ Idle.pc = "idle"
    BY <1>0, BackupAssumption DEF Slots, Rows, Shared, Idle, Failure, Kept
  <1>2. req'[a] \in {unpaired, scheduled, Idle} /\ req' = [req EXCEPT ![a] = req'[a]]
    BY <1>0
  <1> HIDE DEF unpaired, scheduled
  <1>3. Slot(req'[a], pin') /\ req'[a].pc \notin InRun /\ r.pc \notin InRun
    BY <1>0, <1>1, <1>2 DEF Slot, InRun
  <1>4. ~PinDue(r, pin) /\ (\A id \in Items : ~RunDue(r, id))
    BY <1>0 DEF PinDue, RunDue
  <1>5. Local(a)
    BY <1>0, <1>2, <1>3, <1>4 DEF Local, Trail, Shared
  <1> QED
    BY <1>5, LocalStep


(* A capsule is sealed: to the pinned key and under a fresh id, by a run   *)
(* that takes the lock or by an export that does not.                      *)
LEMMA SealStep ==
  ASSUME Inv, NEW a \in Actors, Seal(a) \/ SealExport(a)
  PROVE  Inv'
  <1> USE Carried DEF Row
  <1> DEFINE sealed   == [Idle EXCEPT !.pc = "destination", !.key = pin, !.item = nextRun]
             exported == [Idle EXCEPT !.pc = "audit", !.row = Row("export", nextRun)]
  <1>0. /\ req[a].pc = "idle" /\ running # a /\ pin \in Keys /\ nextRun \in Items
        /\ nextRun' \in Nat \ {0}
        /\ UNCHANGED <<pin, pairing, interval, capsules, audit, lost>>
        /\ \/ req' = [req EXCEPT ![a] = sealed] /\ running = None /\ running' = a
           \/ req' = [req EXCEPT ![a] = exported] /\ running' = running
    BY BackupAssumption DEF Seal, SealExport, At, Become, InRun, Shared, Items
  <1>1. /\ sealed \in Slots /\ sealed.pc = "destination" /\ sealed.key = pin
        /\ sealed.item = nextRun
        /\ exported \in Slots /\ exported.pc = "audit" /\ exported.row.action = "export"
    BY <1>0 DEF Slots, Rows, Idle, Failure, Kept, InRun, Shared
  <1> HIDE DEF sealed, exported
  <1>2. req'[a] \in {sealed, exported} /\ req' = [req EXCEPT ![a] = req'[a]]
    BY <1>0
  <1>3. Slot(req'[a], pin)
    BY <1>0, <1>1, <1>2 DEF Slot, InRun
  <1>4. /\ \/ running' = running /\ req'[a].pc \notin InRun
           \/ running = None /\ running' = a /\ req'[a].pc \in InRun
        /\ req[a].pc \notin InRun
    BY <1>0, <1>1, <1>2 DEF InRun
  <1>5. ~PinDue(req[a], pin) /\ (\A id \in Items : ~RunDue(req[a], id))
    BY <1>0 DEF PinDue, RunDue
  <1> QED
    BY <1>0, <1>2, <1>3, <1>4, <1>5, MovesOn DEF Shared

(* The destination of a run is a server whose key is the pinned one; no    *)
(* capsule has been uploaded before the destination is known.              *)
LEMMA LoadPairingStep ==
  ASSUME Inv, NEW a \in Actors, LoadPairing(a)
  PROVE  Inv'
  <1> USE Carried DEF Row
  <1> DEFINE r == req[a]
             uploads == [r EXCEPT !.pc = "deposit", !.url = pairing]
             local   == [r EXCEPT !.pc = "audit", !.url = None, !.row = Row("run", r.item)]
             nowhere == [r EXCEPT !.pc = "audit", !.url = None, !.row = Failure]
  <1>0. /\ r \in Slots /\ r.pc = "destination" /\ running = a
        /\ r.key \in Keys /\ r.key = pin /\ r.item \in Items
        /\ UNCHANGED <<pin, pairing, interval, capsules, audit, nextRun, lost>>
        /\ \/ /\ pairing \in Urls /\ pin = KeyOf[pairing]
              /\ req' = [req EXCEPT ![a] = uploads] /\ running' = running
           \/ /\ \/ req' = [req EXCEPT ![a] = local]
                 \/ req' = [req EXCEPT ![a] = nowhere]
                 \/ req' = [req EXCEPT ![a] = Idle]
              /\ running' = None
    BY DEF LoadPairing, Slot, At, Become, Record, InRun, Shared, SealedForDestination
  <1>1. /\ pairing \in Urls => uploads \in Slots
        /\ uploads.pc = "deposit" /\ uploads.url = pairing
        /\ uploads.key = r.key /\ uploads.item = r.item
        /\ local \in Slots /\ local.pc = "audit" /\ local.row.action = "run"
        /\ nowhere \in Slots /\ nowhere.pc = "audit" /\ nowhere.row.action = "failure"
        /\ Idle \in Slots /\ Idle.pc = "idle"
    <2>1. Row("run", r.item) \in Rows /\ Failure \in Rows
      BY <1>0, RunRow DEF Failure, Rows
    <2>2. /\ local \in Slots /\ local.pc = "audit" /\ local.row = Row("run", r.item)
          /\ nowhere \in Slots /\ nowhere.pc = "audit" /\ nowhere.row = Failure
      BY <1>0, <2>1, Recorded
    <2>3. /\ pairing \in Urls => uploads \in Slots
          /\ uploads.pc = "deposit" /\ uploads.url = pairing
          /\ uploads.key = r.key /\ uploads.item = r.item
      BY <1>0 DEF Slots, InRun
    <2>4. Idle \in Slots /\ Idle.pc = "idle"
      BY DEF Idle, Slots, Rows, Failure
    <2> QED
      BY <2>2, <2>3, <2>4 DEF Failure
  <1> HIDE DEF uploads, local, nowhere
  <1>2. req' = [req EXCEPT ![a] = req'[a]]
    BY <1>0
  <1>3. Slot(req'[a], pin)
    BY <1>0, <1>1 DEF Slot, InRun
  <1>4. /\ r.pc \in InRun
        /\ \/ running' = running /\ req'[a].pc \in InRun
           \/ running = a /\ running' = None /\ req'[a].pc \notin InRun
    BY <1>0, <1>1 DEF InRun
  <1>5. ~PinDue(r, pin) /\ (\A id \in Items : ~RunDue(r, id))
    BY <1>0 DEF PinDue, RunDue
  <1> QED
    BY <1>0, <1>2, <1>3, <1>4, <1>5, MovesOn DEF Shared

(* A capsule reaches a server only from a run whose row is due from then   *)
(* on: after the receipt, or at once if no answer came.                    *)
LEMMA DepositStep ==
  ASSUME Inv, NEW a \in Actors, Deposit(a)
  PROVE  Inv'
  <1> USE Carried DEF Row
  <1> DEFINE r == req[a]
             answered == [r EXCEPT !.pc = "receipt"]
             failed   == [r EXCEPT !.pc = "audit", !.url = None, !.row = Row("run", r.item)]
             capsule  == [id |-> r.item, at |-> r.url, key |-> r.key]
  <1>0. /\ r \in Slots /\ r.pc = "deposit" /\ running = a
        /\ r.key \in Keys /\ r.key = pin /\ r.item \in Items
        /\ r.url \in Urls /\ r.key = KeyOf[r.url]
        /\ capsules' \in {capsules, capsules \cup {capsule}}
        /\ UNCHANGED <<pin, pairing, interval, audit, nextRun, lost>>
        /\ \/ req' = [req EXCEPT ![a] = answered] /\ running' = running
           \/ req' = [req EXCEPT ![a] = failed] /\ running' = None
    BY DEF Deposit, Upload, Slot, At, Become, Goto, Record, InRun
  <1>1. /\ answered \in Slots /\ answered.pc = "receipt"
        /\ answered.key = r.key /\ answered.item = r.item
        /\ failed \in Slots /\ failed.pc = "audit" /\ failed.row = Row("run", r.item)
        /\ failed.item = r.item
        /\ capsule \in [id: Items, at: Urls, key: Keys]
        /\ capsule.id = r.item /\ capsule.at = r.url /\ capsule.key = r.key
    <2>1. /\ answered \in Slots /\ answered.pc = "receipt"
          /\ answered.key = r.key /\ answered.item = r.item
      BY <1>0 DEF Slots, InRun
    <2>2. /\ failed \in Slots /\ failed.pc = "audit" /\ failed.row = Row("run", r.item)
          /\ failed.item = r.item
      <3> DEFINE w == Row("run", r.item)
      <3>1. w \in Rows
        BY <1>0, RunRow
      <3> HIDE DEF w
      <3>2. LET q == [r EXCEPT !.pc = "audit", !.url = None, !.row = w] IN
            q \in Slots /\ q.pc = "audit" /\ q.row = w /\ q.item = r.item
        <4> HIDE DEF r
        <4> QED
          BY <1>0, <3>1 DEF Slots
      <3> QED
        BY <3>2 DEF w
    <2> QED
      BY <1>0, <2>1, <2>2
  <1> HIDE DEF answered, failed, capsule
  <1>2. /\ req' = [req EXCEPT ![a] = req'[a]]
        /\ req'[a] \in {answered, failed}
    BY <1>0
  <1>3. Slot(req'[a], pin') /\ RunDue(req'[a], r.item)
    <2>1. CASE req'[a] = answered
      BY <1>0, <1>1, <2>1 DEF Slot, InRun, RunDue
    <2>2. CASE req'[a] = failed
      <3>1. failed.row.action = "run"
        BY <1>1
      <3> QED
        BY <1>1, <2>2, <3>1 DEF Slot, InRun, RunDue
    <2> QED
      BY <1>2, <2>1, <2>2
  <1>4. /\ r.pc \in InRun
        /\ \/ running' = running /\ req'[a].pc \in InRun
           \/ running = a /\ running' = None /\ req'[a].pc \notin InRun
    BY <1>0, <1>1 DEF InRun
  <1>5. ~PinDue(r, pin) /\ (\A id \in Items : ~RunDue(r, id))
    BY <1>0 DEF PinDue, RunDue
  <1>6. \A c \in capsules' : c \in capsules \/ c = capsule
    BY <1>0
  <1>7. Local(a)
    BY <1>0, <1>1, <1>2, <1>3, <1>4, <1>5, <1>6 DEF Local, Trail, Shared
  <1> QED
    BY <1>7, LocalStep

(* The run ends with its row due, whether the receipt was written or not.  *)
LEMMA StoreReceiptStep ==
  ASSUME Inv, NEW a \in Actors, StoreReceipt(a)
  PROVE  Inv'
  <1> USE Carried DEF Row
  <1> DEFINE r == req[a]
             done == [r EXCEPT !.pc = "audit", !.url = None, !.row = Row("run", r.item)]
  <1>0. /\ r \in Slots /\ r.pc = "receipt" /\ running = a /\ r.item \in Items
        /\ UNCHANGED <<pin, pairing, interval, capsules, audit, nextRun, lost>>
        /\ req' = [req EXCEPT ![a] = done] /\ running' = None
    BY DEF StoreReceipt, Slot, At, Become, Record, InRun
  <1>1. /\ done \in Slots /\ done.pc = "audit" /\ done.row = Row("run", r.item)
        /\ done.item = r.item /\ req'[a] = done
    BY <1>0, RunRow, Recorded
  <1> HIDE DEF done
  <1>2. Slot(req'[a], pin) /\ req'[a].pc \notin InRun
    BY <1>1 DEF Slot, InRun
  <1>3. ~PinDue(r, pin) /\ (\A id \in Items : RunDue(r, id) => RunDue(req'[a], id))
    BY <1>0, <1>1 DEF PinDue, RunDue
  <1> QED
    BY <1>0, <1>1, <1>2, <1>3, MovesOn DEF Shared


(* The row is written or refused; either way it is accounted for.          *)
LEMMA AuditStep ==
  ASSUME Inv, NEW a \in Actors, WriteAudit(a) \/ AuditFails(a)
  PROVE  Inv'
  <1> USE Carried
  <1> DEFINE r == req[a]
             sends == [r EXCEPT !.pc = "send"]
  <1>0. /\ r \in Slots /\ r.pc = "audit" /\ running # a
        /\ UNCHANGED <<pin, pairing, interval, capsules, nextRun, running>>
        /\ \/ r.row.action = "export" /\ req' = [req EXCEPT ![a] = sends]
           \/ r.row.action # "export" /\ req' = [req EXCEPT ![a] = Idle]
    BY DEF WriteAudit, AuditFails, AfterAudit, Slot, At, Become, Goto, InRun
  <1>1. Trail \subseteq Trail' /\ (r.row.action \in Kept => r.row \in Trail')
    BY DEF WriteAudit, AuditFails, Trail
  <1>2. /\ sends \in Slots /\ sends.pc = "send" /\ sends.row = r.row
        /\ Idle \in Slots /\ Idle.pc = "idle"
    BY <1>0 DEF Slots, Idle, Rows, Failure, Row
  <1> HIDE DEF sends
  <1>3. req' = [req EXCEPT ![a] = req'[a]] /\ req'[a].pc \notin InRun /\ r.pc \notin InRun
    BY <1>0, <1>2 DEF InRun
  <1>4. Slot(req'[a], pin')
    BY <1>0, <1>1, <1>2 DEF Slot, InRun, Kept
  <1>5. PinDue(r, pin) => Row("pin", pin) \in Trail'
    BY <1>0, <1>1 DEF PinDue, Row, Kept
  <1>6. \A id \in Items : RunDue(r, id) => Row("run", id) \in Trail'
    BY <1>0, <1>1 DEF RunDue, Row, Kept
  <1>7. Local(a)
    BY <1>0, <1>1, <1>3, <1>4, <1>5, <1>6 DEF Local, Shared
  <1> QED
    BY <1>7, LocalStep

(* A capsule that is handed out is of no concern to the other tables.      *)
LEMMA SendExportStep ==
  ASSUME Inv, NEW a \in Actors, SendExport(a)
  PROVE  Inv'
  <1> USE Carried
  <1> DEFINE r == req[a]
  <1>0. /\ r \in Slots /\ r.pc = "send" /\ running # a /\ req' = [req EXCEPT ![a] = Idle]
        /\ UNCHANGED <<pin, pairing, interval, capsules, audit, nextRun, running, lost>>
    BY DEF SendExport, Slot, At, Become, InRun
  <1>1. Idle \in Slots /\ Idle.pc = "idle" /\ req'[a] = Idle
    BY <1>0 DEF Slots, Idle, Rows, Failure, Row
  <1>2. Slot(req'[a], pin') /\ req'[a].pc \notin InRun /\ r.pc \notin InRun
    BY <1>0, <1>1 DEF Slot, InRun
  <1>3. ~PinDue(r, pin) /\ (\A id \in Items : ~RunDue(r, id))
    BY <1>0 DEF PinDue, RunDue
  <1>4. Local(a)
    BY <1>0, <1>1, <1>2, <1>3 DEF Local, Trail, Shared
  <1> QED
    BY <1>4, LocalStep

(* A dropped connection is felt only by handlers that owe no row.          *)
LEMMA DisconnectStep ==
  ASSUME Inv, NEW a \in Actors, Disconnect(a)
  PROVE  Inv'
  <1> USE Carried
  <1> DEFINE r == req[a]
             sends == [r EXCEPT !.pc = "send"]
  <1>0. /\ r \in Slots /\ r.pc \notin InRun \cup {"store_pairing"} /\ running # a
        /\ r.pc = "audit" => r.row.action \in {"unpair", "schedule", "export"}
        /\ req' = [req EXCEPT ![a] = sends] \/ req' = [req EXCEPT ![a] = Idle]
        /\ UNCHANGED <<pin, pairing, interval, capsules, audit, nextRun, running, lost>>
    BY DEF Disconnect, Detached, AfterAudit, At, Become, Goto, InRun, Slot
  <1>1. /\ sends \in Slots /\ sends.pc = "send"
        /\ Idle \in Slots /\ Idle.pc = "idle"
    BY <1>0 DEF Slots, Idle, Rows, Failure, Row
  <1> HIDE DEF sends
  <1>2. req' = [req EXCEPT ![a] = req'[a]] /\ req'[a] \in {sends, Idle}
    BY <1>0
  <1>3. Slot(req'[a], pin) /\ req'[a].pc \notin InRun
    BY <1>1, <1>2 DEF Slot, InRun
  <1>4. ~PinDue(r, pin) /\ (\A id \in Items : ~RunDue(r, id))
    BY <1>0 DEF PinDue, RunDue, Row, InRun
  <1> QED
    BY <1>0, <1>2, <1>3, <1>4, MovesOn DEF Shared

(* A crash loses the rows that were due, and lost remembers them.          *)
LEMMA CrashStep ==
  ASSUME Inv, NEW process \in SUBSET Actors, Crash(process)
  PROVE  Inv'
  <1> USE DEF Inv
  <1>0. /\ lost = {} /\ lost' = UNION {InFlight(a) : a \in process}
        /\ req' = [a \in Actors |-> IF a \in process THEN Idle ELSE req[a]]
        /\ running' = IF running \in process THEN None ELSE running
        /\ UNCHANGED <<pin, pairing, interval, capsules, audit, nextRun>>
    BY DEF Crash
  <1>1. Trail \subseteq Trail'
    BY <1>0 DEF Trail
  <1>2. Idle \in Slots /\ Idle.pc = "idle"
    BY DEF Slots, Idle, Rows, Failure, Row
  <1>3. /\ DOMAIN req' = Actors
        /\ \A a \in Actors : req'[a] = IF a \in process THEN Idle ELSE req[a]
    BY <1>0
  <1>4. Shared' /\ SealedForDestination'
    BY <1>0 DEF Shared, SealedForDestination
  <1>5. Handlers'
    <2> SUFFICES ASSUME NEW a \in Actors PROVE Slot(req'[a], pin')
      BY <1>3 DEF Handlers
    <2>1. CASE a \in process
      BY <1>2, <1>3, <2>1 DEF Slot, InRun
    <2>2. CASE a \notin process
      BY <1>0, <1>1, <1>3, <2>2, SlotStable DEF Handlers
    <2> QED
      BY <2>1, <2>2
  <1>6. Lock'
    BY <1>0, <1>2, <1>3, BackupAssumption DEF Lock, InRun
  <1>7. PinOwed'
    <2> SUFFICES ASSUME NEW a \in process, PinDue(req[a], pin), pin # None
                 PROVE  Row("pin", pin) \in Trail'
      BY <1>0, <1>1, <1>3 DEF PinOwed
    <2>1. Row("pin", pin) \in InFlight(a)
      BY DEF InFlight, PinDue, Row
    <2> QED
      BY <1>0, <2>1 DEF Trail
  <1>8. RunsOwed'
    <2> SUFFICES ASSUME NEW c \in capsules, NEW a \in process, RunDue(req[a], c.id)
                 PROVE  Row("run", c.id) \in Trail'
      BY <1>0, <1>1, <1>3 DEF RunsOwed
    <2>1. c.id # None
      BY BackupAssumption DEF Shared, Items
    <2>2. Row("run", c.id) \in InFlight(a)
      BY <2>1 DEF InFlight, RunDue, Row
    <2> QED
      BY <1>0, <2>2 DEF Trail
  <1> QED
    BY <1>4, <1>5, <1>6, <1>7, <1>8

----------------------------------------------------------------------------
(* At start nothing is pinned, paired, uploaded or sent.                   *)
LEMMA InvInit == Init => Inv
  <1> SUFFICES ASSUME Init PROVE Inv
    OBVIOUS
  <1>1. Idle \in Slots /\ Idle.pc = "idle"
    BY DEF Slots, Idle, Rows, Failure, Row
  <1>2. Shared /\ SealedForDestination /\ PinOwed /\ RunsOwed
    BY BackupAssumption DEF Init, Shared, SealedForDestination, PinOwed, RunsOwed
  <1>3. \A a \in Actors : req[a] = Idle
    BY DEF Init
  <1>4. Handlers
    BY <1>1, <1>3 DEF Init, Handlers, Slot, InRun
  <1>5. Lock
    BY <1>1, <1>3, BackupAssumption DEF Init, Lock, InRun
  <1> QED
    BY <1>2, <1>4, <1>5 DEF Inv

(* Every step keeps the invariant.                                         *)
LEMMA InvStep == Inv /\ [Next]_vars => Inv'
  <1> SUFFICES ASSUME Inv, [Next]_vars PROVE Inv'
    OBVIOUS
  <1>1. ASSUME NEW a \in Admins, Administer(a) PROVE Inv'
    <2>1. a \in Actors
      BY DEF Actors
    <2> QED
      BY <1>1, <2>1, BeginStep, PinStep, StorePairingStep, SettingsStep, SealStep,
         SendExportStep, DisconnectStep DEF Administer
  <1>2. ASSUME NEW a \in Actors, Run(a) PROVE Inv'
    BY <1>2, SealStep, BeginStep, LoadPairingStep, DepositStep, StoreReceiptStep,
       AuditStep DEF Run
  <1>3. CASE Crash(Admins \cup {Scheduler}) \/ Crash({CLI})
    BY <1>3, CrashStep DEF Actors
  <1>4. CASE UNCHANGED vars
    BY <1>4 DEF vars, Inv, Shared, Handlers, Lock, SealedForDestination, PinOwed, RunsOwed,
       Trail
  <1> QED
    BY <1>1, <1>2, <1>3, <1>4 DEF Next

(* The inductive invariant holds in every reachable state.                 *)
THEOREM BackupInv == Spec => []Inv
  BY InvInit, InvStep, PTL DEF Spec

(* The tables keep their types, and whichever of the administrators, the   *)
(* scheduler and the deposit command is inside a run holds the run lock.   *)
THEOREM BackupTypes == Spec => []TypeOK
  <1>1. Inv => TypeOK
    BY DEF Inv, TypeOK, Shared, Lock, InRun, Items
  <1> QED
    BY <1>1, BackupInv, PTL

(* However pairings, pins, unpairings and runs race, a stored pairing is   *)
(* one whose server holds the pinned key, and every capsule KyRecovery     *)
(* took is sealed to the key of the server that has it.                    *)
THEOREM DestinationSealed == Spec => []SealedForDestination
  <1>1. Inv => SealedForDestination
    BY DEF Inv
  <1> QED
    BY <1>1, BackupInv, PTL

(* Once the handlers are done, the write-once pin is in the audit trail or *)
(* its row was refused or died with the process.                           *)
THEOREM PinIsAudited == Spec => []PinAudited
  <1>1. Inv => PinAudited
    BY DEF Inv, PinAudited, PinOwed, PinDue, At, Trail
  <1> QED
    BY <1>1, BackupInv, PTL

(* No capsule is at KyRecovery without its run under way, in the audit     *)
(* trail, or among the rows a refusal or a crash lost.                     *)
THEOREM DepositsAreAudited == Spec => []DepositsAudited
  <1>1. Inv => DepositsAudited
    BY DEF Inv, DepositsAudited, RunsOwed, RunDue, Trail
  <1> QED
    BY <1>1, BackupInv, PTL

(* The pin is write-once: no step of any actor changes or removes it.      *)
THEOREM PinWrittenOnce == Spec => [][pin # None => pin' = pin]_vars
  <1>1. Inv /\ [Next]_vars => [pin # None => pin' = pin]_vars
    <2> SUFFICES ASSUME Inv, Next, pin # None PROVE pin' = pin
      BY DEF vars
    <2>1. ASSUME NEW a \in Admins, Administer(a) PROVE pin' = pin
      BY <2>1 DEF Administer, ClaimPairing, ParsePinRequest, PinPaired, PinByHand,
         StoreRecoveryKey, SaveFailed, StorePairing, ReadTarget, ClearPairing, SetInterval,
         ReadBack, SealExport, SendExport, Disconnect
    <2>2. ASSUME NEW a \in Actors, Run(a) PROVE pin' = pin
      BY <2>2 DEF Run, Seal, RefuseRun, LoadPairing, Deposit, StoreReceipt, WriteAudit,
         AuditFails
    <2> QED
      BY <2>1, <2>2 DEF Next, Crash
  <1> QED
    BY <1>1, BackupInv, PTL DEF Spec

=============================================================================
