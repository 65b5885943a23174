------------------------------- MODULE Backup -------------------------------
(***************************************************************************)
(* Pairing with KyRecovery, the recovery key pin, deposits, the schedule   *)
(* and the audit trail they leave.  Admin requests, the scheduler and the  *)
(* deposit command run side by side, one effect at a time.  KyRecovery and *)
(* the recoveryclient library are external: each of its calls is one step, *)
(* with the outcomes the handlers tell apart.                              *)
(***************************************************************************)
EXTENDS Naturals, FiniteSets

CONSTANTS
  Admins,     \* request slots of administrators
  Urls,       \* KyRecovery servers
  Keys,       \* suite recovery keys
  KeyOf,      \* the key a KyRecovery server hands out
  Intervals,  \* schedules, 0 is off
  None,       \* no key, no pairing, no value
  MaxRuns     \* bound: capsules made by a behaviour

Scheduler == "system"
CLI       == "cli"
Actors    == Admins \cup {Scheduler, CLI}

ASSUME BackupAssumption ==
  /\ KeyOf \in [Urls -> Keys] /\ Intervals \subseteq Nat /\ 0 \in Intervals
  /\ None \notin Keys \cup Urls \cup Nat \cup Actors
  /\ MaxRuns \in Nat

VARIABLES
  pin,       \* the recovery key pinned on disk and in settings
  pairing,   \* the KyRecovery server whose url and token are in settings
  interval,  \* the stored schedule
  capsules,  \* what KyRecovery servers hold
  audit,     \* audit rows of backup events
  nextRun,   \* the next capsule id
  running,   \* who holds the run lock of the data directory
  lost,      \* history: audit rows refused, or due when a process died
  req        \* program counter and locals of each actor

vars == <<pin, pairing, interval, capsules, audit, nextRun, running, lost, req>>

(* An audit row: a pin and its key, a run (done or failed) and its         *)
(* capsule, a schedule, an export, an unpairing, or a refusal.  Pins and   *)
(* runs are kept: the properties ask what the trail says of those.         *)
Row(action, item) == [action |-> action, item |-> item]
Failure == Row("failure", None)
Kept    == {"pin", "run"}
Idle == [pc |-> "idle", url |-> None, key |-> None, item |-> None,
         row |-> Failure]

Init ==
  /\ pin = None /\ pairing = None
  /\ interval \in Intervals
  /\ capsules = {} /\ audit = {}
  /\ nextRun = 1 /\ running = None /\ lost = {}
  /\ req = [a \in Actors |-> Idle]

At(a, step)   == req[a].pc = step
Become(a, r)  == req' = [req EXCEPT ![a] = r]
Goto(a, step) == Become(a, [req[a] EXCEPT !.pc = step])
(* Go on to the audit row that ends the handler.                           *)
Record(a, row) == Become(a, [req[a] EXCEPT !.pc = "audit", !.url = None, !.row = row])

----------------------------------------------------------------------------
(* Pairing and pinning.                                                    *)

(* The code is claimed; the server hands back its key and a token.         *)
ClaimPairing(a, url) ==
  /\ At(a, "idle")
  /\ \/ Become(a, [Idle EXCEPT !.pc = "pin_pair", !.url = url, !.key = KeyOf[url]])
     \/ Become(a, [Idle EXCEPT !.pc = "audit", !.row = Failure])
  /\ UNCHANGED <<pin, pairing, interval, capsules, audit, nextRun, running, lost>>

ParsePinRequest(a, key) ==
  /\ At(a, "idle")
  /\ Become(a, [Idle EXCEPT !.pc = "pin_hand", !.key = key])
  /\ UNCHANGED <<pin, pairing, interval, capsules, audit, nextRun, running, lost>>

(* External, write-once: the same key again is accepted, another refused.  *)
StoreRecoveryKey(key) == pin \in {None, key} /\ pin' = key

(* The key could not be saved: nothing is pinned and nothing audited.      *)
SaveFailed(a) == Become(a, Idle) /\ UNCHANGED pin

(* Mutant of PinPaired: a key that differs from the pin does not stop it.  *)
PinPairedRegardless(a) ==
  /\ At(a, "pin_pair")
  /\ pin' = IF pin = None THEN req[a].key ELSE pin
  /\ Goto(a, "store_pairing")
  /\ UNCHANGED <<pairing, interval, capsules, audit, nextRun, running, lost>>

(* NewSealer, called next, fails only on a deployment key of the wrong     *)
(* length, which config never loads.                                       *)
PinPaired(a) ==
  /\ At(a, "pin_pair")
  /\ \/ StoreRecoveryKey(req[a].key) /\ Goto(a, "store_pairing")
     \/ /\ pin \notin {None, req[a].key}
        /\ Record(a, Failure)
        /\ UNCHANGED pin
     \/ SaveFailed(a)
  /\ UNCHANGED <<pairing, interval, capsules, audit, nextRun, running, lost>>

PinByHand(a) ==
  /\ At(a, "pin_hand")
  /\ \/ StoreRecoveryKey(req[a].key) /\ Record(a, Row("pin", req[a].key))
     \/ /\ pin \notin {None, req[a].key}
        /\ Record(a, Failure)
        /\ UNCHANGED pin
     \/ SaveFailed(a)
  /\ UNCHANGED <<pairing, interval, capsules, audit, nextRun, running, lost>>

(* Mutant of StorePairing: the failure is answered but not audited.        *)
StorePairingUnaudited(a) ==
  /\ At(a, "store_pairing")
  /\ \/ pairing' = req[a].url /\ Record(a, Row("pin", req[a].key))
     \/ pairing' = pairing /\ Become(a, Idle)
  /\ UNCHANGED <<pin, interval, capsules, audit, nextRun, running, lost>>

(* Both outcomes are audited: the pin outlives a pairing that is not       *)
(* stored.                                                                 *)
StorePairing(a) ==
  /\ At(a, "store_pairing")
  /\ \/ pairing' = req[a].url /\ Record(a, Row("pin", req[a].key))
     \/ pairing' = pairing /\ Record(a, Row("pin", req[a].key))
  /\ UNCHANGED <<pin, interval, capsules, audit, nextRun, running, lost>>

----------------------------------------------------------------------------
(* Unpairing and the schedule run on the context of the request.           *)

(* The audit row names the server read here, before the pairing goes.      *)
ReadTarget(a) ==
  /\ At(a, "idle")
  /\ Become(a, [Idle EXCEPT !.pc = "clear_pairing"])
  /\ UNCHANGED <<pin, pairing, interval, capsules, audit, nextRun, running, lost>>

ClearPairing(a) ==
  /\ At(a, "clear_pairing")
  /\ \/ /\ pairing # None
        /\ pairing' = None
        /\ Record(a, Row("unpair", None))
     \/ pairing = None /\ Become(a, Idle) /\ UNCHANGED pairing
     \/ pairing # None /\ Record(a, Row("unpair", None)) /\ UNCHANGED pairing
  /\ UNCHANGED <<pin, interval, capsules, audit, nextRun, running, lost>>

SetInterval(a, i) ==
  /\ At(a, "idle")
  /\ interval' = i
  /\ Become(a, [Idle EXCEPT !.pc = "read_back"])
  /\ UNCHANGED <<pin, pairing, capsules, audit, nextRun, running, lost>>

ReadBack(a) ==
  /\ At(a, "read_back")
  /\ Record(a, Row("schedule", interval))
  /\ UNCHANGED <<pin, pairing, interval, capsules, audit, nextRun, running, lost>>

----------------------------------------------------------------------------
(* A deposit: by an admin, by the deposit command or by the scheduler.     *)

(* The lock is taken, the key loaded and the payload collected and sealed  *)
(* to it.  A run refused here (no key, in progress, no snapshot) is        *)
(* audited by the handler and the command; the scheduler passes over an    *)
(* instance that was never configured.                                     *)
MayRun(a) == a = Scheduler => interval # 0

Seal(a) ==
  /\ At(a, "idle") /\ MayRun(a)
  /\ nextRun <= MaxRuns
  /\ pin # None /\ running = None
  /\ running' = a
  /\ nextRun' = nextRun + 1
  /\ Become(a, [Idle EXCEPT !.pc = "destination", !.key = pin, !.item = nextRun])
  /\ UNCHANGED <<pin, pairing, interval, capsules, audit, lost>>

RefuseRun(a) ==
  /\ At(a, "idle") /\ MayRun(a)
  /\ pin = None \/ running # None
  /\ a = Scheduler => pin # None
  /\ Become(a, [Idle EXCEPT !.pc = "audit", !.row = Failure])
  /\ UNCHANGED <<pin, pairing, interval, capsules, audit, nextRun, running, lost>>

(* The destination is read from the stored pairing.  Without one the       *)
(* capsule goes to the local directory or, if none is set, nowhere: that   *)
(* too the scheduler passes over.                                          *)
LoadPairing(a) ==
  /\ At(a, "destination")
  /\ \/ /\ pairing # None
        /\ Become(a, [req[a] EXCEPT !.pc = "deposit", !.url = pairing])
        /\ UNCHANGED running
     \/ /\ pairing = None
        /\ \/ Record(a, Row("run", req[a].item))
           \/ a # Scheduler /\ Record(a, Failure)
           \/ a = Scheduler /\ Become(a, Idle)
        /\ running' = None
  /\ UNCHANGED <<pin, pairing, interval, capsules, audit, nextRun, lost>>

Upload(a) == capsules' = capsules \cup
               {[id |-> req[a].item, at |-> req[a].url, key |-> req[a].key]}

(* Mutant of Deposit: a failed deposit keeps the lock.                     *)
DepositKeepsLock(a) ==
  /\ At(a, "deposit")
  /\ \/ Upload(a) /\ Goto(a, "receipt")
     \/ (Upload(a) \/ UNCHANGED capsules) /\ Record(a, Row("run", req[a].item))
  /\ UNCHANGED <<pin, pairing, interval, audit, nextRun, running, lost>>

(* KyRecovery takes the capsule and answers; or the call fails, and then   *)
(* it may have taken the capsule all the same.  The failed run is audited  *)
(* under the id of its capsule.                                            *)
Deposit(a) ==
  /\ At(a, "deposit")
  /\ \/ Upload(a) /\ Goto(a, "receipt") /\ UNCHANGED running
     \/ /\ Upload(a) \/ UNCHANGED capsules
        /\ Record(a, Row("run", req[a].item))
        /\ running' = None
  /\ UNCHANGED <<pin, pairing, interval, audit, nextRun, lost>>

(* The receipt is written, for the status page to show; if it cannot be,   *)
(* the run is audited all the same.                                        *)
StoreReceipt(a) ==
  /\ At(a, "receipt")
  /\ Record(a, Row("run", req[a].item))
  /\ running' = None
  /\ UNCHANGED <<pin, pairing, interval, capsules, audit, nextRun, lost>>

----------------------------------------------------------------------------
(* The export: a capsule sealed for whoever asks, without the run lock and *)
(* on the context of the request.  Without a key it is refused.            *)
SealExport(a) ==
  /\ At(a, "idle") /\ pin # None
  /\ nextRun <= MaxRuns
  /\ nextRun' = nextRun + 1
  /\ Become(a, [Idle EXCEPT !.pc = "audit", !.row = Row("export", nextRun)])
  /\ UNCHANGED <<pin, pairing, interval, capsules, audit, running, lost>>

(* The capsule is sent whether or not its row could be written.            *)
SendExport(a) ==
  /\ At(a, "send")
  /\ Become(a, Idle)
  /\ UNCHANGED <<pin, pairing, interval, capsules, audit, nextRun, running, lost>>

----------------------------------------------------------------------------
AfterAudit(a) ==
  IF req[a].row.action = "export" THEN Goto(a, "send") ELSE Become(a, Idle)

WriteAudit(a) ==
  /\ At(a, "audit")
  /\ audit' = audit \cup {r \in {req[a].row} : r.action \in Kept}
  /\ AfterAudit(a)
  /\ UNCHANGED <<pin, pairing, interval, capsules, nextRun, running, lost>>

(* The store refuses the row: that is logged, and the handler goes on.     *)
AuditFails(a) ==
  /\ At(a, "audit") /\ req[a].row.action \in Kept
  /\ lost = {}
  /\ lost' = {req[a].row}
  /\ AfterAudit(a)
  /\ UNCHANGED <<pin, pairing, interval, capsules, audit, nextRun, running>>

(* Steps of the handlers that run on a context detached from the request.  *)
(* ReadBack, the export and the audit rows of unpair and schedule are not. *)
Detached(a) ==
  \/ req[a].pc \in {"pin_pair", "pin_hand", "store_pairing",
                    "destination", "deposit", "receipt"}
  \/ At(a, "audit") /\ req[a].row.action \notin {"unpair", "schedule", "export"}

(* Mutant of Disconnect: no handler is detached.                           *)
DisconnectAnything(a) ==
  /\ a \in Admins
  /\ ~At(a, "idle")
  /\ Become(a, Idle)
  /\ running' = IF running = a THEN None ELSE running
  /\ UNCHANGED <<pin, pairing, interval, capsules, audit, nextRun, lost>>

(* The admin's connection drops: the next statement on the context of the  *)
(* request fails, the audit row included.  That the row was not written is *)
(* logged, and an export still sends: a client that has only closed its    *)
(* own side of the connection gets the capsule.                            *)
Disconnect(a) ==
  /\ a \in Admins
  /\ ~At(a, "idle") /\ ~Detached(a)
  /\ IF At(a, "audit") THEN AfterAudit(a) ELSE Become(a, Idle)
  /\ UNCHANGED <<pin, pairing, interval, capsules, audit, nextRun, running, lost>>

(* A process dies: the server with all its requests and the scheduler, or  *)
(* the deposit command.  The system releases its lock.  One crash or       *)
(* refused row that loses something is enough for a behaviour.             *)
InFlight(a) ==
  {r \in {IF req[a].item = None THEN Row("pin", req[a].key) ELSE Row("run", req[a].item)} :
     r.item # None}

Crash(process) ==
  /\ lost = {}
  /\ lost' = UNION {InFlight(a) : a \in process}
  /\ req' = [a \in Actors |-> IF a \in process THEN Idle ELSE req[a]]
  /\ running' = IF running \in process THEN None ELSE running
  /\ UNCHANGED <<pin, pairing, interval, capsules, audit, nextRun>>

Run(a) ==
  \/ Seal(a) \/ RefuseRun(a) \/ LoadPairing(a) \/ Deposit(a)
  \/ StoreReceipt(a) \/ WriteAudit(a) \/ AuditFails(a)

Administer(a) ==
  \/ \E url \in Urls : ClaimPairing(a, url)
  \/ \E key \in Keys : ParsePinRequest(a, key)
  \/ PinPaired(a) \/ PinByHand(a) \/ StorePairing(a)
  \/ ReadTarget(a) \/ ClearPairing(a)
  \/ \E i \in Intervals : SetInterval(a, i)
  \/ ReadBack(a) \/ SealExport(a) \/ SendExport(a) \/ Disconnect(a)

Next ==
  \/ \E a \in Admins : Administer(a)
  \/ \E a \in Actors : Run(a)
  \/ Crash(Admins \cup {Scheduler}) \/ Crash({CLI})

Spec == Init /\ [][Next]_vars

----------------------------------------------------------------------------
(* Types; the run lock is held exactly by the actor inside a run.          *)
TypeOK ==
  /\ pin \in Keys \cup {None} /\ pairing \in Urls \cup {None}
  /\ interval \in Intervals
  /\ capsules \subseteq [id: 1..MaxRuns, at: Urls, key: Keys]
  /\ \A a \in Actors :
       req[a].pc \in {"destination", "deposit", "receipt"} <=> running = a

(* A deposit credential is stored only for the KyRecovery whose key is     *)
(* pinned, so no capsule is ever held by a server whose custodians cannot  *)
(* open it: whichever of the racing pairings, pins, unpairings and runs    *)
(* got there first.                                                        *)
SealedForDestination ==
  /\ pairing # None => pin = KeyOf[pairing]
  /\ \A c \in capsules : c.key = KeyOf[c.at]

(* handlePairRemoteRecovery, handlePinKey: a write-once pin is in the      *)
(* audit trail once the handlers are done, even if the admin's connection  *)
(* dropped and even if the pairing could not be stored, unless the store   *)
(* refuses the row or the process dies before writing it.  That a save of  *)
(* the key which fails has pinned nothing is taken from the library.       *)
PinAudited ==
  (pin # None /\ \A a \in Actors : At(a, "idle")) =>
    Row("pin", pin) \in audit \cup lost

(* handleRunBackup, recordRun: a capsule at KyRecovery is accounted for on *)
(* this side: its run is still under way or is in the audit trail, even if *)
(* the admin's tab was closed or KyRecovery's answer was lost; only a      *)
(* refused row or a process that dies during the run leaves none.          *)
DepositsAudited ==
  \A c \in capsules :
    Row("run", c.id) \in audit \cup lost \/ \E a \in Actors : req[a].item = c.id

(* handleSetSchedule reads back what the store holds, so that the audit    *)
(* row never describes a schedule the scheduler will not run.              *)
ScheduleAuditTruthful ==
  [][\A a \in Admins : WriteAudit(a) /\ req[a].row.action = "schedule"
                          => req[a].row.item = interval]_vars

=============================================================================
