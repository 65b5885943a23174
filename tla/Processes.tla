----------------------------- MODULE Processes ------------------------------
(***************************************************************************)
(* The processes of one data directory beyond opening the store: restore   *)
(* drills, which the server runs for administrators, several at a time if  *)
(* they like, and the backup-drill command runs beside it.                 *)
(*                                                                         *)
(* All drills unpack into one directory, so each takes an advisory lock on *)
(* a file.  Such a lock belongs to an open descriptor and to the inode,    *)
(* not to the name of the file.                                            *)
(***************************************************************************)
EXTENDS Migrations, FiniteSets

CONSTANTS
  Drills,    \* drills that may be asked for
  Owner,     \* the process each of them runs in
  MaxInodes  \* bound: inodes drill.lock may have had

ASSUME ProcessesAssumption ==
  Owner \in [Drills -> Procs] /\ MaxInodes \in Nat \ {0}

VARIABLES
  lockfile,  \* the inode of drill.lock, 0 if there is none
  inodes,    \* inodes made so far
  drill,     \* each drill: its step, and the inode it has open
  verdict    \* of the last drill that finished

drillVars == <<lockfile, inodes, drill, verdict>>

NoDrill == [pc |-> "idle", fd |-> 0]

----------------------------------------------------------------------------
(* What a drill verifies.  Of the files of a capsule the three every       *)
(* instance has matter, and any other one.  A file comes out of the        *)
(* capsule sound, damaged, or empty or not at all.                         *)
Files    == {"db", "settings", "encryption.key", "other"}
Required == {"db", "settings", "encryption.key"}

(* The lists of the recipe; an empty one is malformed.                     *)
Recipe == [required: SUBSET Files, sqlite: SUBSET {"db", "other"},
           env: BOOLEAN, integrity: BOOLEAN]

(* Mutant of RecipeValid: the recipe need not name what else there is.     *)
RecipeValidNoMembers(r, members) ==
  /\ r.sqlite # {} /\ r.env /\ r.integrity
  /\ Required \subseteq r.required /\ "db" \in r.sqlite
  /\ r.required \cup r.sqlite \subseteq members

(* A recipe is refused unless it names every required file, every member   *)
(* of the capsule and nothing that is not a member.                        *)
RecipeValid(r, members) ==
  /\ r.sqlite # {} /\ r.env /\ r.integrity
  /\ Required \subseteq r.required /\ "db" \in r.sqlite
  /\ members \subseteq r.required
  /\ r.required \cup r.sqlite \subseteq members

(* Checks: files are there and not empty, databases are sound, and the     *)
(* environment is set.                                                     *)
Checks(r, opened, envSet) ==
  /\ RecipeValid(r, DOMAIN opened)
  /\ \A f \in r.required : opened[f] # "missing"
  /\ \A f \in r.sqlite : opened[f] = "sound"
  /\ envSet

Opened == UNION {[members -> {"sound", "damaged", "missing"}] : members \in SUBSET Files}

Restorable(opened) ==
  /\ Required \subseteq DOMAIN opened
  /\ opened["db"] = "sound"
  /\ \A f \in DOMAIN opened : opened[f] # "missing"

(* What may come of a drill: whether it passed, and whether it should.     *)
Verdicts == {[passed |-> Checks(r, opened, envSet), restorable |-> Restorable(opened)] :
               r \in Recipe, opened \in Opened, envSet \in BOOLEAN}

----------------------------------------------------------------------------
ProcessesInit ==
  /\ Init
  /\ lockfile = 0 /\ inodes = 0
  /\ drill = [d \in Drills |-> NoDrill]
  /\ verdict = [passed |-> FALSE, restorable |-> FALSE]

InDrill(d, step)   == drill[d].pc = step
ResumeDrill(d, r)  == drill' = [drill EXCEPT ![d] = r]
Holder(inode)      == {d \in Drills : InDrill(d, "running") /\ drill[d].fd = inode}

(* os.OpenFile with O_CREATE.                                              *)
OpenLock(d) ==
  /\ InDrill(d, "idle") /\ At(Owner[d], "open")
  /\ IF lockfile = 0
       THEN inodes < MaxInodes /\ inodes' = inodes + 1 /\ lockfile' = inodes + 1
       ELSE UNCHANGED <<lockfile, inodes>>
  /\ ResumeDrill(d, [pc |-> "opened", fd |-> lockfile'])
  /\ UNCHANGED <<vars, verdict>>

(* flock does not wait: ErrDrillBusy if another descriptor has the lock.   *)
Flock(d) ==
  /\ InDrill(d, "opened")
  /\ ResumeDrill(d, IF Holder(drill[d].fd) = {} THEN [drill[d] EXCEPT !.pc = "running"]
                                                ELSE NoDrill)
  /\ UNCHANGED <<vars, lockfile, inodes, verdict>>

(* Mutant of CloseLock: the file is removed when it is not needed.         *)
CloseLockRemoves(d) == ResumeDrill(d, NoDrill) /\ lockfile' = 0

(* Closing the descriptor releases the lock and leaves the file.           *)
CloseLock(d) == ResumeDrill(d, NoDrill) /\ UNCHANGED lockfile

FinishDrill(d) ==
  /\ InDrill(d, "running")
  /\ verdict' \in Verdicts
  /\ CloseLock(d)
  /\ UNCHANGED <<vars, inodes>>

(* The drill fails, or the administrator hangs up: no verdict.             *)
AbortDrill(d) ==
  /\ InDrill(d, "running")
  /\ CloseLock(d)
  /\ UNCHANGED <<vars, inodes, verdict>>

(* A process that ends closes every descriptor it had.                     *)
ExitProcess(p) ==
  /\ Exit(p)
  /\ drill' = [d \in Drills |-> IF Owner[d] = p THEN NoDrill ELSE drill[d]]
  /\ UNCHANGED <<lockfile, inodes, verdict>>

Drill(d) == OpenLock(d) \/ Flock(d) \/ FinishDrill(d) \/ AbortDrill(d)

ProcessesNext ==
  \/ \E p \in Procs : \/ (Start(p) \/ Migrate(p)) /\ UNCHANGED drillVars
                      \/ ExitProcess(p)
  \/ \E d \in Drills : Drill(d)

processVars == <<vars, drillVars>>

(* The fairness of Migrations.                                             *)
ProcessesSpec ==
  /\ ProcessesInit /\ [][ProcessesNext]_processVars
  /\ \A p \in Procs : SF_vars(Migrate(p))

----------------------------------------------------------------------------
(* RunDrill "serializes HTTP and CLI drills sharing a data directory": of  *)
(* all drills of all processes, any of which may be killed with the lock,  *)
(* one at most is unpacking.                                               *)
OneDrill == Cardinality({d \in Drills : InDrill(d, "running")}) <= 1

(* RESTORE.md: a malformed recipe fails the drill.  A drill that passed    *)
(* vouches for the whole capsule, the members no recipe is told to look at *)
(* and the database included, whatever the recipe in it says.              *)
PassedIsRestorable == verdict.passed => verdict.restorable

=============================================================================
