----------------------------- MODULE Migrations -----------------------------
(***************************************************************************)
(* migrations.Run, when several processes open one database: the server    *)
(* and its commands (init-admin, deposit, export) all do.  Whether a       *)
(* version is pending is asked outside the transaction that applies it,    *)
(* and a process may die at any step.                                      *)
(*                                                                         *)
(* The locks are the database's (external).  SQLite has one for all who    *)
(* write, and waits for it no longer than busy_timeout.  PostgreSQL's are  *)
(* taken by each statement: a CREATE or an ALTER keeps other processes     *)
(* from the same version, but the DELETE that version 4 begins with does   *)
(* not, so that two of them may come to wait for one another.              *)
(***************************************************************************)
EXTENDS Naturals, Sequences

CONSTANTS Procs

VARIABLES
  driver,    \* sqlite or postgres, for the whole behaviour
  table,     \* schema_migrations has been created
  schema,    \* versions whose statements the committed schema contains
  recorded,  \* versions in schema_migrations
  locks,     \* what the transaction of each process has locked
  proc,      \* program counter and position in registry of each process
  alone      \* history: who has had no other process opening beside it

database == <<driver, table, schema, recorded>>
vars     == <<database, locks, proc, alone>>

(* A version; on which drivers its statements may pass over a schema that  *)
(* has them already, and on which they may fail there (CREATE TABLE IF NOT *)
(* EXISTS does either on PostgreSQL, if another creates the table while it *)
(* runs); and where its first statement locks only rows.                   *)
Both == {"sqlite", "postgres"}
InitialSchema == [version |-> 1, passes |-> Both, fails |-> {"postgres"}, rows |-> {}]

Registry == <<
  InitialSchema,
  [version |-> 2, passes |-> Both, fails |-> {"postgres"}, rows |-> {}],       \* one_time_auth_challenges
  [version |-> 3, passes |-> {"postgres"}, fails |-> {"sqlite"}, rows |-> {}], \* totp_last_counter
  [version |-> 4, passes |-> {}, fails |-> Both, rows |-> {"postgres"}]>>      \* mfa_credential_snapshot

Versions == {Registry[i].version : i \in DOMAIN Registry}
Current(p) == Registry[proc[p].i]
Off == [pc |-> "off", i |-> 1]

(* A database left by any earlier build, or none.                          *)
Init ==
  /\ driver \in Both
  /\ \E v \in 0..Len(Registry) : recorded = 1..v /\ schema = 1..v
  /\ table \in BOOLEAN /\ (recorded # {} => table)
  /\ locks = [p \in Procs |-> "none"]
  /\ proc = [p \in Procs |-> Off]
  /\ alone = {}

At(p, step)   == proc[p].pc = step
Become(p, r)  == proc' = [proc EXCEPT ![p] = r]
Goto(p, step) == Become(p, [proc[p] EXCEPT !.pc = step])
Hold(p, lock) == locks' = [locks EXCEPT ![p] = lock]

(* Run returns an error and its transaction is rolled back.                *)
Fail(p) == Hold(p, "none") /\ Goto(p, "failed")

----------------------------------------------------------------------------
Opening(p) == proc[p].pc \notin {"off", "open", "failed"}

(* CREATE TABLE IF NOT EXISTS does nothing to a table that is there.       *)
Start(p) ==
  /\ At(p, "off")
  /\ Goto(p, IF table THEN "check" ELSE "create")
  /\ alone' = IF \E q \in Procs : Opening(q) THEN {} ELSE {p}
  /\ UNCHANGED <<database, locks>>

(* It fails if another process creates the table at the same time.         *)
CreateTable(p) ==
  /\ At(p, "create")
  /\ \/ table' = TRUE /\ Goto(p, "check") /\ UNCHANGED locks
     \/ /\ table \/ \E q \in Procs \ {p} : At(q, "create")
        /\ Fail(p) /\ UNCHANGED table
  /\ UNCHANGED <<driver, schema, recorded, alone>>

(* Mutant of CheckVersion: a version that is there ends the loop.          *)
CheckVersionStops(p) ==
  /\ At(p, "check")
  /\ \/ proc[p].i > Len(Registry) /\ Goto(p, "open")
     \/ /\ proc[p].i <= Len(Registry)
        /\ IF Current(p).version \in recorded THEN Goto(p, "open") ELSE Goto(p, "exec")
  /\ UNCHANGED <<database, locks, alone>>

CheckVersion(p) ==
  /\ At(p, "check")
  /\ \/ proc[p].i > Len(Registry) /\ Goto(p, "open")
     \/ /\ proc[p].i <= Len(Registry)
        /\ IF Current(p).version \in recorded
             THEN Become(p, [proc[p] EXCEPT !.i = @ + 1])
             ELSE Goto(p, "exec")
  /\ UNCHANGED <<database, locks, alone>>

(* Nobody p has to wait for holds more than these locks.                   *)
Rivals(p)      == {q \in Procs \ {p} : driver = "sqlite" \/ proc[q].i = proc[p].i}
Free(p, below) == \A q \in Rivals(p) : locks[q] \in below

(* The statements of the version run, in the transaction.                  *)
Apply(p) ==
  \/ Current(p).version \in schema /\ driver \in Current(p).fails /\ Fail(p)
  \/ /\ Current(p).version \notin schema \/ driver \in Current(p).passes
     /\ Hold(p, "all") /\ Goto(p, "record")

DeletesFirst(p) == driver \in Current(p).rows

(* Mutant of ExecDDL: the statements run on db, outside the transaction.   *)
ExecDDLAutocommit(p) ==
  /\ At(p, "exec") /\ ~DeletesFirst(p) /\ Free(p, {"none"})
  /\ Apply(p)
  /\ schema' = schema \cup {Current(p).version}
  /\ UNCHANGED <<driver, table, recorded, alone>>

ExecDDL(p) ==
  /\ At(p, "exec") /\ ~DeletesFirst(p) /\ Free(p, {"none"})
  /\ Apply(p)
  /\ UNCHANGED <<database, alone>>

(* The two statements of version 4 where the first one locks only rows.    *)
ExecDelete(p) ==
  /\ At(p, "exec") /\ DeletesFirst(p) /\ Free(p, {"none", "rows"})
  /\ Hold(p, "rows") /\ Goto(p, "alter")
  /\ UNCHANGED <<database, alone>>

ExecAlter(p) ==
  /\ At(p, "alter") /\ Free(p, {"none"})
  /\ Apply(p)
  /\ UNCHANGED <<database, alone>>

(* Each waits for the rows of the other: PostgreSQL ends one of them.      *)
DeadlockDetected(p) ==
  /\ At(p, "alter") /\ ~Free(p, {"none"})
  /\ Fail(p)
  /\ UNCHANGED <<database, alone>>

(* SQLite's busy_timeout: the wait for the other writer is not unbounded.  *)
BusyTimeout(p) ==
  /\ At(p, "exec") /\ driver = "sqlite" /\ ~Free(p, {"none"})
  /\ Fail(p)
  /\ UNCHANGED <<database, alone>>

(* Mutant of RecordVersion: the failed transaction is not rolled back.     *)
RecordVersionNoRollback(p) ==
  /\ At(p, "record")
  /\ IF Current(p).version \in recorded THEN Goto(p, "failed") ELSE Goto(p, "commit")
  /\ UNCHANGED <<database, locks, alone>>

(* The version is the primary key of schema_migrations.                    *)
RecordVersion(p) ==
  /\ At(p, "record")
  /\ \/ Current(p).version \in recorded /\ Fail(p)
     \/ Current(p).version \notin recorded /\ Goto(p, "commit") /\ UNCHANGED locks
  /\ UNCHANGED <<database, alone>>

Commit(p) ==
  /\ At(p, "commit")
  /\ schema' = schema \cup {Current(p).version}
  /\ recorded' = recorded \cup {Current(p).version}
  /\ Hold(p, "none")
  /\ Become(p, [pc |-> "check", i |-> proc[p].i + 1])
  /\ UNCHANGED <<driver, table, alone>>

(* The process ends: it failed to open the store, its work is done, or it  *)
(* was killed, and then the database rolls its transaction back.           *)
Exit(p) ==
  /\ ~At(p, "off")
  /\ Become(p, Off) /\ Hold(p, "none")
  /\ alone' = alone \ {p}
  /\ UNCHANGED database

Migrate(p) ==
  \/ CreateTable(p) \/ CheckVersion(p)
  \/ ExecDDL(p) \/ ExecDelete(p) \/ ExecAlter(p)
  \/ DeadlockDetected(p) \/ BusyTimeout(p)
  \/ RecordVersion(p) \/ Commit(p)

Next == \E p \in Procs : Start(p) \/ Migrate(p) \/ Exit(p)

(* A process that runs gets its turn, and one that waits for a lock gets   *)
(* it in the end: PostgreSQL queues lock requests and breaks deadlocks,    *)
(* SQLite's wait is bounded.  Nobody need start a process, or end one.     *)
Spec == Init /\ [][Next]_vars /\ \A p \in Procs : SF_vars(Migrate(p))

----------------------------------------------------------------------------
(* The schema and the record of it never part, and never skip a version,   *)
(* whatever process dies where.                                            *)
SchemaRecorded ==
  /\ schema = recorded
  /\ \A v \in Versions : v \in recorded => 1..v \subseteq recorded

(* A process serves only on the complete schema.                           *)
OpensComplete == \A p \in Procs : At(p, "open") => recorded = Versions

(* A process fails to open the store only in a race: if no other was       *)
(* opening it from its start to its failure, it does not fail.  So no      *)
(* crash and no lost race, a deadlock or a busy database included, leaves  *)
(* a database that cannot be opened by starting one process again.         *)
FailureIsBenign == \A p \in Procs : At(p, "failed") => p \notin alone

(* A process that starts opens the store, fails or is killed, although     *)
(* processes wait for each other's transactions, and two of them may wait  *)
(* for one another.                                                        *)
EveryStartSettles ==
  \A p \in Procs : proc[p].pc \in {"create", "check"} ~> ~Opening(p)

=============================================================================
