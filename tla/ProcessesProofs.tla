--------------------------- MODULE ProcessesProofs --------------------------
(***************************************************************************)
(* The safety properties of Migrations and Processes for any number of     *)
(* processes and drills.  The migrations need to know that the recorded    *)
(* versions are an initial segment of the registry which covers what every *)
(* process has passed, which locks go with which step, and that the locks  *)
(* keep two processes from committing the same version; the drills, that   *)
(* drill.lock is made once and that every descriptor is of that one file.  *)
(***************************************************************************)
EXTENDS Processes, FiniteSetTheorems, TLAPS

Last     == 4
Position == 1..(Last + 1)
Steps    == {"off", "create", "check", "exec", "alter", "record", "commit", "failed", "open"}
Writing  == {"record", "commit"}
Applying == {"exec", "alter", "record", "commit"}
Process  == [pc: Steps, i: Position]

(* The locks a transaction has at a step.                                  *)
LocksAt(pc) == IF pc \in Writing THEN "all" ELSE IF pc = "alter" THEN "rows" ELSE "none"

(* What a process knows at its step: every version before its position is  *)
(* there, and the version it commits is not.                               *)
Knows(r, there) ==
  /\ 1..(r.i - 1) \subseteq there
  /\ r.pc \in Applying => r.i <= Last
  /\ r.pc = "open" => r.i = Last + 1
  /\ r.pc = "commit" => r.i \notin there

(* Two processes never write the same version.                             *)
Apart ==
  \A p, q \in Procs :
    p # q /\ proc[p].pc \in Writing /\ proc[q].pc \in Writing => proc[p].i # proc[q].i

(* Nobody opens the store beside a process that is alone, so that what it  *)
(* saw of the database still holds and nothing makes it fail.              *)
Undisturbed(p) ==
  /\ \A q \in Procs \ {p} : ~Opening(q)
  /\ ~At(p, "failed")
  /\ At(p, "create") => ~table
  /\ proc[p].pc \in Applying => proc[p].i \notin recorded

MigInv ==
  /\ proc \in [Procs -> Process]
  /\ locks = [p \in Procs |-> LocksAt(proc[p].pc)]
  /\ schema = recorded /\ \E v \in 0..Last : recorded = 1..v
  /\ \A p \in Procs : Knows(proc[p], recorded)
  /\ Apart
  /\ \A p \in Procs : p \in alone => Undisturbed(p)

(* The one inode of drill.lock, and at most one drill that holds its lock. *)
DrillInv ==
  /\ inodes \in {0, 1} /\ lockfile = inodes
  /\ drill \in [Drills -> [pc: {"idle", "opened", "running"}, fd: {0, 1}]]
  /\ \A d \in Drills : ~InDrill(d, "idle") => drill[d].fd = 1 /\ lockfile = 1
  /\ \A d, e \in Drills : InDrill(d, "running") /\ InDrill(e, "running") => d = e
  /\ PassedIsRestorable

ProcessesInv == MigInv /\ DrillInv

----------------------------------------------------------------------------
(* The registry is numbered without gaps.                                  *)
LEMMA RegistryNumbered ==
  /\ Len(Registry) = Last /\ Versions = 1..Last
  /\ \A i \in 1..Last : Registry[i].version = i
  <1>1. Len(Registry) = Last /\ DOMAIN Registry = 1..Last
    BY DEF Registry, Last
  <1>2. \A i \in 1..Last : Registry[i].version = i
    <2>1. /\ Registry[1].version = 1 /\ Registry[2].version = 2
          /\ Registry[3].version = 3 /\ Registry[4].version = 4
      BY DEF Registry, InitialSchema
    <2>2. \A i \in 1..Last : i \in {1, 2, 3, 4}
      BY DEF Last
    <2> QED
      BY <2>1, <2>2
  <1> QED
    BY <1>1, <1>2 DEF Versions

(* A database left by an earlier build.                                    *)
LEMMA MigInit == Init => MigInv
  <1> SUFFICES ASSUME Init PROVE MigInv
    OBVIOUS
  <1>1. \E v \in 0..Last : recorded = 1..v /\ schema = 1..v
    BY RegistryNumbered DEF Init
  <1>2. proc \in [Procs -> Process] /\ \A p \in Procs : proc[p] = Off
    BY DEF Init, Off, Process, Steps, Position, Last
  <1>3. Off.pc = "off" /\ 1..(Off.i - 1) \subseteq recorded
    BY DEF Off
  <1>4. locks = [p \in Procs |-> LocksAt(proc[p].pc)]
    BY <1>2, <1>3 DEF Init, LocksAt, Writing
  <1>5. \A p \in Procs : Knows(proc[p], recorded)
    BY <1>2, <1>3 DEF Knows, Applying
  <1>6. Apart /\ alone = {}
    BY <1>2, <1>3 DEF Apart, Writing, Init
  <1> QED
    BY <1>1, <1>2, <1>4, <1>5, <1>6 DEF MigInv

(* A process that moves without committing: it locks and lets go as its    *)
(* step says, and starts to write a version only when nobody else does.    *)
LEMMA MoveStep ==
  ASSUME MigInv, NEW p \in Procs, NEW r \in Process,
         proc' = [proc EXCEPT ![p] = r], locks' = [locks EXCEPT ![p] = LocksAt(r.pc)],
         UNCHANGED <<schema, recorded>>, Knows(r, recorded),
         r.pc \in Writing => \/ proc[p].pc \in Writing /\ proc[p].i = r.i
                             \/ \A q \in Procs \ {p} : proc[q].pc \in Writing => proc[q].i # r.i,
         \A q \in Procs : q \in alone' => Undisturbed(q)'
  PROVE  MigInv'
  <1>0. /\ proc'[p] = r /\ \A q \in Procs : q # p => proc'[q] = proc[q]
        /\ proc' \in [Procs -> Process]
    BY DEF MigInv
  <1>1. locks' = [q \in Procs |-> LocksAt(proc'[q].pc)]
    BY <1>0 DEF MigInv
  <1>2. \A q \in Procs : Knows(proc'[q], recorded')
    BY <1>0 DEF MigInv, Knows
  <1>3. Apart'
    BY <1>0 DEF MigInv, Apart
  <1> QED
    BY <1>0, <1>1, <1>2, <1>3 DEF MigInv

(* A process that was alone and goes on is alone still; that it went on    *)
(* means that no other process is alone.                                   *)
LEMMA AloneStep ==
  ASSUME MigInv, NEW p \in Procs, Opening(p), NEW r,
         proc' = [proc EXCEPT ![p] = r], UNCHANGED alone,
         p \in alone => /\ r.pc # "failed" /\ r.pc # "create"
                        /\ r.pc \in Applying => r.i \notin recorded'
  PROVE  \A q \in Procs : q \in alone' => Undisturbed(q)'
  <1> SUFFICES ASSUME NEW q \in Procs, q \in alone PROVE Undisturbed(q)'
    OBVIOUS
  <1>1. Undisturbed(q)
    BY DEF MigInv
  <1>2. q = p
    BY <1>1 DEF Undisturbed
  <1>3. proc'[p] = r /\ \A o \in Procs : o # p => proc'[o] = proc[o]
    BY DEF MigInv
  <1> QED
    BY <1>1, <1>2, <1>3 DEF Undisturbed, Opening, At

(* Whoever locks something is opening the store.                           *)
LEMMA LockersOpen ==
  ASSUME MigInv, NEW p \in Procs, p \in alone
  PROVE  \A q \in Procs \ {p} : locks[q] = "none"
  BY DEF MigInv, Undisturbed, Opening, LocksAt, Writing

(* Every step of a process keeps the invariant.                            *)
LEMMA MigStep ==
  ASSUME MigInv, NEW p \in Procs, Start(p) \/ Migrate(p) \/ Exit(p)
  PROVE  MigInv'
  <1> DEFINE r == proc[p]
             To(s) == [r EXCEPT !.pc = s]
  <1>0. /\ r \in Process /\ Knows(r, recorded) /\ DOMAIN proc = Procs /\ DOMAIN locks = Procs
        /\ locks[p] = LocksAt(r.pc) /\ schema = recorded /\ r.i \in Position
        /\ p \in alone => Undisturbed(p)
    BY DEF MigInv, Process
  <1>t. \A s \in Steps : To(s) \in Process /\ To(s).pc = s /\ To(s).i = r.i
    BY <1>0 DEF Process
  <1>v. r.i <= Last => Current(p).version = r.i
    BY <1>0, RegistryNumbered DEF Current, Position
  <1>s. \A s \in Steps : Goto(p, s) => proc' = [proc EXCEPT ![p] = To(s)]
    BY DEF Goto, Become
  <1>l. UNCHANGED locks => locks' = [locks EXCEPT ![p] = LocksAt(r.pc)]
    <2>1. \A l : locks[p] = l => locks = [locks EXCEPT ![p] = l]
      BY DEF MigInv
    <2> QED
      BY <1>0, <2>1
  <1> HIDE DEF To
  <1>f. ASSUME Fail(p), UNCHANGED <<schema, recorded, alone>>, Opening(p), p \notin alone
        PROVE  MigInv'
    <2>1. proc' = [proc EXCEPT ![p] = To("failed")] /\ locks' = [locks EXCEPT ![p] = "none"]
      BY <1>f, <1>s DEF Fail, Hold, Steps
    <2>2. To("failed") \in Process /\ To("failed").pc = "failed" /\ To("failed").i = r.i
      BY <1>t DEF Steps
    <2>3. LocksAt("failed") = "none" /\ "failed" \notin Writing \cup Applying
      BY DEF LocksAt, Writing, Applying
    <2>4. Knows(To("failed"), recorded)
      BY <1>0, <2>2, <2>3 DEF Knows
    <2>5. \A q \in Procs : q \in alone' => Undisturbed(q)'
      BY <1>f, <2>1, AloneStep
    <2> QED
      BY <1>f, <2>1, <2>2, <2>3, <2>4, <2>5, MoveStep
  <1>a. ASSUME Apply(p), Free(p, {"none"}), UNCHANGED <<database, alone>>,
               r.pc \in {"exec", "alter"}
        PROVE  MigInv'
    <2>0. /\ UNCHANGED <<schema, recorded>> /\ r.i <= Last /\ Current(p).version = r.i
          /\ Opening(p) /\ (p \in alone => r.i \notin recorded)
      BY <1>0, <1>a, <1>v DEF database, Knows, Applying, Opening, Undisturbed
    <2>1. CASE Current(p).version \in schema /\ Fail(p)
      BY <1>0, <1>a, <1>f, <2>0, <2>1
    <2>2. CASE Hold(p, "all") /\ Goto(p, "record")
      <3>1. proc' = [proc EXCEPT ![p] = To("record")] /\ locks' = [locks EXCEPT ![p] = "all"]
        BY <1>s, <2>2 DEF Hold, Steps
      <3>2. To("record") \in Process /\ To("record").pc = "record" /\ To("record").i = r.i
        BY <1>t DEF Steps
      <3>3. LocksAt("record") = "all" /\ Knows(To("record"), recorded)
        BY <1>0, <2>0, <3>2 DEF LocksAt, Writing, Knows, Applying
      <3>4. \A q \in Procs \ {p} : proc[q].pc \in Writing => proc[q].i # r.i
        BY <1>a DEF MigInv, Free, Rivals, LocksAt
      <3>5. \A q \in Procs : q \in alone' => Undisturbed(q)'
        BY <1>a, <2>0, <3>1, <3>2, AloneStep
      <3> QED
        BY <2>0, <3>1, <3>2, <3>3, <3>4, <3>5, MoveStep
    <2> QED
      BY <1>a, <2>1, <2>2 DEF Apply
  <1>1. CASE Start(p)
    <2>1. PICK n \in Process : /\ proc' = [proc EXCEPT ![p] = n]
                               /\ n.pc \in {"create", "check"} /\ n.i = r.i
                               /\ n.pc = "create" => ~table
      <3>1. /\ To("create") \in Process /\ To("create").pc = "create" /\ To("create").i = r.i
            /\ To("check") \in Process /\ To("check").pc = "check" /\ To("check").i = r.i
        BY <1>t DEF Steps
      <3>2. \/ ~table /\ proc' = [proc EXCEPT ![p] = To("create")]
            \/ proc' = [proc EXCEPT ![p] = To("check")]
        BY <1>1, <1>s DEF Start, Steps
      <3> QED
        BY <3>1, <3>2
    <2>2. /\ r.pc = "off" /\ UNCHANGED <<database, locks>>
          /\ alone' = IF \E q \in Procs : Opening(q) THEN {} ELSE {p}
      BY <1>1 DEF Start, At
    <2>3. LocksAt(n.pc) = LocksAt(r.pc) /\ Knows(n, recorded) /\ n.pc \notin Writing \cup Applying
      BY <1>0, <2>1, <2>2 DEF LocksAt, Writing, Knows, Applying
    <2>4. ASSUME NEW q \in Procs, q \in alone' PROVE Undisturbed(q)'
      <3>1. q = p /\ \A o \in Procs : ~Opening(o)
        BY <2>2, <2>4
      <3>2. proc'[p] = n /\ \A o \in Procs \ {p} : proc'[o] = proc[o]
        BY <1>0, <2>1
      <3>3. \A o \in Procs \ {p} : ~Opening(o)'
        BY <3>1, <3>2 DEF Opening
      <3>4. UNCHANGED table
        BY <2>2 DEF database
      <3> QED
        BY <2>1, <2>3, <3>1, <3>2, <3>3, <3>4 DEF Undisturbed, At
    <2> QED
      BY <1>l, <2>1, <2>2, <2>3, <2>4, MoveStep DEF database
  <1>2. CASE CreateTable(p)
    <2>0. /\ r.pc = "create" /\ UNCHANGED <<schema, recorded, alone>> /\ Opening(p)
      BY <1>2 DEF CreateTable, At, Opening
    <2>1. CASE Goto(p, "check") /\ UNCHANGED locks
      <3>1. proc' = [proc EXCEPT ![p] = To("check")]
        BY <1>s, <2>1 DEF Steps
      <3>2. To("check") \in Process /\ To("check").pc = "check" /\ To("check").i = r.i
        BY <1>t DEF Steps
      <3>3. LocksAt("check") = LocksAt(r.pc) /\ Knows(To("check"), recorded) /\ "check" \notin Writing \cup Applying
        BY <1>0, <2>0, <3>2 DEF LocksAt, Writing, Knows, Applying
      <3>4. \A q \in Procs : q \in alone' => Undisturbed(q)'
        BY <2>0, <3>1, <3>2, <3>3, AloneStep
      <3> QED
        BY <1>l, <2>0, <2>1, <3>1, <3>2, <3>3, <3>4, MoveStep
    <2>2. CASE (table \/ \E q \in Procs \ {p} : At(q, "create")) /\ Fail(p)
      <3>1. p \notin alone
        BY <1>0, <2>0, <2>2 DEF Undisturbed, Opening, At
      <3> QED
        BY <1>f, <2>0, <2>2, <3>1
    <2> QED
      BY <1>2, <2>1, <2>2 DEF CreateTable
  <1>3. CASE CheckVersion(p)
    <2>0. r.pc = "check" /\ UNCHANGED <<schema, recorded, locks, alone>> /\ Opening(p)
      BY <1>3 DEF CheckVersion, At, Opening, database
    <2>1. PICK n \in Process :
            /\ proc' = [proc EXCEPT ![p] = n] /\ Knows(n, recorded)
            /\ n.pc \in {"open", "check", "exec"} /\ (n.pc = "exec" => n.i \notin recorded)
      <3>1. CASE r.i > Last /\ proc' = [proc EXCEPT ![p] = To("open")]
        <4>1. r.i = Last + 1
          BY <1>0, <3>1 DEF Position, Last
        <4>2. To("open") \in Process /\ To("open").pc = "open" /\ To("open").i = r.i
          BY <1>t DEF Steps
        <4>3. Knows(To("open"), recorded)
          BY <1>0, <4>1, <4>2 DEF Knows, Applying
        <4> QED
          BY <3>1, <4>2, <4>3
      <3>2. CASE /\ r.i <= Last /\ r.i \in recorded
                 /\ proc' = [proc EXCEPT ![p] = [r EXCEPT !.i = @ + 1]]
        <4> DEFINE n == [r EXCEPT !.i = @ + 1]
        <4>1. n \in Process /\ n.pc = "check" /\ n.i = r.i + 1
          BY <1>0, <2>0, <3>2 DEF Process, Position, Last
        <4>2. 1..(n.i - 1) \subseteq recorded
          BY <1>0, <3>2, <4>1 DEF Knows, Position
        <4> HIDE DEF n
        <4>3. Knows(n, recorded)
          BY <4>1, <4>2 DEF Knows, Applying
        <4>4. proc' = [proc EXCEPT ![p] = n]
          BY <3>2 DEF n
        <4> QED
          BY <4>1, <4>3, <4>4
      <3>3. CASE /\ r.i <= Last /\ r.i \notin recorded
                 /\ proc' = [proc EXCEPT ![p] = To("exec")]
        <4>1. To("exec") \in Process /\ To("exec").pc = "exec" /\ To("exec").i = r.i
          BY <1>t DEF Steps
        <4>2. Knows(To("exec"), recorded)
          BY <1>0, <3>3, <4>1 DEF Knows
        <4> QED
          BY <3>3, <4>1, <4>2
      <3> QED
        BY <1>3, <1>s, <1>v, <3>1, <3>2, <3>3, RegistryNumbered DEF CheckVersion, Become, Steps
    <2>2. \A q \in Procs : q \in alone' => Undisturbed(q)'
      BY <2>0, <2>1, AloneStep DEF Applying
    <2>3. LocksAt(n.pc) = LocksAt(r.pc) /\ n.pc \notin Writing
      BY <2>0, <2>1 DEF LocksAt, Writing
    <2> QED
      BY <1>l, <2>0, <2>1, <2>2, <2>3, MoveStep
  <1>4. CASE ExecDDL(p)
    BY <1>4, <1>a DEF ExecDDL, At
  <1>5. CASE ExecAlter(p)
    BY <1>5, <1>a DEF ExecAlter, At
  <1>6. CASE ExecDelete(p)
    <2>0. /\ r.pc = "exec" /\ UNCHANGED <<schema, recorded, alone>> /\ Opening(p)
          /\ p \in alone => r.i \notin recorded
          /\ locks' = [locks EXCEPT ![p] = "rows"]
      BY <1>0, <1>6 DEF ExecDelete, At, Opening, database, Undisturbed, Applying, Hold
    <2>1. proc' = [proc EXCEPT ![p] = To("alter")]
      BY <1>6, <1>s DEF ExecDelete, Steps
    <2>2. To("alter") \in Process /\ To("alter").pc = "alter" /\ To("alter").i = r.i
      BY <1>t DEF Steps
    <2>3. LocksAt("alter") = "rows" /\ Knows(To("alter"), recorded) /\ "alter" \notin Writing
      BY <1>0, <2>0, <2>2 DEF LocksAt, Writing, Knows, Applying
    <2>4. \A q \in Procs : q \in alone' => Undisturbed(q)'
      BY <2>0, <2>1, <2>2, AloneStep
    <2> QED
      BY <2>0, <2>1, <2>2, <2>3, <2>4, MoveStep
  <1>7. CASE DeadlockDetected(p) \/ BusyTimeout(p)
    <2>1. /\ r.pc \in {"exec", "alter"} /\ UNCHANGED <<schema, recorded, alone>>
          /\ Opening(p) /\ Fail(p) /\ ~Free(p, {"none"})
      BY <1>7 DEF DeadlockDetected, BusyTimeout, At, Opening, database
    <2>2. p \notin alone
      BY <2>1, LockersOpen DEF Free, Rivals
    <2> QED
      BY <1>f, <2>1, <2>2
  <1>8. CASE RecordVersion(p)
    <2>0. /\ r.pc = "record" /\ r.i <= Last /\ UNCHANGED <<schema, recorded, alone>>
          /\ Opening(p) /\ (p \in alone => r.i \notin recorded)
      BY <1>0, <1>8 DEF RecordVersion, At, Knows, Applying, Opening, database, Undisturbed
    <2>1. CASE r.i \in recorded /\ Fail(p)
      BY <1>f, <2>0, <2>1
    <2>2. CASE r.i \notin recorded /\ Goto(p, "commit") /\ UNCHANGED locks
      <3>1. proc' = [proc EXCEPT ![p] = To("commit")]
        BY <1>s, <2>2 DEF Steps
      <3>2. To("commit") \in Process /\ To("commit").pc = "commit" /\ To("commit").i = r.i
        BY <1>t DEF Steps
      <3>3. LocksAt("commit") = LocksAt(r.pc) /\ Knows(To("commit"), recorded) /\ r.pc \in Writing
        BY <1>0, <2>0, <2>2, <3>2 DEF LocksAt, Writing, Knows
      <3>4. \A q \in Procs : q \in alone' => Undisturbed(q)'
        BY <2>0, <3>1, <3>2, AloneStep
      <3> QED
        BY <1>l, <2>0, <2>2, <3>1, <3>2, <3>3, <3>4, MoveStep
    <2> QED
      BY <1>8, <1>v, <2>0, <2>1, <2>2 DEF RecordVersion
  <1>9. CASE Commit(p)
    <2> DEFINE n == [pc |-> "check", i |-> r.i + 1]
    <2>0. /\ r.pc = "commit" /\ r.i \in 1..Last /\ r.i \notin recorded
          /\ recorded' = recorded \cup {r.i} /\ schema' = schema \cup {r.i}
          /\ locks' = [locks EXCEPT ![p] = "none"] /\ UNCHANGED alone
          /\ proc' = [proc EXCEPT ![p] = n] /\ Opening(p)
      BY <1>0, <1>9, <1>v DEF Commit, At, Knows, Become, Hold, Position, Last, Applying, Opening
    <2>1. PICK v \in 0..Last : recorded = 1..v
      BY DEF MigInv
    <2>2. v = r.i - 1
      <3>1. r.i \in Nat /\ v \in Nat /\ ~(r.i <= v) /\ 1 <= r.i
        BY <2>0, <2>1 DEF Last
      <3>2. r.i - 1 \in 1..v \/ r.i = 1
        BY <1>0, <2>1, <3>1 DEF Knows
      <3> QED
        BY <3>1, <3>2
    <2>3. recorded' = 1..r.i /\ schema' = recorded'
      BY <1>0, <2>0, <2>1, <2>2 DEF Last
    <2>4. n \in Process /\ n.pc = "check" /\ n.i = r.i + 1
      BY <2>0 DEF Process, Steps, Position, Last
    <2> HIDE DEF n
    <2>5. /\ proc'[p] = n /\ \A q \in Procs \ {p} : proc'[q] = proc[q]
          /\ proc' \in [Procs -> Process]
      BY <2>0, <2>4 DEF MigInv
    <2>6. locks' = [q \in Procs |-> LocksAt(proc'[q].pc)]
      BY <2>0, <2>4, <2>5 DEF MigInv, LocksAt, Writing
    <2>7. ASSUME NEW q \in Procs PROVE Knows(proc'[q], recorded')
      <3>1. CASE q = p
        <4>1. 1..(n.i - 1) \subseteq recorded'
          BY <2>0, <2>3, <2>4 DEF Last
        <4> QED
          BY <2>4, <2>5, <3>1, <4>1 DEF Knows, Applying
      <3>2. CASE q # p
        <4>1. proc'[q] = proc[q] /\ Knows(proc[q], recorded) /\ proc[q].i \in Position
          BY <2>5, <3>2 DEF MigInv, Process
        <4>2. ASSUME proc[q].pc = "commit" PROVE proc[q].i # r.i
          BY <2>0, <3>2, <4>2 DEF MigInv, Apart, Writing
        <4> QED
          BY <2>0, <4>1, <4>2 DEF Knows
      <3> QED
        BY <3>1, <3>2
    <2>8. Apart'
      BY <2>4, <2>5 DEF MigInv, Apart, Writing
    <2>9. \A q \in Procs : q \in alone' => Undisturbed(q)'
      BY <2>0, <2>4, AloneStep DEF Applying
    <2> QED
      <3>1. r.i \in 0..Last
        BY <2>0 DEF Last
      <3> QED
        BY <2>3, <2>5, <2>6, <2>7, <2>8, <2>9, <3>1 DEF MigInv
  <1>10. CASE Exit(p)
    <2>1. /\ proc' = [proc EXCEPT ![p] = Off] /\ UNCHANGED <<table, schema, recorded>>
          /\ locks' = [locks EXCEPT ![p] = "none"] /\ alone' = alone \ {p}
      BY <1>10 DEF Exit, Become, Hold, database
    <2>2. Off \in Process /\ Off.pc = "off" /\ Off.i = 1
      BY DEF Off, Process, Steps, Position, Last
    <2>3. LocksAt("off") = "none" /\ Knows(Off, recorded) /\ "off" \notin Writing
      BY <2>2 DEF LocksAt, Knows, Writing, Applying
    <2>4. ASSUME NEW q \in Procs, q \in alone' PROVE Undisturbed(q)'
      <3>1. q # p /\ Undisturbed(q)
        BY <2>1, <2>4 DEF MigInv
      <3>2. proc'[p] = Off /\ \A o \in Procs \ {p} : proc'[o] = proc[o]
        BY <1>0, <2>1
      <3> QED
        BY <2>1, <2>2, <3>1, <3>2 DEF Undisturbed, Opening, At
    <2> HIDE DEF Off
    <2> QED
      BY <2>1, <2>2, <2>3, <2>4, MoveStep
  <1> QED
    BY <1>1, <1>2, <1>3, <1>4, <1>5, <1>6, <1>7, <1>8, <1>9, <1>10 DEF Migrate

----------------------------------------------------------------------------
(* A drill that passes vouches for the capsule: the recipe, checked        *)
(* against what was opened, can leave out no member and no database.       *)
LEMMA VerdictSound == \A v \in Verdicts : v.passed => v.restorable
  <1>1. ASSUME NEW r \in Recipe, NEW opened \in Opened, NEW envSet \in BOOLEAN,
               Checks(r, opened, envSet)
        PROVE  Restorable(opened)
    BY <1>1 DEF Checks, RecipeValid, Restorable, Required
  <1> QED
    BY <1>1 DEF Verdicts

(* No drill, no lock file.                                                 *)
LEMMA DrillInit == ProcessesInit => DrillInv
  BY DEF ProcessesInit, DrillInv, NoDrill, InDrill, PassedIsRestorable

(* The lock file is made once and shared by every descriptor from then on, *)
(* so flock finds every holder there is.                                   *)
LEMMA DrillStep ==
  ASSUME DrillInv, NEW d \in Drills, Drill(d)
  PROVE  DrillInv'
  <1> USE DEF DrillInv, InDrill, NoDrill
  <1>1. CASE OpenLock(d)
    <2>1. drill' = [drill EXCEPT ![d] = [pc |-> "opened", fd |-> lockfile']]
          /\ UNCHANGED verdict
      BY <1>1 DEF OpenLock, ResumeDrill
    <2>2. inodes' = 1 /\ lockfile' = 1 /\ (lockfile = 0 \/ lockfile = 1)
      BY <1>1 DEF OpenLock
    <2>3. lockfile = 0 => \A e \in Drills : drill[e].pc = "idle"
      OBVIOUS
    <2> QED
      BY <2>1, <2>2, <2>3 DEF PassedIsRestorable
  <1>2. CASE Flock(d)
    BY <1>2 DEF Flock, ResumeDrill, Holder, PassedIsRestorable
  <1>3. CASE FinishDrill(d)
    <2>1. PassedIsRestorable'
      BY <1>3, VerdictSound DEF FinishDrill, PassedIsRestorable
    <2> QED
      BY <1>3, <2>1 DEF FinishDrill, CloseLock, ResumeDrill
  <1>4. CASE AbortDrill(d)
    BY <1>4 DEF AbortDrill, CloseLock, ResumeDrill, PassedIsRestorable
  <1> QED
    BY <1>1, <1>2, <1>3, <1>4 DEF Drill

(* A process that ends takes its drills with it.                           *)
LEMMA DrillExit ==
  ASSUME DrillInv, NEW p \in Procs, ExitProcess(p)
  PROVE  DrillInv'
  BY DEF DrillInv, InDrill, NoDrill, ExitProcess, PassedIsRestorable

----------------------------------------------------------------------------
(* The invariant of the processes of one data directory.                   *)
LEMMA ProcessesInvariant == ProcessesSpec => []ProcessesInv
  <1>1. ProcessesInit => ProcessesInv
    BY MigInit, DrillInit DEF ProcessesInit, ProcessesInv
  <1>2. ProcessesInv /\ [ProcessesNext]_processVars => ProcessesInv'
    <2> SUFFICES ASSUME ProcessesInv, [ProcessesNext]_processVars PROVE ProcessesInv'
      OBVIOUS
    <2>0. MigInv /\ DrillInv
      BY DEF ProcessesInv
    <2>1. UNCHANGED vars => MigInv'
      BY <2>0 DEF vars, database, MigInv, Knows, Apart, Undisturbed, Opening, At
    <2>2. UNCHANGED drillVars => DrillInv'
      BY <2>0 DEF drillVars, DrillInv, InDrill, PassedIsRestorable
    <2>3. ASSUME NEW p \in Procs, Start(p) \/ Migrate(p), UNCHANGED drillVars
          PROVE  ProcessesInv'
      BY <2>0, <2>2, <2>3, MigStep DEF ProcessesInv
    <2>4. ASSUME NEW p \in Procs, ExitProcess(p) PROVE ProcessesInv'
      BY <2>0, <2>4, MigStep, DrillExit DEF ProcessesInv, ExitProcess
    <2>5. ASSUME NEW d \in Drills, Drill(d) PROVE ProcessesInv'
      <3>1. UNCHANGED vars
        BY <2>5 DEF Drill, OpenLock, Flock, FinishDrill, AbortDrill
      <3> QED
        BY <2>0, <2>1, <2>5, <3>1, DrillStep DEF ProcessesInv
    <2>6. CASE UNCHANGED processVars
      BY <2>1, <2>2, <2>6 DEF processVars, ProcessesInv
    <2> QED
      BY <2>3, <2>4, <2>5, <2>6 DEF ProcessesNext
  <1> QED
    BY <1>1, <1>2, PTL DEF ProcessesSpec

(* The schema and schema_migrations never part and never skip a version,   *)
(* however many processes migrate at once and wherever one is killed.      *)
THEOREM SchemaIsRecorded == ProcessesSpec => []SchemaRecorded
  <1>1. ProcessesInv => SchemaRecorded
    BY RegistryNumbered DEF ProcessesInv, MigInv, SchemaRecorded, Last
  <1> QED
    BY <1>1, ProcessesInvariant, PTL

(* No process serves on a schema that lacks a version.                     *)
THEOREM OpensOnCompleteSchema == ProcessesSpec => []OpensComplete
  <1>1. ProcessesInv => OpensComplete
    <2> SUFFICES ASSUME MigInv, NEW p \in Procs, At(p, "open") PROVE recorded = Versions
      BY DEF ProcessesInv, OpensComplete
    <2>1. proc[p].i = Last + 1 /\ 1..(proc[p].i - 1) \subseteq recorded
      BY DEF MigInv, Knows, At
    <2>2. 1..Last \subseteq recorded
      BY <2>1 DEF Last
    <2>3. recorded \subseteq 1..Last
      BY DEF MigInv, Last
    <2> QED
      BY <2>2, <2>3, RegistryNumbered
  <1> QED
    BY <1>1, ProcessesInvariant, PTL

(* Whatever happened to the processes before it, a process that opens the  *)
(* store with no other beside it does not fail.                            *)
THEOREM FailuresAreBenign == ProcessesSpec => []FailureIsBenign
  <1>1. ProcessesInv => FailureIsBenign
    BY DEF ProcessesInv, MigInv, Undisturbed, FailureIsBenign
  <1> QED
    BY <1>1, ProcessesInvariant, PTL

(* Of all drills of all processes of a data directory one at most unpacks. *)
THEOREM OneDrillAtATime == ProcessesSpec => []OneDrill
  <1>1. ProcessesInv => OneDrill
    <2> SUFFICES ASSUME DrillInv PROVE OneDrill
      BY DEF ProcessesInv
    <2> DEFINE S == {d \in Drills : InDrill(d, "running")}
    <2>1. S = {} \/ \E d \in Drills : S = {d}
      BY DEF DrillInv
    <2>2. Cardinality(S) \in {0, 1}
      BY <2>1, FS_EmptySet, FS_Singleton
    <2> QED
      BY <2>2 DEF OneDrill
  <1> QED
    BY <1>1, ProcessesInvariant, PTL

(* No drill passes a capsule that would not restore.                       *)
THEOREM PassedDrillIsSound == ProcessesSpec => []PassedIsRestorable
  <1>1. ProcessesInv => PassedIsRestorable
    BY DEF ProcessesInv, DrillInv
  <1> QED
    BY <1>1, ProcessesInvariant, PTL

=============================================================================
