--------------------------- MODULE ShutdownProofs ---------------------------
(***************************************************************************)
(* NoAbandonedWork for any set of connections.  The strengthening: the     *)
(* counter is exactly the number of tracked handlers running, whatever is  *)
(* owed is one of them, and runServer never moves past a wait without      *)
(* either what it waited for or the deadline.                              *)
(***************************************************************************)
EXTENDS Shutdown, FiniteSetTheorems, TLAPS

Running == {c \in Tracked : conn[c] = "handling"}

CountOK == n = Cardinality(Running)
OwedOK  == owed \subseteq Running /\ (waiter = "done" => owed = {})
WaitsOK ==
  ~deadline => /\ phase \in {"wait_handlers", "closed"} => sched = "done"
               /\ phase = "closed" => waiter = "done"

Inv == TypeOK /\ CountOK /\ OwedOK /\ WaitsOK

(* Finitely many counted handlers run.                                      *)
LEMMA RunningFinite == IsFiniteSet(Running) /\ Cardinality(Running) \in Nat
<1>1. IsFiniteSet(Tracked)
  BY ShutdownAssumption, FS_Subset
<1>2. IsFiniteSet(Running)
  BY <1>1, FS_Subset DEF Running
<1> QED BY <1>2, FS_CardinalityType

(* The requests of a step that moves no connection stay where they are.    *)
LEMMA SameCount ==
  ASSUME CountOK, UNCHANGED <<conn, n>> PROVE CountOK' /\ Running' = Running
  BY DEF CountOK, Running

(* A tracked request that starts is counted once.                           *)
LEMMA EnterCounts ==
  ASSUME Inv, NEW c \in Conns, Enter(c)
  PROVE  Inv'
<1> USE DEF Enter, Counted, RunAwaited, Inv
<1>1. CASE c \in Tracked
  <2>1. Running' = Running \cup {c} /\ c \notin Running
    BY <1>1, ShutdownAssumption DEF Running, TypeOK
  <2>2. Cardinality(Running') = Cardinality(Running) + 1
    BY <2>1, RunningFinite, FS_AddElement
  <2>3. CountOK'
    BY <1>1, <2>2 DEF CountOK
  <2>4. TypeOK' /\ OwedOK' /\ WaitsOK'
    BY <1>1, <2>1 DEF TypeOK, OwedOK, WaitsOK
  <2> QED BY <2>3, <2>4
<1>2. CASE c \notin Tracked
  <2>1. Running' = Running
    BY <1>2, ShutdownAssumption DEF Running, TypeOK
  <2>2. CountOK'
    BY <1>2, <2>1 DEF CountOK
  <2>3. TypeOK' /\ OwedOK' /\ WaitsOK'
    BY <1>2, <2>1 DEF TypeOK, OwedOK, WaitsOK
  <2> QED BY <2>2, <2>3
<1> QED BY <1>1, <1>2

(* A tracked request that returns was counted.                              *)
LEMMA ReturnCounts ==
  ASSUME Inv, NEW c \in Conns, Return(c)
  PROVE  Inv'
<1> USE DEF Return, Counted, Inv
<1>1. CASE c \in Tracked
  <2>1. Running' = Running \ {c} /\ c \in Running
    BY <1>1, ShutdownAssumption DEF Running, TypeOK
  <2>2. Cardinality(Running') = Cardinality(Running) - 1 /\ Cardinality(Running') \in Nat
    <3>1. IsFiniteSet(Running')
      BY <2>1, RunningFinite, FS_RemoveElement
    <3>2. Cardinality(Running') = Cardinality(Running) - 1
      BY <2>1, RunningFinite, FS_RemoveElement
    <3> QED BY <3>1, <3>2, FS_CardinalityType
  <2>3. CountOK' /\ n' \in Nat
    BY <1>1, <2>2 DEF CountOK
  <2>4. TypeOK' /\ OwedOK' /\ WaitsOK'
    BY <1>1, <2>1, <2>3 DEF TypeOK, OwedOK, WaitsOK
  <2> QED BY <2>3, <2>4
<1>2. CASE c \notin Tracked
  <2>1. Running' = Running
    BY <1>2, ShutdownAssumption DEF Running, TypeOK
  <2>2. CountOK'
    BY <1>2, <2>1 DEF CountOK
  <2>3. TypeOK' /\ OwedOK' /\ WaitsOK'
    BY <1>2, <2>1 DEF TypeOK, OwedOK, WaitsOK
  <2> QED BY <2>2, <2>3
<1> QED BY <1>1, <1>2

(* WaitDetached returns only on a count of zero, and then nothing is owed. *)
LEMMA WaitCounts ==
  ASSUME Inv, WaitDetached
  PROVE  Inv'
<1> USE DEF WaitDetached, Inv
<1>1. CountOK' /\ Running' = Running
  BY SameCount
<1>2. ASSUME ~(n > 0) PROVE owed = {}
  <2>1. Cardinality(Running) = 0
    BY <1>2, RunningFinite DEF CountOK
  <2>2. Running = {}
    BY <2>1, RunningFinite, FS_EmptySet
  <2> QED BY <2>2 DEF OwedOK
<1>3. TypeOK' /\ OwedOK' /\ WaitsOK'
  BY <1>1, <1>2 DEF TypeOK, OwedOK, WaitsOK
<1> QED BY <1>1, <1>3

(* The invariant holds when the server starts.                              *)
LEMMA InitInv == Init => Inv
<1> SUFFICES ASSUME Init PROVE Inv
  OBVIOUS
<1>1. Running = {}
  BY ShutdownAssumption DEF Init, Running
<1>2. CountOK
  BY <1>1, FS_EmptySet DEF Init, CountOK
<1> QED BY <1>2, ShutdownAssumption DEF Init, Inv, TypeOK, OwedOK, WaitsOK, Phases

(* Every step preserves the invariant.                                      *)
LEMMA StepInv == Inv /\ [Next]_vars => Inv'
<1> SUFFICES ASSUME Inv, [Next]_vars PROVE Inv'
  OBVIOUS
<1>1. ASSUME NEW c \in Conns, Accept(c) \/ Drop(c) PROVE Inv'
  <2>1. Running' = Running
    BY <1>1, ShutdownAssumption DEF Accept, Drop, Running, Inv, TypeOK
  <2> QED BY <1>1, <2>1 DEF Accept, Drop, Inv, TypeOK, CountOK, OwedOK, WaitsOK
<1>2. ASSUME NEW c \in Conns, Enter(c) PROVE Inv'
  BY <1>2, EnterCounts
<1>3. ASSUME NEW c \in Conns, Return(c) PROVE Inv'
  BY <1>3, ReturnCounts
<1>4. ASSUME NEW c \in Conns, Broadcast(c) PROVE Inv'
  <2>1. CountOK' /\ Running' = Running
    BY <1>4, SameCount DEF Broadcast, Inv
  <2> QED BY <1>4, <2>1 DEF Broadcast, Inv, TypeOK, OwedOK, WaitsOK
<1>5. ASSUME BeginRun \/ EndRun \/ ExitLoop PROVE Inv'
  <2>1. CountOK' /\ Running' = Running
    BY <1>5, SameCount DEF BeginRun, EndRun, ExitLoop, Inv
  <2> QED BY <1>5, <2>1 DEF BeginRun, EndRun, ExitLoop, Cancelled, Inv, TypeOK, OwedOK, WaitsOK
<1>6. ASSUME Main \/ DeadlinePasses PROVE Inv'
  <2> USE <1>6 DEF Main, DeadlinePasses, Signal, DrainEnds, DrainTimeout, StartWaits,
                   BackupWaitEnds, HandlerWaitEnds
  <2>1. CountOK' /\ Running' = Running
    BY SameCount DEF Inv
  <2> QED BY <2>1 DEF Inv, TypeOK, OwedOK, WaitsOK, Phases
<1>7. ASSUME WaitDetached PROVE Inv'
  BY <1>7, WaitCounts
<1>8. CASE UNCHANGED vars
  BY <1>8 DEF vars, Inv, TypeOK, CountOK, OwedOK, WaitsOK, Running
<1> QED BY <1>1, <1>2, <1>3, <1>4, <1>5, <1>6, <1>7, <1>8 DEF Next, Requests

(* The counter agrees with the handlers and nothing owed is lost, in every *)
(* state of a shutdown of a server with any number of connections.         *)
THEOREM ShutdownInvariance == Spec => []Inv
<1> QED BY InitInv, StepInv, PTL DEF Spec

(* TypeOK always: in particular done() never takes the count below zero.   *)
THEOREM ShutdownTypeCorrect == Spec => []TypeOK
<1>1. Inv => TypeOK
  BY DEF Inv
<1> QED BY ShutdownInvariance, <1>1, PTL

(* waitForBackupWork waits the scheduler and every owed handler out before *)
(* the store closes, unless the deadline passed: NoAbandonedWork.          *)
THEOREM WorkWaitedOut == Spec => []NoAbandonedWork
<1>1. Inv => NoAbandonedWork
  BY DEF Inv, OwedOK, WaitsOK, NoAbandonedWork
<1> QED BY ShutdownInvariance, <1>1, PTL

(* No step lets the last Broadcast go by under a sleeping WaitDetached.    *)
LEMMA WakeupStep == TypeOK /\ NoLostWakeup /\ [Next]_vars => NoLostWakeup'
<1> SUFFICES ASSUME TypeOK, NoLostWakeup, [Next]_vars PROVE NoLostWakeup'
  OBVIOUS
<1> USE DEF TypeOK, NoLostWakeup
<1>1. ASSUME NEW c \in Conns, Accept(c) \/ Drop(c) PROVE NoLostWakeup'
  BY <1>1 DEF Accept, Drop
<1>2. ASSUME NEW c \in Conns, Enter(c) PROVE NoLostWakeup'
  BY <1>2 DEF Enter
<1>3. ASSUME NEW c \in Conns, Return(c) PROVE NoLostWakeup'
  BY <1>3 DEF Return
<1>4. ASSUME NEW c \in Conns, Broadcast(c) PROVE NoLostWakeup'
  BY <1>4 DEF Broadcast
<1>5. ASSUME BeginRun \/ EndRun \/ ExitLoop PROVE NoLostWakeup'
  BY <1>5 DEF BeginRun, EndRun, ExitLoop
<1>6. ASSUME Main \/ DeadlinePasses PROVE NoLostWakeup'
  BY <1>6 DEF Main, DeadlinePasses, Signal, DrainEnds, DrainTimeout, StartWaits,
              BackupWaitEnds, HandlerWaitEnds
<1>7. ASSUME WaitDetached PROVE NoLostWakeup'
  BY <1>7 DEF WaitDetached
<1>8. CASE UNCHANGED vars
  BY <1>8 DEF vars
<1> QED BY <1>1, <1>2, <1>3, <1>4, <1>5, <1>6, <1>7, <1>8 DEF Next, Requests

(* WaitDetached never sleeps over a count of zero with no Broadcast to     *)
(* come, however many requests register and finish: NoLostWakeup.          *)
THEOREM WakeupsNeverLost == Spec => []NoLostWakeup
<1>1. Init => NoLostWakeup
  BY DEF Init, NoLostWakeup
<1> QED BY <1>1, WakeupStep, ShutdownTypeCorrect, PTL DEF Spec

=============================================================================
