------------------------------ MODULE Shutdown ------------------------------
(***************************************************************************)
(* The end of the server process: the signal, the drain of net/http, the   *)
(* cancellation of the scheduler, the wait for detached backup work and    *)
(* the close of the store.  Some requests detach from their connection and *)
(* are counted; the scheduler's run ignores cancellation; both waits share *)
(* one deadline.  Nothing here assumes that a client sends the rest of its *)
(* request, or that a handler or a deposit ever returns.                   *)
(***************************************************************************)
EXTENDS Integers, FiniteSets

CONSTANTS
  Conns,    \* connections, one request each
  Tracked   \* those whose route is wrapped in tracked

ASSUME ShutdownAssumption == IsFiniteSet(Conns) /\ Tracked \subseteq Conns

VARIABLES
  phase,      \* where runServer is
  conn,       \* each connection: its request read, handled, finished
  n,          \* detachedCounter.n
  broadcast,  \* requests between the unlock and the Broadcast of done()
  waiter,     \* the goroutine that runs WaitDetached and closes handlersDone
  sched,      \* backupLoop
  deadline,   \* backupWaitTimeout has passed
  owed,       \* history: counted before WaitDetached returned, not finished
  joined      \* history: counted while a run was waited out, not finished

vars == <<phase, conn, n, broadcast, waiter, sched, deadline, owed, joined>>

Phases == {"serving", "draining", "wait_backup", "wait_handlers", "closed"}

Init ==
  /\ phase = "serving"
  /\ conn = [c \in Conns |-> "none"]
  /\ n = 0
  /\ broadcast = {}
  /\ waiter = "off"
  /\ sched \in {"ticking", "done"}    \* done: RunConfig failed, no scheduler
  /\ deadline = FALSE
  /\ owed = {}
  /\ joined = {}

----------------------------------------------------------------------------
(* net/http: a connection is accepted while the listener is open; the      *)
(* handler starts when the request line and headers are in, at any time    *)
(* until the process exits.                                                *)

Accept(c) ==
  /\ phase = "serving"
  /\ conn[c] = "none"
  /\ conn' = [conn EXCEPT ![c] = "reading"]
  /\ UNCHANGED <<phase, n, broadcast, waiter, sched, deadline, owed, joined>>

(* The client or the read timeout drops it, or Shutdown finds it stale.    *)
Drop(c) ==
  /\ conn[c] = "reading"
  /\ conn' = [conn EXCEPT ![c] = "done"]
  /\ UNCHANGED <<phase, n, broadcast, waiter, sched, deadline, owed, joined>>

(* The routes whose work outlives the connection: pair, deposit, pin.      *)
Counted(c) == c \in Tracked

(* runServer is waiting a run of the scheduler out.                        *)
RunAwaited == phase = "wait_backup" /\ sched = "running"

(* Mutant of Enter: the counter is raised by the handler's first write, so *)
(* a request still authenticating is not counted.                          *)
EnterUncounted(c) ==
  /\ conn[c] = "reading"
  /\ conn' = [conn EXCEPT ![c] = "handling"]
  /\ owed' = IF Counted(c) /\ waiter # "done" THEN owed \cup {c} ELSE owed
  /\ joined' = IF Counted(c) /\ RunAwaited THEN joined \cup {c} ELSE joined
  /\ UNCHANGED <<phase, n, broadcast, waiter, sched, deadline>>

(* tracked counts the request before it is even authenticated.             *)
Enter(c) ==
  /\ conn[c] = "reading"
  /\ conn' = [conn EXCEPT ![c] = "handling"]
  /\ n' = IF Counted(c) THEN n + 1 ELSE n
  /\ owed' = IF Counted(c) /\ waiter # "done" THEN owed \cup {c} ELSE owed
  /\ joined' = IF Counted(c) /\ RunAwaited THEN joined \cup {c} ELSE joined
  /\ UNCHANGED <<phase, broadcast, waiter, sched, deadline>>

(* Mutant of Return: done() runs on every route, counted or not.           *)
ReturnAlwaysDone(c) ==
  /\ conn[c] = "handling"
  /\ conn' = [conn EXCEPT ![c] = "done"]
  /\ owed' = owed \ {c} /\ joined' = joined \ {c}
  /\ n' = n - 1
  /\ broadcast' = broadcast \cup ({c} \cap Tracked)
  /\ UNCHANGED <<phase, waiter, sched, deadline>>

(* The handler returns; done() drops the count and then, unlocked, wakes   *)
(* the waiter.                                                             *)
Return(c) ==
  /\ conn[c] = "handling"
  /\ conn' = [conn EXCEPT ![c] = "done"]
  /\ owed' = owed \ {c} /\ joined' = joined \ {c}
  /\ IF Counted(c)
       THEN n' = n - 1 /\ broadcast' = broadcast \cup {c}
       ELSE UNCHANGED <<n, broadcast>>
  /\ UNCHANGED <<phase, waiter, sched, deadline>>

(* Mutant of Broadcast: the waiter is not woken.                           *)
BroadcastNothing(c) ==
  /\ c \in broadcast
  /\ broadcast' = broadcast \ {c}
  /\ UNCHANGED <<phase, conn, n, waiter, sched, deadline, owed, joined>>

Broadcast(c) ==
  /\ c \in broadcast
  /\ broadcast' = broadcast \ {c}
  /\ waiter' = IF waiter = "asleep" THEN "check" ELSE waiter
  /\ UNCHANGED <<phase, conn, n, sched, deadline, owed, joined>>

----------------------------------------------------------------------------
(* backupLoop: a run reads its schedule on the cancellable context, then   *)
(* goes on a detached one, and the loop ends only between runs.            *)

Cancelled == phase \notin {"serving", "draining"}

BeginRun ==
  /\ sched = "ticking" /\ ~Cancelled
  /\ sched' = "running"
  /\ UNCHANGED <<phase, conn, n, broadcast, waiter, deadline, owed, joined>>

EndRun ==
  /\ sched = "running"
  /\ sched' = "ticking"
  /\ UNCHANGED <<phase, conn, n, broadcast, waiter, deadline, owed, joined>>

ExitLoop ==
  /\ sched = "ticking" /\ Cancelled
  /\ sched' = "done"
  /\ UNCHANGED <<phase, conn, n, broadcast, waiter, deadline, owed, joined>>

----------------------------------------------------------------------------
(* runServer, from the signal on.                                          *)

Signal ==
  /\ phase = "serving"
  /\ phase' = "draining"
  /\ UNCHANGED <<conn, n, broadcast, waiter, sched, deadline, owed, joined>>

(* Shutdown returns because every connection is gone or because            *)
(* shutdownTimeout passed; the context is cancelled and both waits start.  *)
Drained == \A c \in Conns : conn[c] \in {"none", "done"}

StartWaits ==
  /\ phase = "draining"
  /\ phase' = "wait_backup"
  /\ waiter' = "check"
  /\ UNCHANGED <<conn, n, broadcast, sched, deadline, owed, joined>>

DrainEnds    == Drained /\ StartWaits
DrainTimeout == ~Drained /\ StartWaits

DeadlinePasses ==
  /\ phase \in {"wait_backup", "wait_handlers"} /\ ~deadline
  /\ deadline' = TRUE
  /\ UNCHANGED <<phase, conn, n, broadcast, waiter, sched, owed, joined>>

BackupWaitEnds ==
  /\ phase = "wait_backup"
  /\ sched = "done" \/ deadline
  /\ phase' = "wait_handlers"
  /\ UNCHANGED <<conn, n, broadcast, waiter, sched, deadline, owed, joined>>

(* Mutant of HandlerWaitEnds: the first wait consumed the only timer.      *)
HandlerWaitUnbounded ==
  /\ phase = "wait_handlers"
  /\ waiter = "done"
  /\ phase' = "closed"
  /\ UNCHANGED <<conn, n, broadcast, waiter, sched, deadline, owed, joined>>

(* waitForBackupWork returns and the deferred st.Close runs.               *)
HandlerWaitEnds ==
  /\ phase = "wait_handlers"
  /\ waiter = "done" \/ deadline
  /\ phase' = "closed"
  /\ UNCHANGED <<conn, n, broadcast, waiter, sched, deadline, owed, joined>>

(* WaitDetached: the test, and going to sleep, are under the mutex.        *)
WaitDetached ==
  /\ waiter = "check"
  /\ waiter' = IF n > 0 THEN "asleep" ELSE "done"
  /\ UNCHANGED <<phase, conn, n, broadcast, sched, deadline, owed, joined>>

----------------------------------------------------------------------------
Requests(c) == Accept(c) \/ Drop(c) \/ Enter(c) \/ Return(c)
Main == Signal \/ DrainEnds \/ DrainTimeout \/ BackupWaitEnds \/ HandlerWaitEnds

Next ==
  \/ \E c \in Conns : Requests(c) \/ Broadcast(c)
  \/ BeginRun \/ EndRun \/ ExitLoop
  \/ Main \/ DeadlinePasses \/ WaitDetached

(* The Go scheduler runs every runnable goroutine and the two timers fire; *)
(* nothing obliges a client, a handler or a deposit to finish.             *)
Fairness ==
  /\ WF_vars(StartWaits)
  /\ WF_vars(BackupWaitEnds)
  /\ WF_vars(HandlerWaitEnds)
  /\ WF_vars(DeadlinePasses)
  /\ WF_vars(WaitDetached)
  /\ \A c \in Conns : WF_vars(Broadcast(c))

Spec == Init /\ [][Next]_vars /\ Fairness

----------------------------------------------------------------------------
(* Types; the counter never goes below zero.                               *)
TypeOK ==
  /\ phase \in Phases
  /\ conn \in [Conns -> {"none", "reading", "handling", "done"}]
  /\ n \in Nat
  /\ broadcast \subseteq Tracked
  /\ waiter \in {"off", "check", "asleep", "done"}
  /\ sched \in {"ticking", "running", "done"}
  /\ deadline \in BOOLEAN
  /\ owed \subseteq Tracked /\ joined \subseteq Tracked

(* Backup work is waited out before the store closes: if the store closes  *)
(* before the deadline, the scheduler is between runs for good and every   *)
(* request that was counted before WaitDetached returned has finished,     *)
(* although requests register while the wait is already running.           *)
NoAbandonedWork ==
  (phase = "closed" /\ ~deadline) => sched = "done" /\ owed = {}

(* Shutdown ends, whatever hangs: a stuck client, handler or deposit costs *)
(* at most the two timeouts, and never one wait's bound to the other.      *)
ShutdownEnds == (phase = "draining") ~> (phase = "closed")

(* No wake-up is lost: done() broadcasts after it has unlocked, yet        *)
(* WaitDetached never sleeps over a count of zero unless the Broadcast     *)
(* that will wake it is still to come.                                     *)
NoLostWakeup == (waiter = "asleep" /\ n = 0) => broadcast # {}

(* waitForBackupWork "blocks until the scheduler loop and every detached   *)
(* handler have finished, or until ctx expires": when it has returned      *)
(* before the deadline, at least the handlers that were counted while it   *)
(* was still waiting a run of the scheduler out have finished.             *)
ReturnsOnlyWhenIdle == (phase = "closed" /\ ~deadline) => joined = {}

=============================================================================
