-------------------------- MODULE ElasticThreadPool --------------------------
(***************************************************************************)
(* sys.thread.ElasticThreadPool: run hands a task to an idle or dead       *)
(* worker, starts a worker, or puts the task in a deque for the worker that*)
(* is done first.  run and shutdown hold `mutex'; what they share with a   *)
(* worker thread (task, dead, isShutdown) is guarded by the worker's       *)
(* deathMutex only where the worker dies.                                  *)
(*                                                                         *)
(* A section under deathMutex and the last step of run, which leaves       *)
(* mutex, are single steps.  A dead worker has no task (DeadHasNoTask), so *)
(* run never gets to its branch for deadWorker.                            *)
(***************************************************************************)
EXTENDS Naturals, Sequences

CONSTANTS
    Tasks,           \* the tasks passed to run, each by a call of its own
    Throwing,        \* those that may throw
    Closers,         \* the calls of shutdown
    None,            \* null
    maxThreadsCount

ASSUME ConstantsAssumption ==
    /\ Throwing \subseteq Tasks
    /\ None \notin Tasks
    /\ maxThreadsCount \in Nat \ {0}

Workers == 1..maxThreadsCount

VARIABLES
    isShutdown,   \* _isShutdown
    queue,        \* the deque
    size,         \* pool.length
    call, pos,    \* how far run(t) is, and which worker it looks at
    closer, next, \* the same for every call of shutdown
    task, dead, told, waiter,  \* of each worker: task, dead, isShutdown, waiter
    thread, fn,   \* of each worker thread: where it is and what it runs
    executed      \* history: how often each task has run

poolVars   == <<isShutdown, queue, size>>
callVars   == <<call, pos, closer, next>>
workerVars == <<task, dead, told, waiter>>
vars == <<poolVars, callVars, workerVars, thread, fn, executed>>

Init ==
    /\ isShutdown = FALSE /\ queue = <<>> /\ size = 0
    /\ call = [t \in Tasks |-> "idle"] /\ pos = 1
    /\ closer = [c \in Closers |-> "idle"] /\ next = 1
    /\ task = [w \in Workers |-> None]
    /\ dead = [w \in Workers |-> FALSE]
    /\ told = [w \in Workers |-> FALSE]
    /\ waiter = [w \in Workers |-> 0]
    /\ thread = [w \in Workers |-> "none"]
    /\ fn = [w \in Workers |-> None]
    /\ executed = [t \in Tasks |-> 0]

\* Whoever scans the pool holds the mutex.
MutexFree ==
    /\ \A t \in Tasks : call[t] # "locked"
    /\ \A c \in Closers : closer[c] # "locked"
-----------------------------------------------------------------------------
(* run *)

RunCheck(t) ==
    /\ call[t] = "idle"
    /\ call' = [call EXCEPT ![t] = IF isShutdown THEN "rejected" ELSE "checked"]
    /\ UNCHANGED <<poolVars, pos, closer, next, workerVars, thread, fn, executed>>

RunLock(t) ==
    /\ call[t] = "checked" /\ MutexFree
    /\ call' = [call EXCEPT ![t] = "locked"]
    /\ pos' = 1
    /\ UNCHANGED <<poolVars, closer, next, workerVars, thread, fn, executed>>

\* wakeup
Wakeup(w, t) ==
    /\ dead' = [dead EXCEPT ![w] = FALSE]
    /\ thread' = IF dead[w] THEN [thread EXCEPT ![w] = "wait"] ELSE thread
    /\ task' = [task EXCEPT ![w] = t]
    /\ waiter' = [waiter EXCEPT ![w] = @ + 1]
    /\ call' = [call EXCEPT ![t] = "handed"]
    /\ UNCHANGED <<isShutdown, queue, pos, closer, next, told, fn, executed>>

RunNextWorker(t) ==
    /\ call[t] = "locked" /\ pos <= size /\ task[pos] # None
    /\ pos' = pos + 1
    /\ UNCHANGED <<poolVars, call, closer, next, workerVars, thread, fn, executed>>

RunWakeup(t) ==
    /\ call[t] = "locked" /\ pos <= size /\ task[pos] = None
    /\ Wakeup(pos, t)
    /\ UNCHANGED size

RunNewWorker(t) ==
    /\ call[t] = "locked" /\ pos > size /\ size < maxThreadsCount
    /\ size' = size + 1
    /\ thread' = [thread EXCEPT ![size + 1] = "wait"]
    /\ task' = [task EXCEPT ![size + 1] = t]
    /\ waiter' = [waiter EXCEPT ![size + 1] = @ + 1]
    /\ call' = [call EXCEPT ![t] = "handed"]
    /\ UNCHANGED <<isShutdown, queue, pos, closer, next, dead, told, fn, executed>>

RunQueue(t) ==
    /\ call[t] = "locked" /\ pos > size /\ size = maxThreadsCount
    /\ queue' = Append(queue, t)
    /\ call' = [call EXCEPT ![t] = "queued"]
    /\ UNCHANGED <<isShutdown, size, pos, closer, next, workerVars, thread, fn, executed>>
-----------------------------------------------------------------------------
(* shutdown *)

\* The flag is read before the mutex is taken: two calls may both find it unset.
ShutdownCheck(c) ==
    /\ closer[c] = "idle"
    /\ closer' = [closer EXCEPT ![c] = IF isShutdown THEN "done" ELSE "checked"]
    /\ UNCHANGED <<poolVars, call, pos, next, workerVars, thread, fn, executed>>

ShutdownLock(c) ==
    /\ closer[c] = "checked" /\ MutexFree
    /\ closer' = [closer EXCEPT ![c] = "locked"] /\ next' = 1
    /\ isShutdown' = TRUE
    /\ UNCHANGED <<queue, size, call, pos, workerVars, thread, fn, executed>>

ShutdownWorker(c) ==
    /\ closer[c] = "locked" /\ next <= size
    /\ told' = [told EXCEPT ![next] = TRUE]
    /\ waiter' = [waiter EXCEPT ![next] = @ + 1]
    /\ next' = next + 1
    /\ UNCHANGED <<poolVars, call, pos, closer, task, dead, thread, fn, executed>>

ShutdownUnlock(c) ==
    /\ closer[c] = "locked" /\ next > size
    /\ closer' = [closer EXCEPT ![c] = "done"]
    /\ UNCHANGED <<poolVars, call, pos, next, workerVars, thread, fn, executed>>
-----------------------------------------------------------------------------
(* Worker.loop *)

WaitReturns(w) ==
    /\ thread[w] = "wait" /\ waiter[w] > 0
    /\ waiter' = [waiter EXCEPT ![w] = @ - 1]
    /\ thread' = [thread EXCEPT ![w] = "woken"]
    /\ UNCHANGED <<poolVars, callVars, task, dead, told, fn, executed>>

WaitTimesOut(w) ==
    /\ thread[w] = "wait" /\ waiter[w] = 0
    /\ thread' = [thread EXCEPT ![w] = "dying"]
    /\ UNCHANGED <<poolVars, callVars, workerVars, fn, executed>>

ReadTask(w) ==
    /\ thread[w] = "woken"
    /\ \/ /\ task[w] = None
          /\ thread' = [thread EXCEPT ![w] = IF told[w] THEN "dying" ELSE "wait"]
          /\ UNCHANGED fn
       \/ /\ task[w] # None
          /\ fn' = [fn EXCEPT ![w] = task[w]]
          /\ thread' = [thread EXCEPT ![w] = "run"]
    /\ UNCHANGED <<poolVars, callVars, workerVars, executed>>

Executes(w) == executed' = [executed EXCEPT ![fn[w]] = @ + 1]

FunctionReturns(w) ==
    /\ thread[w] = "run"
    /\ Executes(w)
    /\ thread' = [thread EXCEPT ![w] = "drain"]
    /\ UNCHANGED <<poolVars, callVars, workerVars, fn>>

FunctionThrows(w) ==
    /\ thread[w] = "run" /\ fn[w] \in Throwing
    /\ Executes(w)
    /\ thread' = [thread EXCEPT ![w] = "catch"]
    /\ UNCHANGED <<poolVars, callVars, workerVars, fn>>

\* "if more tasks were added while all threads were busy"
PopQueue(w) ==
    /\ thread[w] = "drain"
    /\ \/ /\ queue # <<>>
          /\ fn' = [fn EXCEPT ![w] = Head(queue)]
          /\ queue' = Tail(queue)
          /\ thread' = [thread EXCEPT ![w] = "run"]
       \/ /\ queue = <<>>
          /\ thread' = [thread EXCEPT ![w] = "clear"]
          /\ UNCHANGED <<queue, fn>>
    /\ UNCHANGED <<isShutdown, size, callVars, workerVars, executed>>

\* Faulty: the task stays where it was read.
ClearTask_Keep(w) ==
    /\ thread[w] = "clear"
    /\ thread' = [thread EXCEPT ![w] = "wait"]
    /\ UNCHANGED <<poolVars, callVars, workerVars, fn, executed>>

ClearTask(w) ==
    /\ thread[w] = "clear"
    /\ task' = [task EXCEPT ![w] = None]
    /\ thread' = [thread EXCEPT ![w] = "wait"]
    /\ UNCHANGED <<poolVars, callVars, dead, told, waiter, fn, executed>>

\* Faulty: nobody looks whether a task came after the time was up.
Die_Unchecked(w) ==
    /\ thread[w] = "dying"
    /\ dead' = [dead EXCEPT ![w] = TRUE]
    /\ thread' = [thread EXCEPT ![w] = "none"]
    /\ UNCHANGED <<poolVars, callVars, task, told, waiter, fn, executed>>

\* "in case a task was submitted right after the lock timed out"
Die(w) ==
    /\ thread[w] = "dying"
    /\ dead' = [dead EXCEPT ![w] = (task[w] = None)]
    /\ thread' = [thread EXCEPT ![w] = IF task[w] = None THEN "none" ELSE "wait"]
    /\ UNCHANGED <<poolVars, callVars, task, told, waiter, fn, executed>>

CatchClear(w) ==
    /\ thread[w] = "catch"
    /\ task' = [task EXCEPT ![w] = None]
    /\ thread' = [thread EXCEPT ![w] = "restart"]
    /\ UNCHANGED <<poolVars, callVars, dead, told, waiter, fn, executed>>

\* Faulty: restarts first, and clears the task another thread already sees.
CatchRestart_ClearLast(w) ==
    /\ thread[w] = "restart"
    /\ dead' = [dead EXCEPT ![w] = FALSE]
    /\ task' = [task EXCEPT ![w] = None]
    /\ thread' = [thread EXCEPT ![w] = "wait"]
    /\ UNCHANGED <<poolVars, callVars, told, waiter, fn, executed>>

CatchRestart(w) ==
    /\ thread[w] = "restart"
    /\ dead' = [dead EXCEPT ![w] = FALSE]
    /\ thread' = [thread EXCEPT ![w] = "wait"]
    /\ UNCHANGED <<poolVars, callVars, task, told, waiter, fn, executed>>
-----------------------------------------------------------------------------
Run(t) ==
    RunLock(t) \/ RunNextWorker(t) \/ RunWakeup(t) \/ RunNewWorker(t) \/ RunQueue(t)

Shutdown(c) == ShutdownLock(c) \/ ShutdownWorker(c) \/ ShutdownUnlock(c)

Loop(w) ==
    \/ WaitReturns(w) \/ ReadTask(w) \/ FunctionReturns(w) \/ FunctionThrows(w)
    \/ PopQueue(w) \/ ClearTask(w) \/ Die(w) \/ CatchClear(w) \/ CatchRestart(w)

Next ==
    \/ \E t \in Tasks : RunCheck(t) \/ Run(t)
    \/ \E c \in Closers : ShutdownCheck(c) \/ Shutdown(c)
    \/ \E w \in Workers : Loop(w) \/ WaitTimesOut(w)

\* Threads run and tasks return; nobody has to call run or shutdown, and no
\* time has to run out.
Spec ==
    /\ Init /\ [][Next]_vars
    /\ \A t \in Tasks : WF_vars(Run(t))
    /\ \A c \in Closers : WF_vars(Shutdown(c))
    /\ \A w \in Workers : WF_vars(Loop(w))
-----------------------------------------------------------------------------
(* Properties *)

DeadHasNoTask == \A w \in Workers : dead[w] => task[w] = None /\ thread[w] = "none"

\* The types; a worker that is dead has no task and no thread.
TypeOK ==
    /\ isShutdown \in BOOLEAN /\ queue \in Seq(Tasks) /\ size \in 0..maxThreadsCount
    /\ call \in [Tasks -> {"idle", "checked", "locked", "rejected", "handed", "queued"}]
    /\ pos \in Nat /\ next \in Nat
    /\ closer \in [Closers -> {"idle", "checked", "locked", "done"}]
    /\ task \in [Workers -> Tasks \union {None}]
    /\ dead \in [Workers -> BOOLEAN] /\ told \in [Workers -> BOOLEAN]
    /\ waiter \in [Workers -> Nat]
    /\ thread \in [Workers -> {"none", "wait", "woken", "run", "drain", "clear",
                               "dying", "catch", "restart"}]
    /\ fn \in [Workers -> Tasks \union {None}]
    /\ executed \in [Tasks -> Nat]
    /\ DeadHasNoTask

(***************************************************************************)
(* No task runs twice, although the lock is also released by shutdown, and *)
(* a worker that wakes looks at the field its last task was in.            *)
(***************************************************************************)
NoTaskTwice == \A t \in Tasks : executed[t] <= 1

(***************************************************************************)
(* A task handed to a worker runs, whether the worker just timed out, died,*)
(* was told to shut down or is being replaced after an exception.          *)
(***************************************************************************)
HandedTasksRun == \A t \in Tasks : call[t] = "handed" ~> executed[t] > 0

(***************************************************************************)
(* "if more tasks were added while all threads were busy" (line 175): the  *)
(* tasks in the deque are run by the workers that become free.             *)
(***************************************************************************)
QueuedTasksRun == \A t \in Tasks : call[t] = "queued" ~> executed[t] > 0
=============================================================================
