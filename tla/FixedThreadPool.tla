--------------------------- MODULE FixedThreadPool ---------------------------
(***************************************************************************)
(* sys.thread.FixedThreadPool: a fixed number of workers take tasks from   *)
(* one Deque until each has taken a shutdownTask.  run and shutdown take   *)
(* no lock: the flag is read and the deque extended in separate steps.     *)
(*                                                                         *)
(* Every task is submitted by a call of its own, so the calls stand for    *)
(* any assignment of tasks to threads.                                     *)
(***************************************************************************)
EXTENDS Naturals, Sequences

CONSTANTS
    threadsCount,
    Tasks,         \* the tasks passed to run
    Throwing,      \* those that may throw
    Closers,       \* the calls of shutdown
    Pill           \* shutdownTask

ASSUME ConstantsAssumption ==
    /\ Throwing \subseteq Tasks
    /\ Pill \notin Tasks
    /\ threadsCount \in Nat \ {0}

\* The pool.
Workers == 1..threadsCount

VARIABLES
    isShutdown,  \* _isShutdown
    queue,       \* the deque
    call,        \* how far the call run(t) is
    closer,      \* how far a call of shutdown is
    pills,       \* the shutdownTasks it has left to add
    worker,      \* what a worker does: "pop", "gone" or the task it runs
    executed     \* history: the tasks that have run

vars == <<isShutdown, queue, call, closer, pills, worker, executed>>

Init ==
    /\ isShutdown = FALSE /\ queue = <<>>
    /\ call = [t \in Tasks |-> "idle"]
    /\ closer = [c \in Closers |-> "idle"]
    /\ pills = [c \in Closers |-> threadsCount]
    /\ worker = [w \in Workers |-> "pop"]
    /\ executed = {}
-----------------------------------------------------------------------------
RunCheck(t) ==
    /\ call[t] = "idle"
    /\ call' = [call EXCEPT ![t] = IF isShutdown THEN "rejected" ELSE "checked"]
    /\ UNCHANGED <<isShutdown, queue, closer, pills, worker, executed>>

RunAdd(t) ==
    /\ call[t] = "checked"
    /\ queue' = Append(queue, t)
    /\ call' = [call EXCEPT ![t] = "accepted"]
    /\ UNCHANGED <<isShutdown, closer, pills, worker, executed>>

ShutdownCheck(c) ==
    /\ closer[c] = "idle"
    /\ closer' = [closer EXCEPT ![c] = IF isShutdown THEN "done" ELSE "checked"]
    /\ UNCHANGED <<isShutdown, queue, call, pills, worker, executed>>

ShutdownSet(c) ==
    /\ closer[c] = "checked"
    /\ isShutdown' = TRUE
    /\ closer' = [closer EXCEPT ![c] = "adding"]
    /\ UNCHANGED <<queue, call, pills, worker, executed>>

\* Faulty: push instead of add.
ShutdownAdd_Push(c) ==
    /\ closer[c] = "adding" /\ pills[c] > 0
    /\ queue' = <<Pill>> \o queue
    /\ pills' = [pills EXCEPT ![c] = @ - 1]
    /\ UNCHANGED <<isShutdown, call, closer, worker, executed>>

\* Faulty: one pill too many.
ShutdownAdd_OneMore(c) ==
    /\ closer[c] = "adding" /\ pills[c] >= 0
    /\ queue' = Append(queue, Pill)
    /\ pills' = [pills EXCEPT ![c] = @ - 1]
    /\ UNCHANGED <<isShutdown, call, closer, worker, executed>>

ShutdownAdd(c) ==
    /\ closer[c] = "adding" /\ pills[c] > 0
    /\ queue' = Append(queue, Pill)
    /\ pills' = [pills EXCEPT ![c] = @ - 1]
    /\ UNCHANGED <<isShutdown, call, closer, worker, executed>>
-----------------------------------------------------------------------------
(* Worker.loop *)

Pop(w) ==
    /\ worker[w] = "pop" /\ queue # <<>> /\ Head(queue) # Pill
    /\ worker' = [worker EXCEPT ![w] = Head(queue)]
    /\ queue' = Tail(queue)
    /\ UNCHANGED <<isShutdown, call, closer, pills, executed>>

\* Faulty: the ShutdownException is handled like any other.
PopPill_Replace(w) ==
    /\ worker[w] = "pop" /\ queue # <<>> /\ Head(queue) = Pill
    /\ queue' = Tail(queue)
    /\ UNCHANGED <<isShutdown, call, closer, pills, worker, executed>>

PopPill(w) ==
    /\ worker[w] = "pop" /\ queue # <<>> /\ Head(queue) = Pill
    /\ worker' = [worker EXCEPT ![w] = "gone"]
    /\ queue' = Tail(queue)
    /\ UNCHANGED <<isShutdown, call, closer, pills, executed>>

TaskReturns(w) ==
    /\ worker[w] \in Tasks
    /\ executed' = executed \union {worker[w]}
    /\ worker' = [worker EXCEPT ![w] = "pop"]
    /\ UNCHANGED <<isShutdown, queue, call, closer, pills>>

\* The thread ends with the exception and a new one takes its place.
TaskThrows(w) ==
    /\ worker[w] \in Throwing
    /\ executed' = executed \union {worker[w]}
    /\ worker' = [worker EXCEPT ![w] = "pop"]
    /\ UNCHANGED <<isShutdown, queue, call, closer, pills>>
-----------------------------------------------------------------------------
Run(t)      == RunCheck(t) \/ RunAdd(t)
Shutdown(c) == ShutdownCheck(c) \/ ShutdownSet(c) \/ ShutdownAdd(c)
Loop(w)     == Pop(w) \/ PopPill(w) \/ TaskReturns(w) \/ TaskThrows(w)

Next ==
    \/ \E t \in Tasks : Run(t)
    \/ \E c \in Closers : Shutdown(c)
    \/ \E w \in Workers : Loop(w)

\* Threads run, tasks return, and a call of shutdown that was begun goes on;
\* nobody has to call run or shutdown.
Spec ==
    /\ Init /\ [][Next]_vars
    /\ \A w \in Workers : WF_vars(Loop(w))
    /\ \A c \in Closers : WF_vars(ShutdownSet(c) \/ ShutdownAdd(c))
-----------------------------------------------------------------------------
(* Properties *)

\* The types; a call of shutdown adds no more pills than there are workers.
FixedTypeOK ==
    /\ isShutdown \in BOOLEAN
    /\ queue \in Seq(Tasks \union {Pill})
    /\ call \in [Tasks -> {"idle", "checked", "accepted", "rejected"}]
    /\ closer \in [Closers -> {"idle", "checked", "adding", "done"}]
    /\ pills \in [Closers -> 0..threadsCount]
    /\ \A c \in Closers : closer[c] # "adding" => pills[c] = threadsCount
    /\ worker \in [Workers -> {"pop", "gone"} \union Tasks]
    /\ executed \subseteq Tasks

(***************************************************************************)
(* "All previousely submitted tasks will be executed": a task in the deque *)
(* when shutdown begins is run although every worker is told to stop and   *)
(* others are lost to exceptions.                                          *)
(***************************************************************************)
SubmittedBeforeShutdownRuns ==
    \A t \in Tasks : (call[t] = "accepted" /\ ~isShutdown) ~> t \in executed

\* A shutdown ends every worker, however many shutdowns race and tasks throw.
WorkersEnd == isShutdown ~> \A w \in Workers : worker[w] = "gone"
=============================================================================
