-------------------------- MODULE ThreadPoolProofs --------------------------
(***************************************************************************)
(* Theorems about the two pools of sys.thread.                             *)
(*                                                                         *)
(* ElasticThreadPool: a task that was accepted and has not run yet is in   *)
(* one place: in the deque, in the field `task' of a worker that has yet   *)
(* to read it, or the function a worker thread runs.                       *)
(*                                                                         *)
(* FixedThreadPool is an instance that has the same names for the same     *)
(* things.  Its assumption is a hypothesis of what is proved about it.     *)
(***************************************************************************)
EXTENDS ElasticThreadPool, SequenceTheorems, TLAPS

CONSTANTS threadsCount, Pill
VARIABLES pills, worker

Fixed == INSTANCE FixedThreadPool

Calls == {"idle", "checked", "locked", "rejected", "handed", "queued"}
Places == {"none", "wait", "woken", "run", "drain", "clear", "dying", "catch", "restart"}

\* TypeOK in parts.
CallsOK ==
    /\ isShutdown \in BOOLEAN /\ size \in 0..maxThreadsCount
    /\ call \in [Tasks -> Calls] /\ pos \in Nat \ {0} /\ next \in Nat \ {0}
    /\ closer \in [Closers -> {"idle", "checked", "locked", "done"}]

WorkersOK ==
    /\ task \in [Workers -> Tasks \union {None}]
    /\ dead \in [Workers -> BOOLEAN] /\ told \in [Workers -> BOOLEAN]
    /\ waiter \in [Workers -> Nat]
    /\ thread \in [Workers -> Places]
    /\ fn \in [Workers -> Tasks \union {None}]
    /\ \A w \in Workers : thread[w] = "run" => fn[w] # None
    /\ executed \in [Tasks -> Nat]
    /\ DeadHasNoTask

\* Workers beyond the size of the pool have not been made.
Unmade == \A w \in Workers : w > size => ~dead[w] /\ thread[w] = "none"

TypeInv == queue \in Seq(Tasks) /\ CallsOK /\ WorkersOK /\ Unmade

LEMMA InitType == Init => TypeInv
<1> SUFFICES ASSUME Init PROVE TypeInv
  OBVIOUS
<1>1. queue \in Seq(Tasks)
  BY EmptySeq DEF Init
<1>2. isShutdown \in BOOLEAN
  BY Zenon DEF Init
<1>3. CallsOK
  BY <1>2, ConstantsAssumption DEF Init, CallsOK, Calls
<1>4. dead \in [Workers -> BOOLEAN] /\ told \in [Workers -> BOOLEAN] /\ \A w \in Workers : ~dead[w]
  BY Zenon DEF Init
<1>5. WorkersOK /\ Unmade
  BY <1>4, ConstantsAssumption DEF Init, WorkersOK, DeadHasNoTask, Unmade, Places
<1> QED
  BY <1>1, <1>3, <1>5 DEF TypeInv

LEMMA QueueStep ==
  ASSUME queue \in Seq(Tasks), [Next]_vars
  PROVE  queue' \in Seq(Tasks)
<1> USE DEF poolVars
<1>1. ASSUME NEW t \in Tasks, RunCheck(t) \/ Run(t)
      PROVE  UNCHANGED queue \/ queue' = Append(queue, t)
  BY <1>1 DEF Run, RunCheck, RunLock, RunNextWorker, RunWakeup, Wakeup, RunNewWorker, RunQueue
<1>2. ASSUME NEW c \in Closers, ShutdownCheck(c) \/ Shutdown(c) PROVE UNCHANGED queue
  BY <1>2 DEF ShutdownCheck, ShutdownLock, Shutdown, ShutdownWorker, ShutdownUnlock
<1>3. ASSUME NEW w \in Workers, Loop(w) \/ WaitTimesOut(w)
      PROVE  UNCHANGED queue \/ (queue # << >> /\ queue' = Tail(queue))
  BY <1>3 DEF Loop, WaitReturns, WaitTimesOut, ReadTask, FunctionReturns, FunctionThrows, PopQueue,
              ClearTask, Die, CatchClear, CatchRestart
<1>4. ASSUME UNCHANGED vars PROVE UNCHANGED queue
  BY <1>4 DEF vars
<1>5. ASSUME NEW t \in Tasks, queue' = Append(queue, t) PROVE queue' \in Seq(Tasks)
  BY <1>5, AppendProperties
<1>6. ASSUME queue # << >>, queue' = Tail(queue) PROVE queue' \in Seq(Tasks)
  BY <1>6, HeadTailProperties
<1> QED
  BY <1>1, <1>2, <1>3, <1>4, <1>5, <1>6 DEF Next

LEMMA RunType ==
  ASSUME CallsOK, WorkersOK, Unmade, NEW t \in Tasks, RunCheck(t) \/ Run(t)
  PROVE  CallsOK' /\ WorkersOK' /\ Unmade'
<1> USE ConstantsAssumption
    DEF CallsOK, WorkersOK, Unmade, DeadHasNoTask, Calls, Places, Workers, poolVars, workerVars
<1>1. CASE RunCheck(t)
  BY <1>1 DEF RunCheck
<1>2. CASE RunLock(t)
  BY <1>2 DEF RunLock
<1>3. CASE RunNextWorker(t)
  BY <1>3 DEF RunNextWorker
<1>4. CASE RunWakeup(t)
  BY <1>4 DEF RunWakeup, Wakeup
<1>5. CASE RunNewWorker(t)
  BY <1>5 DEF RunNewWorker
<1>6. CASE RunQueue(t)
  BY <1>6 DEF RunQueue
<1> QED
  BY <1>1, <1>2, <1>3, <1>4, <1>5, <1>6 DEF Run

LEMMA ShutdownType ==
  ASSUME CallsOK, WorkersOK, Unmade, NEW c \in Closers, ShutdownCheck(c) \/ Shutdown(c)
  PROVE  CallsOK' /\ WorkersOK' /\ Unmade'
<1> USE ConstantsAssumption
    DEF CallsOK, WorkersOK, Unmade, DeadHasNoTask, Calls, Places, Workers, poolVars, workerVars
<1>0. CASE ShutdownCheck(c)
  BY <1>0 DEF ShutdownCheck
<1>1. CASE ShutdownLock(c)
  BY <1>1 DEF ShutdownLock
<1>2. CASE ShutdownWorker(c)
  BY <1>2 DEF ShutdownWorker
<1>3. CASE ShutdownUnlock(c)
  BY <1>3 DEF ShutdownUnlock
<1> QED
  BY <1>0, <1>1, <1>2, <1>3 DEF Shutdown

LEMMA LoopType ==
  ASSUME queue \in Seq(Tasks), CallsOK, WorkersOK, Unmade,
         NEW w \in Workers, Loop(w) \/ WaitTimesOut(w)
  PROVE  CallsOK' /\ WorkersOK' /\ Unmade'
<1>0. ASSUME PopQueue(w)
      PROVE  /\ UNCHANGED <<isShutdown, size, callVars, workerVars, executed>>
             /\ thread[w] = "drain"
             /\ \/ /\ fn' = fn
                   /\ thread' = [thread EXCEPT ![w] = "clear"]
                \/ \E t \in Tasks : /\ fn' = [fn EXCEPT ![w] = t]
                                     /\ thread' = [thread EXCEPT ![w] = "run"]
  BY <1>0, HeadTailProperties, Zenon DEF PopQueue
<1> USE ConstantsAssumption
    DEF CallsOK, WorkersOK, Unmade, DeadHasNoTask, Calls, Places, poolVars, callVars, workerVars
<1>1. CASE WaitReturns(w)
  BY <1>1 DEF WaitReturns
<1>2. CASE WaitTimesOut(w)
  BY <1>2 DEF WaitTimesOut
<1>3. CASE ReadTask(w)
  <2>1. /\ UNCHANGED <<isShutdown, size, call, pos, closer, next, task, dead, told, waiter, executed>>
        /\ thread[w] = "woken"
    BY <1>3 DEF ReadTask
  <2>2. \E p \in {"dying", "wait", "run"} :
          /\ thread' = [thread EXCEPT ![w] = p]
          /\ IF p = "run" THEN fn' = [fn EXCEPT ![w] = task[w]] /\ task[w] # None ELSE fn' = fn
    <3>1. \A x : [thread EXCEPT ![w] = IF told[w] THEN "dying" ELSE "wait"] = x =>
                  x = [thread EXCEPT ![w] = "dying"] \/ x = [thread EXCEPT ![w] = "wait"]
      OBVIOUS
    <3> QED
      BY <1>3, <3>1 DEF ReadTask
  <2>3. PICK p \in {"dying", "wait", "run"} :
          /\ thread' = [thread EXCEPT ![w] = p]
          /\ IF p = "run" THEN fn' = [fn EXCEPT ![w] = task[w]] /\ task[w] # None ELSE fn' = fn
    BY <2>2
  <2>4. CallsOK'
    BY <2>1
  <2>5. thread' \in [Workers -> Places] /\ DeadHasNoTask'
    BY <2>1, <2>3
  <2>6. fn' \in [Workers -> Tasks \union {None}] /\ \A v \in Workers : thread'[v] = "run" => fn'[v] # None
    BY <2>3
  <2>7. Unmade'
    BY <2>1, <2>3
  <2> QED
    BY <2>1, <2>4, <2>5, <2>6, <2>7
<1>4. CASE FunctionReturns(w)
  <2>1. /\ UNCHANGED <<isShutdown, size, call, pos, closer, next, task, dead, told, waiter, fn>>
        /\ thread[w] = "run" /\ fn[w] \in Tasks /\ executed' = [executed EXCEPT ![fn[w]] = @ + 1]
        /\ thread' = [thread EXCEPT ![w] = "drain"]
    BY <1>4 DEF FunctionReturns, Executes
  <2>2. CallsOK'
    BY <2>1
  <2>3. executed' \in [Tasks -> Nat] /\ DeadHasNoTask'
    BY <2>1
  <2>4. thread' \in [Workers -> Places] /\ \A v \in Workers : thread'[v] = "run" => fn'[v] # None
    BY <2>1
  <2>5. Unmade'
    BY <2>1
  <2> QED
    BY <2>1, <2>2, <2>3, <2>4, <2>5
<1>5. CASE FunctionThrows(w)
  <2>1. /\ UNCHANGED <<isShutdown, size, call, pos, closer, next, task, dead, told, waiter, fn>>
        /\ thread[w] = "run" /\ fn[w] \in Tasks /\ executed' = [executed EXCEPT ![fn[w]] = @ + 1]
        /\ thread' = [thread EXCEPT ![w] = "catch"]
    BY <1>5 DEF FunctionThrows, Executes
  <2>2. CallsOK'
    BY <2>1
  <2>3. executed' \in [Tasks -> Nat] /\ DeadHasNoTask'
    BY <2>1
  <2>4. thread' \in [Workers -> Places] /\ \A v \in Workers : thread'[v] = "run" => fn'[v] # None
    BY <2>1
  <2>5. Unmade'
    BY <2>1
  <2> QED
    BY <2>1, <2>2, <2>3, <2>4, <2>5
<1>6. CASE PopQueue(w)
  <2>1. /\ UNCHANGED <<isShutdown, size, call, pos, closer, next>>
        /\ UNCHANGED <<task, dead, told, waiter, executed>> /\ thread[w] = "drain"
    BY <1>0, <1>6
  <2>2. CASE fn' = fn /\ thread' = [thread EXCEPT ![w] = "clear"]
    BY <2>1, <2>2
  <2>3. ASSUME NEW t \in Tasks, fn' = [fn EXCEPT ![w] = t], thread' = [thread EXCEPT ![w] = "run"]
        PROVE  CallsOK' /\ WorkersOK' /\ Unmade'
    BY <2>1, <2>3
  <2> QED
    BY <1>0, <1>6, <2>2, <2>3
<1>7. CASE ClearTask(w)
  <2>1. /\ UNCHANGED <<isShutdown, size, call, pos, closer, next, dead, told, waiter, fn, executed>>
        /\ thread[w] = "clear" /\ task' = [task EXCEPT ![w] = None]
        /\ thread' = [thread EXCEPT ![w] = "wait"]
    BY <1>7 DEF ClearTask
  <2>2. CallsOK'
    BY <2>1
  <2>3. task' \in [Workers -> Tasks \union {None}] /\ DeadHasNoTask'
    BY <2>1
  <2>4. thread' \in [Workers -> Places] /\ \A v \in Workers : thread'[v] = "run" => fn'[v] # None
    BY <2>1
  <2>5. Unmade'
    BY <2>1
  <2> QED
    BY <2>1, <2>2, <2>3, <2>4, <2>5
<1>8. CASE Die(w)
  <2>1. /\ UNCHANGED <<isShutdown, size, call, pos, closer, next, task, told, waiter, fn, executed>>
        /\ thread[w] = "dying" /\ dead' = [dead EXCEPT ![w] = (task[w] = None)]
        /\ thread' = [thread EXCEPT ![w] = IF task[w] = None THEN "none" ELSE "wait"]
    BY <1>8 DEF Die
  <2>2. CallsOK'
    BY <2>1
  <2>3. dead' \in [Workers -> BOOLEAN] /\ DeadHasNoTask'
    BY <2>1
  <2>4. thread' \in [Workers -> Places] /\ \A v \in Workers : thread'[v] = "run" => fn'[v] # None
    BY <2>1
  <2>5. Unmade'
    BY <2>1
  <2> QED
    BY <2>1, <2>2, <2>3, <2>4, <2>5
<1>9. CASE CatchClear(w)
  <2>1. /\ UNCHANGED <<isShutdown, size, call, pos, closer, next, dead, told, waiter, fn, executed>>
        /\ thread[w] = "catch" /\ task' = [task EXCEPT ![w] = None]
        /\ thread' = [thread EXCEPT ![w] = "restart"]
    BY <1>9 DEF CatchClear
  <2>2. CallsOK'
    BY <2>1
  <2>3. task' \in [Workers -> Tasks \union {None}] /\ DeadHasNoTask'
    BY <2>1
  <2>4. thread' \in [Workers -> Places] /\ \A v \in Workers : thread'[v] = "run" => fn'[v] # None
    BY <2>1
  <2>5. Unmade'
    BY <2>1
  <2> QED
    BY <2>1, <2>2, <2>3, <2>4, <2>5
<1>10. CASE CatchRestart(w)
  <2>1. /\ UNCHANGED <<isShutdown, size, call, pos, closer, next, task, told, waiter, fn, executed>>
        /\ thread[w] = "restart" /\ dead' = [dead EXCEPT ![w] = FALSE]
        /\ thread' = [thread EXCEPT ![w] = "wait"]
    BY <1>10 DEF CatchRestart
  <2>2. CallsOK'
    BY <2>1
  <2>3. dead' \in [Workers -> BOOLEAN] /\ DeadHasNoTask'
    BY <2>1
  <2>4. thread' \in [Workers -> Places] /\ \A v \in Workers : thread'[v] = "run" => fn'[v] # None
    BY <2>1
  <2>5. Unmade'
    BY <2>1
  <2> QED
    BY <2>1, <2>2, <2>3, <2>4, <2>5
<1> QED
  BY <1>1, <1>2, <1>3, <1>4, <1>5, <1>6, <1>7, <1>8, <1>9, <1>10 DEF Loop

LEMMA TypeInvStep ==
  ASSUME TypeInv, [Next]_vars
  PROVE  TypeInv'
<1>1. queue' \in Seq(Tasks)
  BY QueueStep DEF TypeInv
<1>2. ASSUME UNCHANGED vars PROVE CallsOK' /\ WorkersOK' /\ Unmade'
  BY <1>2 DEF vars, poolVars, callVars, workerVars, TypeInv, CallsOK, WorkersOK, Unmade, DeadHasNoTask
<1> QED
  BY <1>1, <1>2, RunType, ShutdownType, LoopType DEF TypeInv, Next

(***************************************************************************)
(* Every variable keeps its type for every number of threads and tasks. A  *)
(* worker declared dead has no task: run puts a task only into one whose   *)
(* thread it starts or that will look again.                               *)
(***************************************************************************)
THEOREM TypeCorrect == Spec => []TypeOK
<1>1. TypeInv => TypeOK
  BY DEF TypeInv, TypeOK, CallsOK, WorkersOK, Calls, Places
<1> QED
  BY <1>1, InitType, TypeInvStep, PTL DEF Spec
-----------------------------------------------------------------------------
(* A task has one place *)

\* The thread will look at the field `task' before it clears it.
Reads(w) == thread[w] \in {"wait", "woken", "dying", "restart"}

Has(w, t) == (Reads(w) /\ task[w] = t) \/ (thread[w] = "run" /\ fn[w] = t)

Queued(t) == \E i \in 1..Len(queue) : queue[i] = t

Once == \A i, j \in 1..Len(queue) : queue[i] = queue[j] => i = j

OnePlace ==
    /\ \A t \in Tasks, v, w \in Workers : Has(v, t) /\ Has(w, t) => v = w
    /\ \A t \in Tasks, w \in Workers : Queued(t) => ~Has(w, t)
    /\ Once

Accepted(t) == call[t] \in {"handed", "queued"}

NotYet ==
    /\ \A t \in Tasks : Queued(t) => executed[t] = 0 /\ Accepted(t)
    /\ \A t \in Tasks, w \in Workers : Has(w, t) => executed[t] = 0 /\ Accepted(t)
    /\ \A t \in Tasks : ~Accepted(t) => executed[t] = 0
    /\ \A t \in Tasks : executed[t] <= 1

PlaceInv == OnePlace /\ NotYet

LEMMA QueueAppend ==
  ASSUME queue \in Seq(Tasks), NEW t \in Tasks, queue' = Append(queue, t)
  PROVE  /\ \A s : Queued(s)' <=> Queued(s) \/ s = t
         /\ Once /\ ~Queued(t) => Once'
<1>1. /\ Len(queue) \in Nat /\ Len(queue') = Len(queue) + 1 /\ queue'[Len(queue) + 1] = t
      /\ \A i \in 1..Len(queue) : queue'[i] = queue[i]
  BY AppendProperties, LenProperties
<1>2. \A i : i \in 1..Len(queue') <=> i \in 1..Len(queue) \/ i = Len(queue) + 1
  BY <1>1
<1>3. \A s : Queued(s)' <=> Queued(s) \/ s = t
  BY <1>1, <1>2, Zenon DEF Queued
<1>4. ASSUME Once, ~Queued(t) PROVE Once'
  <2>1. \A i \in 1..Len(queue) : queue[i] # t
    BY <1>4 DEF Queued
  <2> SUFFICES ASSUME NEW i \in 1..Len(queue'), NEW j \in 1..Len(queue'), queue'[i] = queue'[j]
               PROVE  i = j
    BY DEF Once
  <2>2. CASE i \in 1..Len(queue) /\ j \in 1..Len(queue)
    BY <1>1, <1>4, <2>2 DEF Once
  <2>3. i \in 1..Len(queue) => j \in 1..Len(queue)
    BY <1>1, <1>2, <2>1
  <2>4. j \in 1..Len(queue) => i \in 1..Len(queue)
    BY <1>1, <1>2, <2>1
  <2> QED
    BY <1>2, <2>2, <2>3, <2>4
<1> QED
  BY <1>3, <1>4

LEMMA QueueTail ==
  ASSUME queue \in Seq(Tasks), queue # << >>, queue' = Tail(queue), Once
  PROVE  /\ Queued(Head(queue)) /\ Head(queue) \in Tasks
         /\ \A s : Queued(s)' => Queued(s) /\ s # Head(queue)
         /\ Once'
<1>1. /\ Len(queue) \in Nat \ {0} /\ Len(queue') = Len(queue) - 1 /\ Head(queue) \in Tasks
      /\ Head(queue) = queue[1] /\ \A i \in 1..Len(queue') : queue'[i] = queue[i + 1]
  BY EmptySeq, LenProperties, HeadTailProperties
<1>2. /\ 1 \in 1..Len(queue)
      /\ \A i \in 1..Len(queue') : i \in Int /\ i + 1 \in 1..Len(queue) /\ i + 1 # 1
  BY <1>1
<1>3. Queued(Head(queue))
  BY <1>1, <1>2, Zenon DEF Queued
<1>4. ASSUME NEW s, Queued(s)' PROVE Queued(s) /\ s # Head(queue)
  <2>1. PICK i \in 1..Len(queue') : queue'[i] = s
    BY <1>4 DEF Queued
  <2> QED
    BY <1>1, <1>2, <2>1, Zenon DEF Queued, Once
<1>5. Once'
  <2> SUFFICES ASSUME NEW i \in 1..Len(queue'), NEW j \in 1..Len(queue'), queue'[i] = queue'[j]
               PROVE  i = j
    BY DEF Once
  <2>1. i + 1 = j + 1
    BY <1>1, <1>2, Zenon DEF Once
  <2> QED
    BY <1>2, <2>1
<1> QED
  BY <1>1, <1>3, <1>4, <1>5
-----------------------------------------------------------------------------
(* What a step does to the places *)

\* No task gets a new place, and none is accepted.
Quiet ==
    /\ UNCHANGED <<queue, executed>>
    /\ \A s \in Tasks : Accepted(s)' <=> Accepted(s)
    /\ \A s \in Tasks, v \in Workers : Has(v, s)' => Has(v, s)

\* A worker that is idle or new gets the task of a call of run.
Hands(t, w) ==
    /\ UNCHANGED <<queue, executed>> /\ ~Accepted(t)
    /\ \A s \in Tasks : Accepted(s)' <=> Accepted(s) \/ s = t
    /\ \A s \in Tasks, v \in Workers : Has(v, s)' => Has(v, s) \/ (v = w /\ s = t)

Queues(t) ==
    /\ queue' = Append(queue, t) /\ UNCHANGED executed /\ ~Accepted(t)
    /\ \A s \in Tasks : Accepted(s)' <=> Accepted(s) \/ s = t
    /\ \A s \in Tasks, v \in Workers : Has(v, s)' => Has(v, s)

Runs(w, t) ==
    /\ UNCHANGED queue /\ Has(w, t) /\ executed' = [executed EXCEPT ![t] = @ + 1]
    /\ \A s \in Tasks : Accepted(s)' <=> Accepted(s)
    /\ \A s \in Tasks, v \in Workers : Has(v, s)' => Has(v, s) /\ v # w

Takes(w) ==
    /\ queue # << >> /\ queue' = Tail(queue) /\ UNCHANGED executed
    /\ \A s \in Tasks : Accepted(s)' <=> Accepted(s)
    /\ \A s \in Tasks, v \in Workers : Has(v, s)' => Has(v, s) \/ (v = w /\ s = Head(queue))

LEMMA PlaceInvStep ==
  ASSUME TypeInv, PlaceInv,
         \/ Quiet
         \/ \E t \in Tasks, w \in Workers : Hands(t, w) \/ Runs(w, t)
         \/ \E t \in Tasks : Queues(t)
         \/ \E w \in Workers : Takes(w)
  PROVE  PlaceInv'
<1>0. queue \in Seq(Tasks) /\ executed \in [Tasks -> Nat]
  BY DEF TypeInv, WorkersOK
<1> USE DEF PlaceInv, OnePlace, NotYet
<1>1. ASSUME UNCHANGED queue
      PROVE  (Once <=> Once') /\ \A s : Queued(s)' <=> Queued(s)
  BY <1>1, Zenon DEF Once, Queued
<1>2. CASE Quiet
  BY <1>1, <1>2, Zenon DEF Quiet
<1>3. ASSUME NEW t \in Tasks, NEW w \in Workers, Hands(t, w) PROVE PlaceInv'
  <2>1. OnePlace'
    BY <1>1, <1>3, Zenon DEF Hands
  <2>2. NotYet'
    BY <1>1, <1>3, Zenon DEF Hands
  <2> QED
    BY <2>1, <2>2
<1>4. ASSUME NEW t \in Tasks, Queues(t) PROVE PlaceInv'
  <2>1. (\A s : Queued(s)' <=> Queued(s) \/ s = t) /\ (Once /\ ~Queued(t) => Once')
    BY <1>0, <1>4, QueueAppend DEF Queues
  <2>2. OnePlace'
    BY <1>4, <2>1, Zenon DEF Queues
  <2>3. NotYet'
    BY <1>4, <2>1, Zenon DEF Queues
  <2> QED
    BY <2>2, <2>3
<1>5. ASSUME NEW t \in Tasks, NEW w \in Workers, Runs(w, t) PROVE PlaceInv'
  <2>1. executed'[t] = 1 /\ \A s \in Tasks : s # t => executed'[s] = executed[s]
    BY <1>0, <1>5 DEF Runs
  <2>2. \A v \in Workers : ~Has(v, t)'
    BY <1>5, Zenon DEF Runs
  <2>3. OnePlace'
    BY <1>1, <1>5, Zenon DEF Runs
  <2>4. ~Queued(t)' /\ Accepted(t)'
    BY <1>1, <1>5, Zenon DEF Runs
  <2>5. NotYet'
    <3>1. \A s \in Tasks : Queued(s)' \/ (\E v \in Workers : Has(v, s)') => s # t
      BY <2>2, <2>4, Zenon
    <3>2. \A s \in Tasks : s # t =>
             (Queued(s)' => Queued(s)) /\ (Accepted(s)' <=> Accepted(s))
             /\ \A v \in Workers : Has(v, s)' => Has(v, s)
      BY <1>1, <1>5, Zenon DEF Runs
    <3>3. executed'[t] <= 1
      BY <2>1
    <3> QED
      BY <2>1, <2>4, <3>1, <3>2, <3>3, Zenon
  <2> QED
    BY <2>3, <2>5
<1>6. ASSUME NEW w \in Workers, Takes(w) PROVE PlaceInv'
  <2>1. /\ Queued(Head(queue)) /\ Head(queue) \in Tasks /\ Once'
        /\ \A s : Queued(s)' => Queued(s) /\ s # Head(queue)
    BY <1>0, <1>6, QueueTail DEF Takes
  <2>2. OnePlace'
    BY <1>6, <2>1, Zenon DEF Takes
  <2>3. NotYet'
    BY <1>6, <2>1, Zenon DEF Takes
  <2> QED
    BY <2>2, <2>3
<1> QED
  BY <1>2, <1>3, <1>4, <1>5, <1>6
-----------------------------------------------------------------------------
LEMMA RunPlaces ==
  ASSUME TypeInv, NEW t \in Tasks, RunCheck(t) \/ Run(t)
  PROVE  Quiet \/ (\E w \in Workers : Hands(t, w)) \/ Queues(t)
<1>0. /\ call \in [Tasks -> Calls] /\ task \in [Workers -> Tasks \union {None}]
      /\ thread \in [Workers -> Places] /\ size \in 0..maxThreadsCount /\ pos \in Nat \ {0}
      /\ \A w \in Workers : dead[w] => thread[w] = "none"
      /\ \A w \in Workers : w > size => thread[w] = "none"
  BY DEF TypeInv, CallsOK, WorkersOK, DeadHasNoTask, Unmade
<1> USE ConstantsAssumption DEF poolVars, workerVars
<1>1. CASE RunCheck(t) \/ RunLock(t) \/ RunNextWorker(t)
  <2>1. /\ UNCHANGED <<queue, executed, task, thread, fn>>
        /\ \A s \in Tasks : Accepted(s)' <=> Accepted(s)
    BY <1>0, <1>1 DEF RunCheck, RunLock, RunNextWorker, Accepted
  <2>2. \A s \in Tasks, v \in Workers : Has(v, s)' => Has(v, s)
    BY <2>1, Zenon DEF Has, Reads
  <2> QED
    BY <2>1, <2>2 DEF Quiet
<1>2. CASE RunWakeup(t)
  <2>1. pos \in Workers
    BY <1>0, <1>2 DEF RunWakeup, Workers
  <2>2. /\ UNCHANGED <<queue, executed, fn>> /\ ~Accepted(t)
        /\ \A s \in Tasks : Accepted(s)' <=> Accepted(s) \/ s = t
    BY <1>0, <1>2 DEF RunWakeup, Wakeup, Accepted
  <2>3. \A v \in Workers \ {pos} : task'[v] = task[v] /\ thread'[v] = thread[v]
    BY <1>0, <1>2 DEF RunWakeup, Wakeup
  <2>4. task'[pos] = t /\ (thread'[pos] = "run" => thread[pos] = "run")
    BY <1>0, <1>2, <2>1 DEF RunWakeup, Wakeup
  <2>5. \A s \in Tasks, v \in Workers : Has(v, s)' => Has(v, s) \/ (v = pos /\ s = t)
    BY <2>2, <2>3, <2>4, Zenon DEF Has, Reads
  <2> QED
    BY <2>1, <2>2, <2>5 DEF Hands
<1>3. CASE RunNewWorker(t)
  <2>1. size + 1 \in Workers
    BY <1>0, <1>3 DEF RunNewWorker, Workers
  <2>2. /\ UNCHANGED <<queue, executed, fn>> /\ ~Accepted(t)
        /\ \A s \in Tasks : Accepted(s)' <=> Accepted(s) \/ s = t
    BY <1>0, <1>3 DEF RunNewWorker, Accepted
  <2>3. \A v \in Workers \ {size + 1} : task'[v] = task[v] /\ thread'[v] = thread[v]
    BY <1>0, <1>3 DEF RunNewWorker
  <2>4. task'[size + 1] = t /\ thread'[size + 1] = "wait"
    BY <1>0, <1>3, <2>1 DEF RunNewWorker
  <2>5. \A s \in Tasks, v \in Workers : Has(v, s)' => Has(v, s) \/ (v = size + 1 /\ s = t)
    BY <2>2, <2>3, <2>4, Zenon DEF Has, Reads
  <2> QED
    BY <2>1, <2>2, <2>5 DEF Hands
<1>4. CASE RunQueue(t)
  <2>1. /\ UNCHANGED <<executed, task, thread, fn>> /\ ~Accepted(t) /\ queue' = Append(queue, t)
        /\ \A s \in Tasks : Accepted(s)' <=> Accepted(s) \/ s = t
    BY <1>0, <1>4 DEF RunQueue, Accepted
  <2>2. \A s \in Tasks, v \in Workers : Has(v, s)' => Has(v, s)
    BY <2>1, Zenon DEF Has, Reads
  <2> QED
    BY <2>1, <2>2 DEF Queues
<1> QED
  BY <1>1, <1>2, <1>3, <1>4 DEF Run

\* A worker whose field is read or cleared gets no new task by that.
LEMMA LoopPlaces ==
  ASSUME TypeInv, NEW w \in Workers, Loop(w) \/ WaitTimesOut(w)
  PROVE  Quiet \/ (\E t \in Tasks : Runs(w, t)) \/ Takes(w)
<1>0. /\ task \in [Workers -> Tasks \union {None}] /\ fn \in [Workers -> Tasks \union {None}]
      /\ thread \in [Workers -> Places] /\ None \notin Tasks
      /\ thread[w] = "run" => fn[w] # None
  BY ConstantsAssumption DEF TypeInv, WorkersOK
<1>a. ASSUME UNCHANGED <<queue, executed, call, task, fn>>,
             \A v \in Workers \ {w} : thread'[v] = thread[v],
             Reads(w)' => Reads(w) \/ task[w] = None, thread'[w] # "run"
      PROVE  Quiet
  <2>1. \A s \in Tasks, v \in Workers : Has(v, s)' => Has(v, s)
    BY <1>0, <1>a, Zenon DEF Has, Reads
  <2>2. \A s \in Tasks : Accepted(s)' <=> Accepted(s)
    BY <1>a, Zenon DEF Accepted
  <2> QED
    BY <1>a, <2>1, <2>2 DEF Quiet
<1>b. ASSUME UNCHANGED <<queue, executed, call, fn>>,
             task' = [task EXCEPT ![w] = None],
             \A v \in Workers \ {w} : thread'[v] = thread[v], thread'[w] # "run"
      PROVE  Quiet
  <2>1. task'[w] = None /\ \A v \in Workers \ {w} : task'[v] = task[v]
    BY <1>0, <1>b
  <2>2. \A s \in Tasks, v \in Workers : Has(v, s)' => Has(v, s)
    BY <1>0, <1>b, <2>1, Zenon DEF Has, Reads
  <2>3. \A s \in Tasks : Accepted(s)' <=> Accepted(s)
    BY <1>b, Zenon DEF Accepted
  <2> QED
    BY <1>b, <2>2, <2>3 DEF Quiet
<1> USE DEF poolVars, callVars, workerVars
<1>1. CASE WaitReturns(w) \/ WaitTimesOut(w)
  BY <1>0, <1>1, <1>a DEF WaitReturns, WaitTimesOut, Reads
<1>2. CASE ReadTask(w)
  <2>1. CASE task[w] = None
    BY <1>0, <1>2, <2>1, <1>a DEF ReadTask, Reads
  <2>2. CASE task[w] # None
    <3>1. /\ UNCHANGED <<queue, executed, call, task>> /\ Reads(w)
          /\ fn'[w] = task[w] /\ thread'[w] = "run"
          /\ \A v \in Workers \ {w} : thread'[v] = thread[v] /\ fn'[v] = fn[v]
      BY <1>0, <1>2, <2>2 DEF ReadTask, Reads
    <3>2. \A s \in Tasks, v \in Workers : Has(v, s)' => Has(v, s)
      BY <3>1, Zenon DEF Has, Reads
    <3>3. \A s \in Tasks : Accepted(s)' <=> Accepted(s)
      BY <3>1, Zenon DEF Accepted
    <3> QED
      BY <3>1, <3>2, <3>3 DEF Quiet
  <2> QED
    BY <2>1, <2>2
<1>3. CASE FunctionReturns(w) \/ FunctionThrows(w)
  <2>1. /\ UNCHANGED <<queue, call, task, fn>> /\ thread[w] = "run" /\ fn[w] \in Tasks
        /\ executed' = [executed EXCEPT ![fn[w]] = @ + 1]
        /\ thread'[w] \in {"drain", "catch"}
        /\ \A v \in Workers \ {w} : thread'[v] = thread[v]
    BY <1>0, <1>3 DEF FunctionReturns, FunctionThrows, Executes
  <2>2. Has(w, fn[w])
    BY <2>1 DEF Has
  <2>3. ~Reads(w)' /\ thread'[w] # "run"
    BY <2>1 DEF Reads
  <2>4. \A s \in Tasks, v \in Workers : Has(v, s)' => Has(v, s) /\ v # w
    BY <2>1, <2>3, Zenon DEF Has, Reads
  <2>5. \A s \in Tasks : Accepted(s)' <=> Accepted(s)
    BY <2>1, Zenon DEF Accepted
  <2> QED
    BY <2>1, <2>2, <2>4, <2>5 DEF Runs
<1>4. CASE PopQueue(w)
  <2>1. CASE queue = << >>
    BY <1>0, <1>4, <2>1, <1>a DEF PopQueue, Reads
  <2>2. CASE queue # << >>
    <3>1. /\ UNCHANGED <<executed, call, task>> /\ queue' = Tail(queue)
          /\ fn' = [fn EXCEPT ![w] = Head(queue)] /\ thread' = [thread EXCEPT ![w] = "run"]
      BY <1>4, <2>2, Zenon DEF PopQueue
    <3>2. /\ fn'[w] = Head(queue) /\ thread'[w] = "run"
          /\ \A v \in Workers \ {w} : thread'[v] = thread[v] /\ fn'[v] = fn[v]
      BY <1>0, <3>1
    <3>3. ~Reads(w)'
      BY <3>2 DEF Reads
    <3>4. \A s \in Tasks, v \in Workers : Has(v, s)' => Has(v, s) \/ (v = w /\ s = Head(queue))
      BY <3>1, <3>2, <3>3, Zenon DEF Has, Reads
    <3>5. \A s \in Tasks : Accepted(s)' <=> Accepted(s)
      BY <3>1, Zenon DEF Accepted
    <3> QED
      BY <2>2, <3>1, <3>4, <3>5 DEF Takes
  <2> QED
    BY <2>1, <2>2
<1>5. CASE ClearTask(w) \/ CatchClear(w)
  BY <1>0, <1>5, <1>b DEF ClearTask, CatchClear
<1>6. CASE Die(w) \/ CatchRestart(w)
  BY <1>0, <1>6, <1>a DEF Die, CatchRestart, Reads
<1> QED
  BY <1>1, <1>2, <1>3, <1>4, <1>5, <1>6 DEF Loop

LEMMA RestPlaces ==
  ASSUME (\E c \in Closers : ShutdownCheck(c) \/ Shutdown(c)) \/ UNCHANGED vars
  PROVE  Quiet
<1>1. UNCHANGED <<queue, executed, call, task, thread, fn>>
  BY DEF ShutdownCheck, ShutdownLock, Shutdown, ShutdownWorker, ShutdownUnlock, vars, poolVars, callVars, workerVars
<1>2. \A s \in Tasks, v \in Workers : Has(v, s)' => Has(v, s)
  BY <1>1, Zenon DEF Has, Reads
<1>3. \A s \in Tasks : Accepted(s)' <=> Accepted(s)
  BY <1>1, Zenon DEF Accepted
<1> QED
  BY <1>1, <1>2, <1>3 DEF Quiet

(***************************************************************************)
(* For every number of threads and tasks, no task runs twice: a release of *)
(* a worker's lock that outlives its task finds the field cleared, and a   *)
(* worker that is replaced after an exception has cleared it before.       *)
(***************************************************************************)
THEOREM NoTaskRunsTwice == Spec => []NoTaskTwice
<1>1. Init => PlaceInv
  <2> SUFFICES ASSUME Init PROVE PlaceInv
    OBVIOUS
  <2>1. \A t \in Tasks : ~Queued(t) /\ executed[t] = 0
    <3>1. queue = << >> /\ \A t \in Tasks : executed[t] = 0
      BY Zenon DEF Init
    <3>2. 1..Len(queue) = {}
      BY <3>1, EmptySeq
    <3>3. \A t \in Tasks : ~Queued(t)
      BY <3>2, Zenon DEF Queued
    <3> QED
      BY <3>1, <3>3
  <2>2. \A w \in Workers : ~Reads(w) /\ thread[w] # "run"
    BY DEF Init, Reads
  <2>3. Once
    BY DEF Init, Once
  <2>4. \A t \in Tasks : executed[t] <= 1
    <3> SUFFICES ASSUME NEW t \in Tasks PROVE executed[t] <= 1
      OBVIOUS
    <3>1. executed[t] = 0
      BY <2>1, Zenon
    <3> QED
      BY <3>1
  <2> QED
    BY <2>1, <2>2, <2>3, <2>4, Zenon DEF PlaceInv, OnePlace, NotYet, Has
<1>2. TypeInv /\ PlaceInv /\ [Next]_vars => PlaceInv'
  <2> SUFFICES ASSUME TypeInv, PlaceInv, [Next]_vars PROVE PlaceInv'
    OBVIOUS
  <2>1. ASSUME NEW t \in Tasks, RunCheck(t) \/ Run(t) PROVE PlaceInv'
    BY <2>1, RunPlaces, PlaceInvStep
  <2>2. ASSUME NEW w \in Workers, Loop(w) \/ WaitTimesOut(w) PROVE PlaceInv'
    BY <2>2, LoopPlaces, PlaceInvStep
  <2>3. ASSUME (\E c \in Closers : ShutdownCheck(c) \/ Shutdown(c)) \/ UNCHANGED vars
        PROVE  PlaceInv'
    BY <2>3, RestPlaces, PlaceInvStep
  <2> QED
    BY <2>1, <2>2, <2>3 DEF Next
<1>3. PlaceInv => NoTaskTwice
  BY DEF PlaceInv, NotYet, NoTaskTwice
<1> QED
  BY <1>1, <1>2, <1>3, InitType, TypeInvStep, PTL DEF Spec
-----------------------------------------------------------------------------
(* The pool of a fixed size. *)

\* The deque gains an element at its end or loses its head.
LEMMA DequeStep ==
  ASSUME NEW S, queue \in Seq(S),
         \/ UNCHANGED queue
         \/ \E e \in S : queue' = Append(queue, e)
         \/ queue # << >> /\ queue' = Tail(queue)
  PROVE  queue' \in Seq(S)
<1>1. CASE \E e \in S : queue' = Append(queue, e)
  BY <1>1, AppendProperties
<1>2. CASE queue # << >> /\ queue' = Tail(queue)
  BY <1>2, HeadTailProperties
<1> QED
  BY <1>1, <1>2

LEMMA FixedDequeStep ==
  ASSUME Fixed!ConstantsAssumption, queue \in Seq(Tasks \union {Pill}),
         [Fixed!Next]_(Fixed!vars)
  PROVE  queue' \in Seq(Tasks \union {Pill})
<1>1. ASSUME NEW t \in Tasks, Fixed!Run(t)
      PROVE  UNCHANGED queue \/ queue' = Append(queue, t)
  BY <1>1 DEF Fixed!Run, Fixed!RunCheck, Fixed!RunAdd
<1>2. ASSUME NEW c \in Closers, Fixed!Shutdown(c)
      PROVE  UNCHANGED queue \/ queue' = Append(queue, Pill)
  BY <1>2 DEF Fixed!Shutdown, Fixed!ShutdownCheck, Fixed!ShutdownSet, Fixed!ShutdownAdd
<1>3. ASSUME NEW w \in Fixed!Workers, Fixed!Loop(w)
      PROVE  UNCHANGED queue \/ (queue # << >> /\ queue' = Tail(queue))
  BY <1>3 DEF Fixed!Loop, Fixed!Pop, Fixed!PopPill, Fixed!TaskReturns, Fixed!TaskThrows
<1>4. ASSUME UNCHANGED Fixed!vars PROVE UNCHANGED queue
  BY <1>4 DEF Fixed!vars
<1>5. \A t \in Tasks : t \in Tasks \union {Pill}
  OBVIOUS
<1>6. \/ UNCHANGED queue
      \/ \E e \in Tasks \union {Pill} : queue' = Append(queue, e)
      \/ queue # << >> /\ queue' = Tail(queue)
  BY <1>1, <1>2, <1>3, <1>4, <1>5, Zenon DEF Fixed!Next
<1> QED
  BY <1>6, DequeStep

\* Fixed!FixedTypeOK, but for the deque.
FixedFieldsOK ==
    /\ isShutdown \in BOOLEAN
    /\ call \in [Tasks -> {"idle", "checked", "accepted", "rejected"}]
    /\ closer \in [Closers -> {"idle", "checked", "adding", "done"}]
    /\ pills \in [Closers -> 0..threadsCount]
    /\ \A c \in Closers : closer[c] # "adding" => pills[c] = threadsCount
    /\ worker \in [Fixed!Workers -> {"pop", "gone"} \union Tasks]
    /\ executed \subseteq Tasks

LEMMA FixedFieldsStep ==
  ASSUME Fixed!ConstantsAssumption, queue \in Seq(Tasks \union {Pill}), FixedFieldsOK,
         [Fixed!Next]_(Fixed!vars)
  PROVE  FixedFieldsOK'
<1>0. /\ threadsCount \in Nat /\ Throwing \subseteq Tasks
      /\ queue # << >> => Head(queue) \in Tasks \union {Pill}
  BY HeadTailProperties DEF Fixed!ConstantsAssumption
<1> USE DEF FixedFieldsOK
<1>1. ASSUME NEW t \in Tasks, Fixed!Run(t) PROVE FixedFieldsOK'
  BY <1>1 DEF Fixed!Run, Fixed!RunCheck, Fixed!RunAdd
<1>2. ASSUME NEW c \in Closers, Fixed!Shutdown(c) PROVE FixedFieldsOK'
  <2>1. CASE Fixed!ShutdownCheck(c)
    BY <2>1 DEF Fixed!ShutdownCheck
  <2>2. CASE Fixed!ShutdownSet(c)
    BY <2>2 DEF Fixed!ShutdownSet
  <2>3. CASE Fixed!ShutdownAdd(c)
    BY <1>0, <2>3 DEF Fixed!ShutdownAdd
  <2> QED
    BY <1>2, <2>1, <2>2, <2>3 DEF Fixed!Shutdown
<1>3. ASSUME NEW w \in Fixed!Workers, Fixed!Loop(w) PROVE FixedFieldsOK'
  BY <1>0, <1>3 DEF Fixed!Loop, Fixed!Pop, Fixed!PopPill, Fixed!TaskReturns, Fixed!TaskThrows
<1>4. CASE UNCHANGED Fixed!vars
  BY <1>4 DEF Fixed!vars
<1> QED
  BY <1>1, <1>2, <1>3, <1>4 DEF Fixed!Next

(***************************************************************************)
(* Every variable keeps its type, for every number of workers, tasks and   *)
(* racing shutdowns: no call of shutdown adds more pills than there are    *)
(* workers, and one that adds none yet has all of them left.               *)
(***************************************************************************)
THEOREM FixedTypeCorrect ==
  ASSUME Fixed!ConstantsAssumption PROVE Fixed!Spec => []Fixed!FixedTypeOK
<1>1. Fixed!FixedTypeOK <=> queue \in Seq(Tasks \union {Pill}) /\ FixedFieldsOK
  BY Zenon DEF Fixed!FixedTypeOK, FixedFieldsOK
<1>2. Fixed!Init => Fixed!FixedTypeOK
  <2> SUFFICES ASSUME Fixed!Init PROVE queue \in Seq(Tasks \union {Pill}) /\ FixedFieldsOK
    BY <1>1
  <2>1. queue \in Seq(Tasks \union {Pill})
    BY EmptySeq DEF Fixed!Init
  <2>2. FixedFieldsOK
    <3>1. isShutdown \in BOOLEAN
      BY Zenon DEF Fixed!Init
    <3> QED
      BY <3>1 DEF Fixed!ConstantsAssumption, Fixed!Init, FixedFieldsOK
  <2> QED
    BY <2>1, <2>2
<1>3. Fixed!FixedTypeOK /\ [Fixed!Next]_(Fixed!vars) => Fixed!FixedTypeOK'
  BY <1>1, FixedDequeStep, FixedFieldsStep DEF Fixed!FixedTypeOK, FixedFieldsOK
<1> QED
  BY <1>2, <1>3, PTL DEF Fixed!Spec
=============================================================================
