------------------------------ MODULE EventLoop ------------------------------
(***************************************************************************)
(* sys.thread.EventLoop: the loop of one thread, driven by the callbacks   *)
(* that run in it and by other threads that hold on to it.                 *)
(*                                                                         *)
(* Each method runs under `mutex' from end to end, and so do the two       *)
(* sections of __progress, so each is one step.  Between them the loop     *)
(* does not hold it: to look whether a collected event was cancelled, and  *)
(* to call it, are two steps.  Callbacks return.  On the main thread       *)
(* haxe.MainLoop.tick is part of __progress; its events have no delay and  *)
(* are blocking (the defaults).                                            *)
(***************************************************************************)
EXTENDS Integers, Sequences, FiniteSets, SequencesExt

CONSTANTS
    OneTimers,     \* events passed to run and runPromised, each once
    Repeaters,     \* events passed to repeat, each once
    MainEvents,    \* events passed to haxe.MainLoop.add, each once
    interval,      \* of each repeater, in ticks
    MaxNow,        \* bound of the clock
    MaxPromises,   \* bound on promises outstanding
    ForeignCalls   \* the methods other threads call

ASSUME ConstantsAssumption ==
    /\ interval \in [Repeaters -> Nat \ {0}]
    /\ MaxNow \in Nat /\ MaxPromises \in Nat
    /\ ForeignCalls \subseteq {"repeat", "cancel", "promise", "run", "runPromised"}
    /\ Repeaters \intersect (OneTimers \union MainEvents \union {"none", "main"}) = {}

VARIABLES
    now,             \* Sys.time()
    regularEvents,   \* the linked list
    nextRunTime,     \* of each repeater
    oneTimeEvents,   \* the pending one-time events
    promised,        \* promisedEventsCount
    waitLock,        \* how often waitLock was released
    mainEvents,      \* MainLoop.pending
    pc,              \* where loop is; "job" before it, "done" after it
    running,         \* the callback that runs, or None
    regularsToRun,   \* the events __progress has collected and not yet run
    oneTimersToRun,
    mainToRun,
    nextEventAt, anyTime,
    progressed,      \* eventsToRunIdx > 0
    used, cancelled, \* history: events scheduled and cancelled so far
    unexpected,      \* history: those other threads scheduled without a promise
    ran,             \* history: one-time events that have begun
    tooLate          \* history: the event to be called was cancelled meanwhile

loopVars  == <<pc, running, regularsToRun, oneTimersToRun, mainToRun,
               nextEventAt, anyTime, progressed, ran>>
queueVars == <<regularEvents, nextRunTime, oneTimeEvents, promised, waitLock, mainEvents>>
history   == <<used, cancelled, unexpected, tooLate>>
vars == <<now, queueVars, loopVars, history>>

None  == "none"
Never == -1
Now   == -2

Init ==
    /\ now = 0
    /\ regularEvents = <<>> /\ nextRunTime = [r \in Repeaters |-> 0]
    /\ oneTimeEvents = <<>> /\ promised = 0 /\ waitLock = 0 /\ mainEvents = {}
    /\ pc = "job" /\ running = "main"
    /\ regularsToRun = <<>> /\ oneTimersToRun = <<>> /\ mainToRun = {}
    /\ nextEventAt = Never /\ anyTime = FALSE /\ progressed = FALSE
    /\ used = {} /\ cancelled = {} /\ unexpected = {} /\ ran = {}
    /\ tooLate = FALSE

Tick == now < MaxNow /\ now' = now + 1 /\ UNCHANGED <<queueVars, loopVars, history>>
-----------------------------------------------------------------------------
(* The methods, called by a callback (or the job before the loop) or by    *)
(* another thread                                                          *)

Called(method) == running # None \/ method \in ForeignCalls

Scheduled(method, e) ==
    /\ e \notin used
    /\ used' = used \union {e}
    /\ \/ running # None /\ UNCHANGED unexpected
       \/ method \in ForeignCalls /\ unexpected' = unexpected \union {e}

\* insertEventByTime: in front of the first event that is to run later.
InsertByTime(r, at) ==
    LET later == {i \in 1..Len(regularEvents) : at < nextRunTime[regularEvents[i]]}
        place == IF later = {} THEN Len(regularEvents) + 1
                 ELSE CHOOSE i \in later : \A j \in later : i <= j
    IN  InsertAt(regularEvents, place, r)

Repeat(r) ==
    /\ Scheduled("repeat", r)
    /\ regularEvents' = InsertByTime(r, now + interval[r])
    /\ nextRunTime' = [nextRunTime EXCEPT ![r] = now + interval[r]]
    /\ waitLock' = waitLock + 1
    /\ UNCHANGED <<now, oneTimeEvents, promised, mainEvents, loopVars, cancelled, tooLate>>

\* The list is doubly linked: an event that is in it is taken out.
Unlink(r) ==
    LET places == {i \in 1..Len(regularEvents) : regularEvents[i] = r}
    IN  IF places = {} THEN regularEvents
        ELSE RemoveAt(regularEvents, CHOOSE i \in places : TRUE)

Cancel(r) ==
    /\ Called("cancel") /\ r \in used
    /\ cancelled' = cancelled \union {r}
    /\ tooLate' = (tooLate \/ (pc = "call" /\ r = Head(regularsToRun)))
    /\ regularEvents' = Unlink(r)
    /\ UNCHANGED <<now, nextRunTime, oneTimeEvents, promised, waitLock, mainEvents,
                   loopVars, used, unexpected>>

\* Another thread may only add a promise to one that keeps the loop alive.
Promise ==
    /\ Called("promise") /\ (running # None \/ promised > 0)
    /\ promised < MaxPromises
    /\ promised' = promised + 1
    /\ UNCHANGED <<now, regularEvents, nextRunTime, oneTimeEvents, waitLock, mainEvents,
                   loopVars, history>>

Run(e) ==
    /\ Scheduled("run", e)
    /\ oneTimeEvents' = Append(oneTimeEvents, e)
    /\ waitLock' = waitLock + 1
    /\ UNCHANGED <<now, regularEvents, nextRunTime, promised, mainEvents, loopVars,
                   cancelled, tooLate>>

RunPromised(e) ==
    /\ Called("runPromised") /\ e \notin used /\ promised > 0
    /\ used' = used \union {e}
    /\ oneTimeEvents' = Append(oneTimeEvents, e)
    /\ promised' = promised - 1
    /\ waitLock' = waitLock + 1
    /\ UNCHANGED <<now, regularEvents, nextRunTime, mainEvents, loopVars,
                   cancelled, unexpected, tooLate>>

AddMain(m) ==
    /\ running # None /\ m \notin used
    /\ used' = used \union {m}
    /\ mainEvents' = mainEvents \union {m}
    /\ UNCHANGED <<now, regularEvents, nextRunTime, oneTimeEvents, promised, waitLock,
                   loopVars, cancelled, unexpected, tooLate>>

StopMain(m) ==
    /\ running # None /\ m \in mainEvents
    /\ mainEvents' = mainEvents \ {m}
    /\ UNCHANGED <<now, regularEvents, nextRunTime, oneTimeEvents, promised, waitLock,
                   loopVars, history>>
-----------------------------------------------------------------------------
(* loop and __progress *)

CallbackReturns ==
    /\ running # None
    /\ running' = None
    /\ pc' = IF pc = "job" THEN "collect" ELSE pc
    /\ UNCHANGED <<now, queueVars, regularsToRun, oneTimersToRun, mainToRun,
                   nextEventAt, anyTime, progressed, ran, history>>

\* The first section under the mutex.
Due == SelectSeq(regularEvents, LAMBDA r : nextRunTime[r] <= now)

\* Faulty: takes the list for sorted.
NextTime_First ==
    IF Due # <<>> THEN Now
    ELSE IF regularEvents = <<>> THEN Never
    ELSE nextRunTime[Head(regularEvents)]

NextTime ==
    LET times == {nextRunTime[r] : r \in ToSet(regularEvents)}
    IN  IF Due # <<>> THEN Now
        ELSE IF times = {} THEN Never
        ELSE CHOOSE t \in times : \A u \in times : t <= u

CollectRegular ==
    /\ pc = "collect"
    /\ waitLock' = 0
    /\ regularsToRun' = Due
    /\ nextRunTime' = [r \in Repeaters |->
                         nextRunTime[r] + IF r \in ToSet(Due) THEN interval[r] ELSE 0]
    /\ nextEventAt' = NextTime
    /\ pc' = "regular"
    /\ UNCHANGED <<now, regularEvents, oneTimeEvents, promised, mainEvents, running,
                   oneTimersToRun, mainToRun, anyTime, progressed, ran, history>>

\* Faulty: does not look at `cancelled' again.
CheckRegular_Unchecked ==
    /\ pc = "regular" /\ running = None /\ regularsToRun # <<>>
    /\ pc' = "call"
    /\ UNCHANGED <<now, queueVars, running, regularsToRun, oneTimersToRun, mainToRun,
                   nextEventAt, anyTime, progressed, ran, history>>

\* Without the mutex, as is the call that follows.
CheckRegular ==
    /\ pc = "regular" /\ running = None /\ regularsToRun # <<>>
    /\ \/ /\ Head(regularsToRun) \in cancelled
          /\ regularsToRun' = Tail(regularsToRun) /\ UNCHANGED pc
       \/ /\ Head(regularsToRun) \notin cancelled
          /\ pc' = "call" /\ UNCHANGED regularsToRun
    /\ UNCHANGED <<now, queueVars, running, oneTimersToRun, mainToRun,
                   nextEventAt, anyTime, progressed, ran, history>>

RunRegular ==
    /\ pc = "call"
    /\ running' = Head(regularsToRun)
    /\ regularsToRun' = Tail(regularsToRun)
    /\ pc' = "regular" /\ tooLate' = FALSE
    /\ UNCHANGED <<now, queueVars, oneTimersToRun, mainToRun,
                   nextEventAt, anyTime, progressed, ran, used, cancelled, unexpected>>

\* The second section under the mutex.
CollectOneTimers ==
    /\ pc = "regular" /\ running = None /\ regularsToRun = <<>>
    /\ oneTimersToRun' = oneTimeEvents
    /\ oneTimeEvents' = <<>>
    /\ progressed' = (oneTimeEvents # <<>>)
    /\ anyTime' = (promised > 0)
    /\ pc' = "onetime"
    /\ UNCHANGED <<now, regularEvents, nextRunTime, promised, waitLock, mainEvents, running,
                   regularsToRun, mainToRun, nextEventAt, ran, history>>

RunOneTimer ==
    /\ pc = "onetime" /\ running = None /\ oneTimersToRun # <<>>
    /\ running' = Head(oneTimersToRun)
    /\ ran' = ran \union {Head(oneTimersToRun)}
    /\ oneTimersToRun' = Tail(oneTimersToRun)
    /\ UNCHANGED <<now, queueVars, pc, regularsToRun, mainToRun,
                   nextEventAt, anyTime, progressed, history>>

\* MainLoop.tick goes through the events there are when it begins, and calls
\* those that have not been stopped meanwhile.
BeginTick ==
    /\ pc = "onetime" /\ running = None /\ oneTimersToRun = <<>>
    /\ mainToRun' = mainEvents
    /\ pc' = "tick"
    /\ UNCHANGED <<now, queueVars, running, regularsToRun, oneTimersToRun,
                   nextEventAt, anyTime, progressed, ran, history>>

RunMain ==
    /\ pc = "tick" /\ running = None
    /\ \E m \in mainToRun :
        /\ running' = IF m \in mainEvents THEN m ELSE None
        /\ mainToRun' = mainToRun \ {m}
    /\ UNCHANGED <<now, queueVars, pc, regularsToRun, oneTimersToRun,
                   nextEventAt, anyTime, progressed, ran, history>>

\* Faulty: executed events do not make the loop look for new ones.
Progressed_Never == mainEvents # {}

Progressed == progressed \/ mainEvents # {}

\* Faulty: promised events do not keep the loop alive.
Decide_Forget ==
    /\ pc = "tick" /\ running = None /\ mainToRun = {}
    /\ pc' = IF Progressed \/ nextEventAt = Now THEN "collect"
             ELSE IF nextEventAt = Never THEN "done"
             ELSE "wait"
    /\ UNCHANGED <<now, queueVars, running, regularsToRun, oneTimersToRun, mainToRun,
                   nextEventAt, anyTime, progressed, ran, history>>

\* "Some events were executed.  They could add new events to run."
Decide ==
    /\ pc = "tick" /\ running = None /\ mainToRun = {}
    /\ pc' = IF Progressed \/ nextEventAt = Now THEN "collect"
             ELSE IF nextEventAt = Never /\ ~anyTime THEN "done"
             ELSE "wait"
    /\ UNCHANGED <<now, queueVars, running, regularsToRun, oneTimersToRun, mainToRun,
                   nextEventAt, anyTime, progressed, ran, history>>

WakeUp ==
    /\ pc = "wait" /\ waitLock > 0
    /\ waitLock' = waitLock - 1
    /\ pc' = "collect"
    /\ UNCHANGED <<now, regularEvents, nextRunTime, oneTimeEvents, promised, mainEvents,
                   running, regularsToRun, oneTimersToRun, mainToRun,
                   nextEventAt, anyTime, progressed, ran, history>>

\* Time stands still at MaxNow: later times count as come.
TimeOut ==
    /\ pc = "wait" /\ waitLock = 0 /\ nextEventAt # Never
    /\ nextEventAt <= now \/ now = MaxNow
    /\ pc' = "collect"
    /\ UNCHANGED <<now, queueVars, running, regularsToRun, oneTimersToRun, mainToRun,
                   nextEventAt, anyTime, progressed, ran, history>>
-----------------------------------------------------------------------------
Loop ==
    \/ CallbackReturns
    \/ CollectRegular \/ CheckRegular \/ RunRegular
    \/ CollectOneTimers \/ RunOneTimer \/ BeginTick \/ RunMain \/ Decide \/ WakeUp \/ TimeOut

Methods ==
    \/ \E r \in Repeaters : Repeat(r) \/ Cancel(r)
    \/ Promise
    \/ \E e \in OneTimers : Run(e) \/ RunPromised(e)
    \/ \E m \in MainEvents : AddMain(m) \/ StopMain(m)

Next == Tick \/ Methods \/ Loop

\* The thread runs, its callbacks return and time passes; nothing else has
\* to happen.
Spec ==
    /\ Init /\ [][Next]_vars
    /\ WF_vars(Loop) /\ WF_vars(Tick)
-----------------------------------------------------------------------------
(* Properties *)

\* The types; the list holds exactly the repeating events that are not cancelled.
TypeOK ==
    /\ now \in 0..MaxNow
    /\ regularEvents \in Seq(Repeaters) /\ nextRunTime \in [Repeaters -> Nat]
    /\ oneTimeEvents \in Seq(OneTimers)
    /\ promised \in 0..MaxPromises /\ waitLock \in Nat
    /\ mainEvents \subseteq MainEvents /\ mainToRun \subseteq MainEvents
    /\ pc \in {"job", "collect", "regular", "call", "onetime", "tick", "wait", "done"}
    /\ running \in {None, "main"} \union Repeaters \union OneTimers \union MainEvents
    /\ regularsToRun \in Seq(Repeaters)
    /\ oneTimersToRun \in Seq(OneTimers)
    /\ nextEventAt \in Nat \union {Never, Now} /\ anyTime \in BOOLEAN /\ progressed \in BOOLEAN
    /\ used \subseteq OneTimers \union Repeaters \union MainEvents
    /\ cancelled \subseteq Repeaters /\ ran \subseteq OneTimers
    /\ unexpected \subseteq used /\ tooLate \in BOOLEAN
    /\ ToSet(regularEvents) = (used \intersect Repeaters) \ cancelled
    /\ IsInjective(regularEvents)

(***************************************************************************)
(* No wake-up is lost: a loop that sleeps without a pending release has no *)
(* one-time event to run and sleeps no longer than until its next regular  *)
(* event; without either it sleeps only for a promise that is outstanding. *)
(***************************************************************************)
NoLostWakeup ==
    pc = "wait" /\ waitLock = 0 =>
        /\ oneTimeEvents = <<>>
        /\ \A r \in ToSet(regularEvents) : nextEventAt # Never /\ nextEventAt <= nextRunTime[r]
        /\ nextEventAt = Never => promised > 0

(***************************************************************************)
(* "Runs until all repeating events are cancelled and no more events are   *)
(* expected" (line 174), as far as the thread's own events go.             *)
(***************************************************************************)
DoneMeansIdle ==
    pc = "done" =>
        /\ promised = 0 /\ mainEvents = {}
        /\ ToSet(regularEvents) \union ToSet(oneTimeEvents) \subseteq unexpected

\* So it is where haxe.MainLoop has not been used.
DoneMeansIdleOffMain == used \intersect MainEvents = {} => DoneMeansIdle

(***************************************************************************)
(* cancel is to "prevent execution of a previously scheduled event" (line  *)
(* 84): a cancelled event does not begin to run, not even when the loop    *)
(* had collected it already.  Only a cancel by another thread may come too *)
(* late, after the loop looked and before it calls the event; that call is *)
(* the last.                                                               *)
(***************************************************************************)
CancelledDoNotRun ==
    [][\A r \in cancelled : running' = r => running = r \/ tooLate]_vars

\* What a callback passes to run, and anyone to runPromised, is executed,
\* whatever the loop is doing, where haxe.MainLoop has not been used.
EveryOneTimerRuns ==
    \A e \in OneTimers :
        e \in used \ unexpected ~> e \in ran \/ used \intersect MainEvents # {}
=============================================================================
