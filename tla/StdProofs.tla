------------------------------ MODULE StdProofs ------------------------------
(***************************************************************************)
(* Proofs about two parts of the standard library that share nothing:      *)
(* EventLoop, for every set of events, every interval and every selection  *)
(* of the methods other threads call, and NativeXml, for every document.   *)
(*                                                                         *)
(* The argument for NoLostWakeup: CollectRegular takes back every release  *)
(* of the lock before the loop looks at the two queues, so as long as no   *)
(* release is pending, what the loop saw is what there is (Awake).  That   *)
(* DoneMeansIdle holds off the main thread rests on a second one: a round  *)
(* that decides to end ran no callback, so whatever was scheduled in it    *)
(* was scheduled by another thread without a promise (IdleRound).  For     *)
(* CancelledDoNotRun: between the look at `cancelled' and the call only    *)
(* another thread can cancel the event (Checked).                          *)
(*                                                                         *)
(* The argument for XmlTypeOK: a character that is found by looking ahead  *)
(* is not the zero behind the last one (There), so the parser goes no      *)
(* further than that zero; a call waits for an end only when an element    *)
(* is open (WaitOK), and looks for an end tag only inside of one, where a  *)
(* caller is there to return to (Placed).                                  *)
(*                                                                         *)
(* The argument for CallbacksFollowDocument and TreeIsRight: whatever      *)
(* character the parser is at, the tokens before it say what is in the     *)
(* tree and which calls are under way, and the token it is in says what    *)
(* the call on top has read of it (Stands), so that a step takes it to     *)
(* the next character of that token or behind it (Follows).                *)
(***************************************************************************)
EXTENDS EventLoop, NativeXml, TLAPS, SequenceTheorems, FiniteSetTheorems, WellFoundedInduction

Pcs == {"job", "collect", "regular", "call", "onetime", "tick", "wait", "done"}
Regular == ToSet(regularEvents)
OneTime == ToSet(oneTimeEvents)

\* The part of the types that the arguments need.
Types ==
    /\ now \in Nat /\ waitLock \in Nat /\ promised \in Nat
    /\ nextRunTime \in [Repeaters -> Nat]
    /\ regularEvents \in Seq(Repeaters)
    /\ oneTimeEvents \in Seq(OneTimers) /\ oneTimersToRun \in Seq(OneTimers)
    /\ mainEvents \subseteq MainEvents \intersect used
    /\ mainToRun \subseteq MainEvents \intersect used
    /\ cancelled \subseteq Repeaters
    /\ pc \in Pcs
    /\ pc \in {"collect", "call", "wait", "done"} => running = None
    /\ nextEventAt \in Nat \union {Never, Now}

\* With no release pending, the loop knows the regular events and has taken
\* the one-time events, or has to go round again.
Awake ==
    waitLock = 0 =>
        /\ pc \in {"regular", "call", "onetime", "tick", "wait"} =>
             \/ nextEventAt = Now
             \/ \A r \in Regular : nextEventAt # Never /\ nextEventAt <= nextRunTime[r]
        /\ pc \in {"onetime", "tick", "wait"} =>
             oneTimeEvents = <<>> /\ (anyTime => promised > 0)

\* The loop waits for a time, or for a promise.
Waits == pc = "wait" => nextEventAt # Now /\ (nextEventAt = Never => anyTime)

\* A round that finds nothing to do runs no callback, so nothing is there but
\* what other threads have added without a promise.
IdleRound ==
    used \intersect MainEvents = {} =>
        /\ pc = "regular" /\ nextEventAt # Now => running = None /\ regularsToRun = <<>>
        /\ pc = "regular" /\ nextEventAt = Never => Regular \subseteq unexpected
        /\ pc = "call" => nextEventAt = Now
        /\ pc \in {"onetime", "tick"} /\ ~progressed /\ ~anyTime /\ nextEventAt = Never =>
             /\ running = None /\ oneTimersToRun = <<>> /\ promised = 0
             /\ Regular \union OneTime \subseteq unexpected
        /\ pc = "done" => promised = 0 /\ Regular \union OneTime \subseteq unexpected

\* The event that is about to be called was not cancelled, unless too late.
Checked == pc = "call" /\ Head(regularsToRun) \in cancelled => tooLate

Inv == Types /\ Awake /\ Waits /\ IdleRound /\ Checked
-----------------------------------------------------------------------------
(* Facts about the list of regular events. *)

\* The elements of a sequence, by position.
LEMMA ToSetIs ==
    ASSUME NEW S, NEW s \in Seq(S)
    PROVE  /\ ToSet(s) \subseteq S
           /\ \A x : x \in ToSet(s) <=> \E i \in 1..Len(s) : s[i] = x
<1>1. DOMAIN s = 1..Len(s) /\ \A i \in 1..Len(s) : s[i] \in S
  OBVIOUS
<1> QED BY <1>1, Zenon DEF ToSet

LEMMA ToSetEmpty == ToSet(<<>>) = {}
<1> QED BY DEF ToSet

LEMMA ToSetConcat ==
    ASSUME NEW S, NEW s \in Seq(S), NEW t \in Seq(S)
    PROVE  s \o t \in Seq(S) /\ ToSet(s \o t) = ToSet(s) \union ToSet(t)
<1>1. \A u : ToSet(u) = Range(u)
  BY DEF ToSet, Range
<1> QED BY <1>1, RangeConcatenation, ConcatProperties

LEMMA AppendsOne ==
    ASSUME NEW S, NEW s \in Seq(S), NEW e \in S
    PROVE  ToSet(Append(s, e)) = ToSet(s) \union {e}
<1>1. <<e>> \in Seq(S) /\ DOMAIN <<e>> = {1} /\ <<e>>[1] = e
  OBVIOUS
<1>2. ToSet(<<e>>) = {e}
  BY <1>1 DEF ToSet
<1>3. Append(s, e) = s \o <<e>>
  BY AppendIsConcat
<1>4. \A t \in Seq(S) : ToSet(s \o t) = ToSet(s) \union ToSet(t)
  BY ToSetConcat
<1>5. ToSet(s \o <<e>>) = ToSet(s) \union ToSet(<<e>>)
  BY <1>1, <1>4, Zenon
<1> QED BY <1>2, <1>3, <1>5

LEMMA ToSetSubSeq ==
    ASSUME NEW S, NEW s \in Seq(S), NEW m \in Nat \ {0}, NEW n \in Nat, n <= Len(s)
    PROVE  SubSeq(s, m, n) \in Seq(S) /\ ToSet(SubSeq(s, m, n)) \subseteq ToSet(s)
<1>1. \A i \in 1..Len(s) : s[i] \in ToSet(s)
  BY ToSetIs
<1>2. Len(s) \in Nat /\ m..n \subseteq 1..Len(s)
  BY LenProperties
<1>3. \A i \in m..n : s[i] \in ToSet(s)
  BY <1>1, <1>2
<1>4. SubSeq(s, m, n) \in Seq(ToSet(s))
  BY <1>3, SubSeqProperties
<1>5. ToSet(SubSeq(s, m, n)) \subseteq ToSet(s)
  BY <1>4, ToSetIs
<1>6. \A i \in m..n : s[i] \in S
  BY <1>3, ToSetIs
<1> QED BY <1>5, <1>6, SubSeqProperties

LEMMA InsertAtType ==
    ASSUME NEW S, NEW s \in Seq(S), NEW e \in S, NEW i \in 1..(Len(s) + 1)
    PROVE  /\ InsertAt(s, i, e) \in Seq(S)
           /\ ToSet(InsertAt(s, i, e)) \subseteq ToSet(s) \union {e}
<1> DEFINE a == SubSeq(s, 1, i - 1)
           b == SubSeq(s, i, Len(s))
<1>1. Len(s) \in Nat /\ i \in Nat \ {0} /\ i - 1 \in Nat /\ i - 1 <= Len(s)
  BY LenProperties
<1>2. a \in Seq(S) /\ ToSet(a) \subseteq ToSet(s)
  BY <1>1, ToSetSubSeq
<1>3. b \in Seq(S) /\ ToSet(b) \subseteq ToSet(s)
  BY <1>1, ToSetSubSeq
<1> DEFINE front == a \o <<e>>
<1>4. InsertAt(s, i, e) = front \o b
  BY DEF InsertAt
<1> HIDE DEF a, b
<1>5. <<e>> \in Seq(S) /\ ToSet(<<e>>) = {e}
  <2>1. <<e>> \in Seq(S)
    OBVIOUS
  <2>2. DOMAIN <<e>> = {1} /\ <<e>>[1] = e
    OBVIOUS
  <2> QED BY <2>1, <2>2 DEF ToSet
<1>a. \A t, u \in Seq(S) : t \o u \in Seq(S) /\ ToSet(t \o u) = ToSet(t) \union ToSet(u)
  BY ToSetConcat
<1>6. front \in Seq(S) /\ ToSet(front) = ToSet(a) \union ToSet(<<e>>)
  BY <1>2, <1>5, <1>a
<1> HIDE DEF front
<1>7. front \o b \in Seq(S) /\ ToSet(front \o b) = ToSet(front) \union ToSet(b)
  BY <1>3, <1>6, <1>a
<1> QED BY <1>2, <1>3, <1>4, <1>5, <1>6, <1>7

LEMMA RemoveAtType ==
    ASSUME NEW S, NEW s \in Seq(S), NEW i \in 1..Len(s)
    PROVE  RemoveAt(s, i) \in Seq(S) /\ ToSet(RemoveAt(s, i)) \subseteq ToSet(s)
<1> DEFINE a == SubSeq(s, 1, i - 1)
           b == SubSeq(s, i + 1, Len(s))
<1>1. Len(s) \in Nat /\ i \in Nat \ {0} /\ i - 1 \in Nat /\ i - 1 <= Len(s) /\ i + 1 \in Nat \ {0}
  BY LenProperties
<1>2. a \in Seq(S) /\ ToSet(a) \subseteq ToSet(s)
  BY <1>1, ToSetSubSeq
<1>3. b \in Seq(S) /\ ToSet(b) \subseteq ToSet(s)
  BY <1>1, ToSetSubSeq
<1>4. RemoveAt(s, i) = a \o b
  BY DEF RemoveAt
<1> HIDE DEF a, b
<1> QED BY <1>2, <1>3, <1>4, ToSetConcat

\* A set of numbers that is not empty has a least one.
LEMMA HasLeast ==
    ASSUME NEW T, T \subseteq Nat, T # {}
    PROVE  \E x \in T : \A y \in T : x <= y
<1> DEFINE R == OpToRel(<, Nat)
<1>1. IsWellFoundedOn(R, Nat)
  BY NatLessThanWellFounded
<1>2. \A x, y \in Nat : y < x => <<y, x>> \in R
  BY DEF OpToRel
<1> HIDE DEF R
<1>3. PICK x \in T : \A y \in T : ~(<<y, x>> \in R)
  BY <1>1, WFMin
<1>4. \A y \in T : x \in Nat /\ y \in Nat /\ ~(y < x)
  BY <1>2, <1>3, Zenon
<1>5. \A y \in T : x <= y
  BY <1>4
<1> QED BY <1>5

\* An insertion adds one event to the list.
LEMMA Inserts ==
    ASSUME regularEvents \in Seq(Repeaters), NEW r \in Repeaters, NEW at
    PROVE  /\ InsertByTime(r, at) \in Seq(Repeaters)
           /\ ToSet(InsertByTime(r, at)) \subseteq Regular \union {r}
<1> DEFINE later == {i \in 1..Len(regularEvents) : at < nextRunTime[regularEvents[i]]}
           place == IF later = {} THEN Len(regularEvents) + 1
                    ELSE CHOOSE i \in later : \A j \in later : i <= j
<1>1. ASSUME later # {} PROVE \E i \in later : \A j \in later : i <= j
  <2>1. later \subseteq Nat
    BY LenProperties
  <2> HIDE DEF later
  <2> QED BY <1>1, <2>1, HasLeast
<1>2. place \in 1..(Len(regularEvents) + 1)
  <2>1. CASE later = {}
    BY <2>1
  <2>2. CASE later # {}
    <3>1. place \in later
      BY <1>1, <2>2
    <3> QED BY <3>1
  <2> QED BY <2>1, <2>2
<1>3. InsertByTime(r, at) = InsertAt(regularEvents, place, r)
  BY DEF InsertByTime
<1> HIDE DEF place
<1> QED BY <1>2, <1>3, InsertAtType DEF Regular

LEMMA Unlinks ==
    ASSUME regularEvents \in Seq(Repeaters), NEW r
    PROVE  Unlink(r) \in Seq(Repeaters) /\ ToSet(Unlink(r)) \subseteq Regular
<1> DEFINE places == {i \in 1..Len(regularEvents) : regularEvents[i] = r}
<1>1. CASE places = {}
  BY <1>1 DEF Unlink, Regular
<1>2. CASE places # {}
  <2>1. PICK i \in places : i = CHOOSE j \in places : TRUE
    BY <1>2
  <2>2. Unlink(r) = RemoveAt(regularEvents, i)
    BY <1>2, <2>1 DEF Unlink
  <2> QED BY <2>1, <2>2, RemoveAtType DEF Regular
<1> QED BY <1>1, <1>2

\* The time of the next event: Now, Never, or the least of the list.
LEMMA NextTimeIs ==
    ASSUME Types
    PROVE  /\ NextTime \in Nat \union {Never, Now}
           /\ Due # <<>> => NextTime = Now
           /\ Due = <<>> => NextTime # Now
           /\ NextTime = Never => Regular = {}
           /\ NextTime # Now => \A r \in Regular : NextTime # Never /\ NextTime <= nextRunTime[r]
<1> DEFINE times == {nextRunTime[r] : r \in Regular}
<1>1. Regular \subseteq Repeaters
  BY ToSetIs DEF Types, Regular
<1>2. times \subseteq Nat
  BY <1>1 DEF Types
<1>3. CASE Due # <<>>
  BY <1>3 DEF NextTime, Now, Never
<1>4. CASE Due = <<>> /\ times = {}
  <2>1. NextTime = Never
    BY <1>4 DEF NextTime, Regular
  <2>2. Regular = {}
    BY <1>4
  <2>3. NextTime # Now
    BY <2>1 DEF Now, Never
  <2> QED BY <1>4, <2>1, <2>2, <2>3, Zenon
<1>5. CASE Due = <<>> /\ times # {}
  <2>1. \E t \in times : \A u \in times : t <= u
    <3> HIDE DEF times
    <3> QED BY <1>2, <1>5, HasLeast
  <2>2. PICK t \in times : t = CHOOSE v \in times : \A u \in times : v <= u
    BY <2>1
  <2>3. \A u \in times : t <= u
    BY <2>1, <2>2
  <2>4. NextTime = t
    BY <1>5, <2>2 DEF NextTime, Regular
  <2>5. t \in Nat
    BY <1>2, <2>2
  <2>6. \A r \in Regular : t <= nextRunTime[r]
    BY <2>3
  <2>7. t # Now /\ t # Never
    BY <2>5 DEF Now, Never
  <2>8. NextTime \in Nat /\ NextTime # Now /\ NextTime # Never
    BY <2>4, <2>5, <2>7, Zenon
  <2>9. \A r \in Regular : NextTime <= nextRunTime[r]
    BY <2>4, <2>6
  <2> QED BY <1>5, <2>8, <2>9, Zenon
<1> QED BY <1>3, <1>4, <1>5
-----------------------------------------------------------------------------
(* Types. *)

LEMMA InvInit == Init => Inv
<1> SUFFICES ASSUME Init PROVE Inv
  OBVIOUS
<1>1. /\ <<>> \in Seq(Repeaters) /\ <<>> \in Seq(OneTimers)
  BY EmptySeq
<1>2. Types
  BY <1>1 DEF Init, Types, Pcs, Never
<1>3. Awake /\ Waits /\ IdleRound /\ Checked
  BY DEF Init, Awake, Waits, IdleRound, Checked
<1> QED BY <1>2, <1>3 DEF Inv

LEMMA TypesMethods == ASSUME Types, Tick \/ Methods PROVE Types'
<1> USE DEF Types, loopVars, queueVars, history
<1>1. CASE Tick
  BY <1>1 DEF Tick
<1>2. ASSUME NEW r \in Repeaters, Repeat(r) PROVE Types'
  <2>1. /\ regularEvents' = InsertByTime(r, now + interval[r]) /\ used' = used \union {r}
        /\ nextRunTime' = [nextRunTime EXCEPT ![r] = now + interval[r]]
        /\ waitLock' = waitLock + 1
        /\ UNCHANGED <<now, oneTimeEvents, promised, mainEvents, loopVars, cancelled>>
    BY <1>2 DEF Repeat, Scheduled
  <2>2. regularEvents' \in Seq(Repeaters)
    BY <2>1, Inserts
  <2>3. nextRunTime' \in [Repeaters -> Nat]
    <3>1. now + interval[r] \in Nat
      BY ConstantsAssumption
    <3> QED BY <2>1, <3>1
  <2> QED BY <2>1, <2>2, <2>3
<1>3. ASSUME NEW r \in Repeaters, Cancel(r) PROVE Types'
  <2>1. regularEvents' \in Seq(Repeaters)
    BY <1>3, Unlinks DEF Cancel
  <2> QED BY <1>3, <2>1 DEF Cancel
<1>4. CASE Promise
  BY <1>4 DEF Promise
<1>5. ASSUME NEW e \in OneTimers, Run(e) PROVE Types'
  <2>1. oneTimeEvents' \in Seq(OneTimers)
    BY <1>5, AppendProperties DEF Run
  <2> QED BY <1>5, <2>1 DEF Run, Scheduled
<1>6. ASSUME NEW e \in OneTimers, RunPromised(e) PROVE Types'
  <2>1. oneTimeEvents' \in Seq(OneTimers)
    BY <1>6, AppendProperties DEF RunPromised
  <2> QED BY <1>6, <2>1 DEF RunPromised
<1>7. ASSUME NEW m \in MainEvents, AddMain(m) PROVE Types'
  BY <1>7 DEF AddMain
<1>8. ASSUME NEW m \in MainEvents, StopMain(m) PROVE Types'
  BY <1>8 DEF StopMain
<1> QED BY <1>1, <1>2, <1>3, <1>4, <1>5, <1>6, <1>7, <1>8 DEF Methods

LEMMA TypesLoop == ASSUME Types, Loop PROVE Types'
<1> USE DEF Types, queueVars, history, Pcs
<1>1. CASE CallbackReturns
  BY <1>1 DEF CallbackReturns
<1>2. CASE CollectRegular
  <2>1. nextEventAt' \in Nat \union {Never, Now}
    BY <1>2, NextTimeIs DEF CollectRegular
  <2>2. nextRunTime' \in [Repeaters -> Nat]
    <3>1. \A r \in Repeaters :
            nextRunTime[r] + (IF r \in ToSet(Due) THEN interval[r] ELSE 0) \in Nat
      BY ConstantsAssumption
    <3> QED BY <1>2, <3>1 DEF CollectRegular
  <2> QED BY <1>2, <2>1, <2>2 DEF CollectRegular
<1>3. CASE CheckRegular
  BY <1>3 DEF CheckRegular
<1>11. CASE RunRegular
  BY <1>11 DEF RunRegular
<1>4. CASE CollectOneTimers
  <2>1. <<>> \in Seq(OneTimers)
    BY EmptySeq
  <2> QED BY <1>4, <2>1 DEF CollectOneTimers
<1>5. CASE RunOneTimer
  <2>1. oneTimersToRun' \in Seq(OneTimers)
    BY <1>5, HeadTailProperties DEF RunOneTimer
  <2> QED BY <1>5, <2>1 DEF RunOneTimer
<1>6. CASE BeginTick
  BY <1>6 DEF BeginTick
<1>7. CASE RunMain
  BY <1>7 DEF RunMain
<1>8. CASE Decide
  BY <1>8 DEF Decide
<1>9. CASE WakeUp
  BY <1>9 DEF WakeUp
<1>10. CASE TimeOut
  BY <1>10 DEF TimeOut
<1> QED
  BY <1>1, <1>2, <1>3, <1>4, <1>5, <1>6, <1>7, <1>8, <1>9, <1>10, <1>11 DEF Loop
-----------------------------------------------------------------------------
(* Awake. *)

\* The release that comes with a new event keeps Awake true.
LEMMA AwakeMethods ==
    ASSUME Types, Awake, Tick \/ Methods PROVE Awake'
<1> USE DEF Types, loopVars, queueVars, history
<1>1. ASSUME waitLock' = waitLock + 1 PROVE Awake'
  BY <1>1 DEF Awake
<1>2. ASSUME UNCHANGED <<waitLock, pc, nextEventAt, nextRunTime, oneTimeEvents, anyTime>>,
             Regular' \subseteq Regular, promised > 0 => promised' > 0
      PROVE  Awake'
  BY <1>2 DEF Awake
<1>3. ASSUME Tick PROVE Awake'
  BY <1>2, <1>3 DEF Tick, Regular
<1>4. ASSUME NEW r \in Repeaters, Repeat(r) PROVE Awake'
  BY <1>1, <1>4 DEF Repeat
<1>5. ASSUME NEW r \in Repeaters, Cancel(r) PROVE Awake'
  <2>1. Regular' \subseteq Regular
    BY <1>5, Unlinks DEF Cancel, Regular
  <2> QED BY <1>2, <1>5, <2>1 DEF Cancel
<1>6. ASSUME Promise PROVE Awake'
  BY <1>2, <1>6 DEF Promise, Regular
<1>7. ASSUME NEW e \in OneTimers, Run(e) \/ RunPromised(e) PROVE Awake'
  BY <1>1, <1>7 DEF Run, RunPromised
<1>8. ASSUME NEW m \in MainEvents, AddMain(m) \/ StopMain(m) PROVE Awake'
  BY <1>2, <1>8 DEF AddMain, StopMain, Regular
<1> QED BY <1>3, <1>4, <1>5, <1>6, <1>7, <1>8 DEF Methods

LEMMA AwakeLoop == ASSUME Types, Awake, Loop PROVE Awake'
<1> USE DEF queueVars
<1>1. ASSUME UNCHANGED <<waitLock, nextEventAt, nextRunTime, regularEvents, oneTimeEvents,
                         anyTime, promised>>,
             pc' = "collect" \/ pc' = pc \/ (pc = "onetime" /\ pc' = "tick")
               \/ (pc \in {"regular", "call"} /\ pc' \in {"regular", "call"})
               \/ (pc = "tick" /\ pc' \in {"wait", "done"})
      PROVE  Awake'
  BY <1>1 DEF Awake, Regular
<1>2. CASE CallbackReturns
  BY <1>1, <1>2 DEF CallbackReturns
<1>3. CASE CollectRegular
  <2>1. CASE Due # <<>>
    <3>1. pc' = "regular" /\ nextEventAt' = Now
      BY <1>3, <2>1, NextTimeIs DEF CollectRegular
    <3> QED BY <3>1 DEF Awake
  <2>2. CASE Due = <<>>
    <3>1. /\ pc' = "regular" /\ nextEventAt' = NextTime /\ Regular' = Regular
          /\ nextRunTime' = [r \in Repeaters |->
                               nextRunTime[r] + IF r \in ToSet(Due) THEN interval[r] ELSE 0]
      BY <1>3 DEF CollectRegular, Regular
    <3>2. Regular \subseteq Repeaters
      BY ToSetIs DEF Types, Regular
    <3>3. ToSet(Due) = {}
      BY <2>2, ToSetEmpty
    <3>4. \A r \in Regular : nextRunTime'[r] = nextRunTime[r]
      BY <3>1, <3>2, <3>3 DEF Types
    <3>5. \A r \in Regular : NextTime # Never /\ NextTime <= nextRunTime[r]
      BY <2>2, NextTimeIs
    <3> QED BY <3>1, <3>4, <3>5 DEF Awake
  <2> QED BY <2>1, <2>2
<1>4. CASE CheckRegular \/ RunRegular
  BY <1>1, <1>4 DEF CheckRegular, RunRegular
<1>5. CASE CollectOneTimers
  BY <1>5 DEF CollectOneTimers, Awake, Regular
<1>6. CASE RunOneTimer
  BY <1>1, <1>6 DEF RunOneTimer
<1>7. CASE BeginTick
  BY <1>1, <1>7 DEF BeginTick
<1>8. CASE RunMain
  BY <1>1, <1>8 DEF RunMain
<1>9. CASE Decide
  BY <1>1, <1>9 DEF Decide
<1>10. CASE WakeUp
  BY <1>10 DEF WakeUp, Awake
<1>11. CASE TimeOut
  BY <1>1, <1>11 DEF TimeOut
<1> QED
  BY <1>2, <1>3, <1>4, <1>5, <1>6, <1>7, <1>8, <1>9, <1>10, <1>11 DEF Loop

LEMMA WaitsStep == ASSUME Types, Waits, [Next]_vars PROVE Waits'
<1>1. ASSUME UNCHANGED loopVars PROVE Waits'
  BY <1>1 DEF loopVars, Waits
<1>2. ASSUME Tick \/ Methods \/ UNCHANGED vars PROVE UNCHANGED loopVars
  BY <1>2 DEF Tick, Methods, Repeat, Cancel, Promise, Run, RunPromised, AddMain, StopMain, vars
<1>3. CASE Decide
  BY <1>3 DEF Decide, Waits
<1>4. ASSUME pc' # "wait" PROVE Waits'
  BY <1>4 DEF Waits
<1>5. CASE CollectRegular \/ CollectOneTimers \/ BeginTick \/ WakeUp \/ TimeOut
  BY <1>4, <1>5 DEF CollectRegular, CollectOneTimers, BeginTick, WakeUp, TimeOut
<1>6. CASE CheckRegular \/ RunRegular \/ RunOneTimer \/ RunMain
  BY <1>4, <1>6 DEF CheckRegular, RunRegular, RunOneTimer, RunMain
<1>7. CASE CallbackReturns
  BY <1>4, <1>7 DEF CallbackReturns, Types
<1> QED BY <1>1, <1>2, <1>3, <1>5, <1>6, <1>7 DEF Next, Loop
-----------------------------------------------------------------------------
(* IdleRound. *)

\* What is added while no callback runs comes from another thread.
LEMMA IdleMethods ==
    ASSUME Types, IdleRound, Tick \/ Methods PROVE IdleRound'
<1> SUFFICES ASSUME used' \intersect MainEvents = {} PROVE IdleRound'
  BY DEF IdleRound
<1>0. UNCHANGED <<pc, running, regularsToRun, oneTimersToRun, nextEventAt, anyTime, progressed>>
  BY DEF Tick, Methods, Repeat, Cancel, Promise, Run, RunPromised, AddMain, StopMain, loopVars
<1>1. ASSUME used \subseteq used',
             running = None /\ Regular \subseteq unexpected => Regular' \subseteq unexpected',
             running = None /\ promised = 0 /\ OneTime \subseteq unexpected =>
                promised' = 0 /\ OneTime' \subseteq unexpected'
      PROVE  IdleRound'
  <2>1. used \intersect MainEvents = {}
    BY <1>1
  <2>2. Never # Now
    BY DEF Never, Now
  <2>3. pc' = "regular" /\ nextEventAt' # Now => running' = None /\ regularsToRun' = <<>>
    BY <1>0, <2>1 DEF IdleRound
  <2>4. pc' = "regular" /\ nextEventAt' = Never => Regular' \subseteq unexpected'
    BY <1>0, <1>1, <2>1, <2>2 DEF IdleRound
  <2>5. pc' \in {"onetime", "tick"} /\ ~progressed' /\ ~anyTime' /\ nextEventAt' = Never =>
          /\ running' = None /\ oneTimersToRun' = <<>> /\ promised' = 0
          /\ Regular' \union OneTime' \subseteq unexpected'
    BY <1>0, <1>1, <2>1 DEF IdleRound
  <2>6. pc' = "done" => promised' = 0 /\ Regular' \union OneTime' \subseteq unexpected'
    BY <1>0, <1>1, <2>1 DEF IdleRound, Types
  <2>7. pc' = "call" => nextEventAt' = Now
    BY <1>0, <2>1 DEF IdleRound
  <2> QED BY <2>3, <2>4, <2>5, <2>6, <2>7 DEF IdleRound
<1>2. CASE Tick
  BY <1>1, <1>2 DEF Tick, queueVars, history, Regular, OneTime
<1>3. ASSUME NEW r \in Repeaters, Repeat(r) PROVE IdleRound'
  <2>1. /\ used' = used \union {r} /\ promised' = promised /\ OneTime' = OneTime
        /\ unexpected' = unexpected \/ unexpected' = unexpected \union {r}
        /\ running = None => unexpected' = unexpected \union {r}
    BY <1>3 DEF Repeat, Scheduled, OneTime
  <2>2. Regular' \subseteq Regular \union {r}
    BY <1>3, Inserts DEF Repeat, Types, Regular
  <2> QED BY <1>1, <2>1, <2>2
<1>4. ASSUME NEW r \in Repeaters, Cancel(r) PROVE IdleRound'
  <2>1. Regular' \subseteq Regular
    BY <1>4, Unlinks DEF Cancel, Regular, Types
  <2> QED BY <1>1, <1>4, <2>1 DEF Cancel, OneTime
<1>5. CASE Promise
  BY <1>1, <1>5 DEF Promise, history, Regular, OneTime
<1>6. ASSUME NEW e \in OneTimers, Run(e) PROVE IdleRound'
  <2>1. /\ used' = used \union {e} /\ promised' = promised /\ Regular' = Regular
        /\ unexpected' = unexpected \/ unexpected' = unexpected \union {e}
        /\ running = None => unexpected' = unexpected \union {e}
    BY <1>6 DEF Run, Scheduled, Regular
  <2>2. OneTime' = OneTime \union {e}
    BY <1>6, AppendsOne DEF Run, Types, OneTime
  <2> QED BY <1>1, <2>1, <2>2
<1>7. ASSUME NEW e \in OneTimers, RunPromised(e) PROVE IdleRound'
  BY <1>1, <1>7 DEF RunPromised, Regular
<1>8. ASSUME NEW m \in MainEvents, AddMain(m) PROVE IdleRound'
  BY <1>8 DEF AddMain
<1>9. ASSUME NEW m \in MainEvents, StopMain(m) PROVE IdleRound'
  BY <1>1, <1>9 DEF StopMain, history, Regular, OneTime
<1> QED BY <1>2, <1>3, <1>4, <1>5, <1>6, <1>7, <1>8, <1>9 DEF Methods

LEMMA IdleLoop == ASSUME Types, IdleRound, Loop PROVE IdleRound'
<1> SUFFICES ASSUME used' \intersect MainEvents = {} PROVE IdleRound'
  BY DEF IdleRound
<1>0. /\ used' = used /\ unexpected' = unexpected
      /\ mainEvents = {} /\ mainToRun = {}
  <2>1. UNCHANGED <<used, unexpected>>
    BY DEF history, Loop, CallbackReturns, CollectRegular, CheckRegular, RunRegular, CollectOneTimers, RunOneTimer,
           BeginTick, RunMain, Decide, WakeUp, TimeOut
  <2> QED BY <2>1 DEF Types
<1> USE <1>0 DEF queueVars, Regular, OneTime
<1>1. ASSUME pc' \notin {"regular", "call", "onetime", "tick", "done"} PROVE IdleRound'
  BY <1>1 DEF IdleRound
<1>2. CASE CallbackReturns
  BY <1>2 DEF CallbackReturns, IdleRound, Types
<1>3. CASE CollectRegular
  <2>1. /\ pc' = "regular" /\ running' = None /\ regularsToRun' = Due
        /\ nextEventAt' = NextTime /\ Regular' = Regular
    BY <1>3 DEF CollectRegular, Types
  <2>2. NextTime # Now => Due = <<>>
    BY NextTimeIs
  <2>3. NextTime = Never => Regular = {}
    BY NextTimeIs
  <2> QED BY <2>1, <2>2, <2>3 DEF IdleRound
<1>4. CASE CheckRegular \/ RunRegular
  BY <1>4 DEF CheckRegular, RunRegular, IdleRound, Now, Never
<1>5. CASE CollectOneTimers
  <2>1. /\ pc = "regular" /\ pc' = "onetime" /\ running = None /\ running' = None
        /\ oneTimersToRun' = oneTimeEvents /\ oneTimeEvents' = <<>>
        /\ progressed' = (oneTimeEvents # <<>>) /\ anyTime' = (promised > 0)
        /\ promised' = promised /\ nextEventAt' = nextEventAt /\ Regular' = Regular
    BY <1>5 DEF CollectOneTimers
  <2>2. OneTime' = {}
    BY <2>1, ToSetEmpty
  <2>3. ~progressed' => oneTimersToRun' = <<>>
    BY <2>1, Zenon
  <2>4. ~anyTime' => promised' = 0
    <3>1. ~anyTime' => ~(promised > 0)
      BY <2>1, Zenon
    <3> QED BY <2>1, <3>1 DEF Types
  <2>5. nextEventAt' = Never => Regular' \subseteq unexpected'
    BY <2>1 DEF IdleRound
  <2> QED BY <2>1, <2>2, <2>3, <2>4, <2>5 DEF IdleRound
<1>6. CASE RunOneTimer
  BY <1>6 DEF RunOneTimer, IdleRound
<1>7. CASE BeginTick
  BY <1>7 DEF BeginTick, IdleRound
<1>8. CASE RunMain
  BY <1>8 DEF RunMain
<1>9. CASE Decide
  BY <1>9 DEF Decide, Progressed, IdleRound
<1>10. CASE WakeUp \/ TimeOut
  BY <1>1, <1>10 DEF WakeUp, TimeOut
<1> QED
  BY <1>2, <1>3, <1>4, <1>5, <1>6, <1>7, <1>8, <1>9, <1>10 DEF Loop
-----------------------------------------------------------------------------
LEMMA CheckedStep == ASSUME Checked, [Next]_vars PROVE Checked'
<1>1. ASSUME pc' # "call" PROVE Checked'
  BY <1>1 DEF Checked
<1>2. CASE CheckRegular
  BY <1>2 DEF CheckRegular, Checked, history
<1>3. ASSUME NEW r \in Repeaters, Cancel(r) PROVE Checked'
  BY <1>3 DEF Cancel, Checked, loopVars
<1>4. ASSUME UNCHANGED <<pc, regularsToRun, cancelled, tooLate>> PROVE Checked'
  BY <1>4 DEF Checked
<1>5. CASE CallbackReturns
  BY <1>1, <1>4, <1>5 DEF CallbackReturns, history
<1>6. CASE CollectRegular \/ RunRegular \/ CollectOneTimers \/ BeginTick
  BY <1>1, <1>6 DEF CollectRegular, RunRegular, CollectOneTimers, BeginTick
<1>7. CASE RunOneTimer \/ RunMain \/ Decide \/ WakeUp \/ TimeOut
  BY <1>1, <1>7 DEF RunOneTimer, RunMain, Decide, WakeUp, TimeOut
<1>8. CASE Tick \/ Promise \/ UNCHANGED vars
  BY <1>4, <1>8 DEF Tick, Promise, vars, loopVars, history
<1>9. ASSUME NEW r \in Repeaters, Repeat(r) PROVE Checked'
  BY <1>4, <1>9 DEF Repeat, loopVars
<1>10. ASSUME NEW e \in OneTimers, Run(e) \/ RunPromised(e) PROVE Checked'
  BY <1>4, <1>10 DEF Run, RunPromised, loopVars
<1>11. ASSUME NEW m \in MainEvents, AddMain(m) \/ StopMain(m) PROVE Checked'
  BY <1>4, <1>11 DEF AddMain, StopMain, loopVars, history
<1> QED
  BY <1>2, <1>3, <1>5, <1>6, <1>7, <1>8, <1>9, <1>10, <1>11 DEF Next, Methods, Loop
-----------------------------------------------------------------------------
LEMMA InvStep == Inv /\ [Next]_vars => Inv'
<1> SUFFICES ASSUME Inv, [Next]_vars PROVE Inv'
  OBVIOUS
<1>1. Waits' /\ Checked'
  BY WaitsStep, CheckedStep DEF Inv
<1>2. CASE Tick \/ Methods
  BY <1>1, <1>2, TypesMethods, AwakeMethods, IdleMethods DEF Inv
<1>3. CASE Loop
  BY <1>1, <1>3, TypesLoop, AwakeLoop, IdleLoop DEF Inv
<1>4. CASE UNCHANGED vars
  <2> USE <1>4 DEF vars, queueVars, loopVars, history
  <2>1. Types' /\ Awake'
    BY DEF Inv, Types, Awake, Regular
  <2>2. IdleRound'
    BY DEF Inv, IdleRound, Regular, OneTime
  <2> QED BY <1>1, <2>1, <2>2 DEF Inv
<1> QED BY <1>2, <1>3, <1>4 DEF Next

LEMMA InvAlways == Spec => []Inv
<1> QED BY InvInit, InvStep, PTL DEF Spec

(***************************************************************************)
(* Whatever callbacks and other threads do between two steps of the loop:  *)
(* when it sleeps without a pending release, there is nothing it should    *)
(* have been woken for.                                                    *)
(***************************************************************************)
THEOREM NoWakeupIsLost == Spec => []NoLostWakeup
<1>1. Inv => NoLostWakeup
  BY DEF Inv, Awake, Waits, Regular, NoLostWakeup
<1> QED BY <1>1, InvAlways, PTL

(***************************************************************************)
(* Where haxe.MainLoop is not used, a loop that ends leaves no promise and *)
(* no event behind, but what another thread scheduled without a promise.   *)
(***************************************************************************)
THEOREM TheLoopEndsIdle == Spec => []DoneMeansIdleOffMain
<1>1. Inv => DoneMeansIdleOffMain
  BY DEF Inv, Types, IdleRound, Regular, OneTime, DoneMeansIdle, DoneMeansIdleOffMain
<1> QED BY <1>1, InvAlways, PTL

(***************************************************************************)
(* A cancelled event does not begin to run, even when the loop had already *)
(* collected it, but for one that another thread cancels after the loop    *)
(* has looked whether it was, and before it calls it.                      *)
(***************************************************************************)
THEOREM CancelledStayAway == Spec => CancelledDoNotRun
<1> DEFINE Away == \A r \in cancelled : running' = r => running = r \/ tooLate
<1>1. ASSUME Types, Checked, [Next]_vars PROVE Away
  <2> USE <1>1
  <2> SUFFICES ASSUME NEW r \in cancelled, running' = r, ~tooLate PROVE running = r
    OBVIOUS
  <2>1. r \in Repeaters /\ r # None /\ r \notin OneTimers /\ r \notin MainEvents
    BY ConstantsAssumption DEF Types, None
  <2>2. CASE CallbackReturns
    BY <2>1, <2>2 DEF CallbackReturns
  <2>3. CASE RunRegular
    BY <2>3 DEF RunRegular, Checked
  <2>4. CASE RunOneTimer
    <3>1. Head(oneTimersToRun) \in OneTimers
      BY <2>4, HeadTailProperties DEF RunOneTimer, Types
    <3> QED BY <2>1, <2>4, <3>1 DEF RunOneTimer
  <2>5. CASE RunMain
    BY <2>1, <2>5 DEF RunMain, Types
  <2>6. CASE Tick \/ Methods \/ UNCHANGED vars
    BY <2>6 DEF Tick, Methods, Repeat, Cancel, Promise, Run, RunPromised, AddMain, StopMain,
                loopVars, vars
  <2>7. CASE CollectRegular \/ CheckRegular \/ CollectOneTimers \/ BeginTick \/ Decide \/ WakeUp \/ TimeOut
    BY <2>7 DEF CollectRegular, CheckRegular, CollectOneTimers, BeginTick, Decide, WakeUp, TimeOut
  <2> QED BY <2>2, <2>3, <2>4, <2>5, <2>6, <2>7 DEF Next, Loop
<1>2. Inv /\ [Next]_vars => [Away]_vars
  BY <1>1 DEF Inv
<1> QED BY <1>2, InvAlways, PTL DEF Spec, CancelledDoNotRun

-----------------------------------------------------------------------------
(* NativeXml: the types of its calls and of its tree *)

Texts == Seq(Character)
Attrib == [name : Texts, value : Texts]

Nexts == {"BEGIN", "BEGIN_NODE", "BODY", "EQUALS", "ATTVAL_BEGIN", "CLOSE", "WAIT_END_RET"}
States == Nexts \union {"IGNORE_SPACES", "PCDATA", "CDATA", "COMMENT", "DOCTYPE", "HEADER", "TAG_NAME",
                        "ATTRIB_NAME", "ATTRIB_VAL", "CHILDS", "WAIT_END"}

Frame == [state : States, next : Nexts, start : Nat, nodename : Texts, aname : Texts,
          attribs : Seq(Attrib), nsubs : Nat, nbrackets : Int, parentname : Texts]

Kinds == {"Element", "PCData", "CData", "DocType", "Comment", "ProcessingInstruction"}
XmlNode == [type : Kinds, value : Texts, attribs : Seq(Attrib), parent : Nat]

\* The state a call is in, or will be in behind the spaces.
ToBe(f) == IF f.state = "IGNORE_SPACES" THEN f.next ELSE f.state

\* What a call has marked lies before the present character; only what is
\* inside of an element looks for an end tag.
Placed(f, q) ==
    /\ f.start \in 0 .. q
    /\ f.start = 0 => ToBe(f) \in {"BEGIN", "BEGIN_NODE"}
    /\ ToBe(f) \in {"CLOSE", "WAIT_END_RET"} => f.parentname # NoName

Reading == doc \in Texts /\ p \in 1 .. Len(doc) + 1 /\ line \in 0 .. p - 1

FramesOK ==
    /\ frames \in Seq(Frame) /\ Len(frames) >= 1
    /\ frames[1].parentname = NoName
    /\ \A k \in 1 .. Len(frames) : Placed(frames[k], p)

NodesOK ==
    /\ nodes \in Seq(XmlNode) /\ cur \in 0 .. Len(nodes)
    /\ \A k \in 1 .. Len(nodes) : nodes[k].parent \in 0 .. k - 1

\* Only an element that was opened waits for its end.
WaitOK == Top.state = "WAIT_END" => cur >= 1

XmlInv ==
    /\ Reading /\ FramesOK /\ NodesOK /\ WaitOK
    /\ result \in {"parsing", "parsed", "error"} /\ endtags \in Nat
-----------------------------------------------------------------------------
\* Texts and where they begin.
LEMMA TextFacts ==
    /\ << >> \in Texts /\ NoName \in Texts
    /\ \A s \in Texts : Len(s) \in Nat /\ \A k \in 1..Len(s) : s[k] \in Character
<1>1. \A S : << >> \in Seq(S)
  OBVIOUS
<1>2. ASSUME NEW s \in Texts PROVE Len(s) \in Nat /\ \A k \in 1..Len(s) : s[k] \in Character
  BY ElementOfSeq, LenProperties DEF Texts
<1> QED BY <1>1, <1>2 DEF Texts, NoName

\* A part of a sequence.
LEMMA PartOfSeq ==
    ASSUME NEW S, NEW s \in Seq(S), NEW m \in Nat \ {0}, NEW n \in Int, n <= Len(s)
    PROVE  SubSeq(s, m, n) \in Seq(S)
<1>1. Len(s) \in Nat
  BY LenProperties
<1>2. ASSUME NEW k \in m..n PROVE s[k] \in S
  <2>1. k \in 1..Len(s)
    BY <1>1
  <2> QED BY <2>1, ElementOfSeq
<1> QED BY <1>2, SubSeqProperties

\* What is between a mark and a place behind it lies in the document.
LEMMA SliceType ==
    ASSUME Reading, NEW from \in Nat \ {0}, NEW to \in Nat, to <= Len(doc) + 1
    PROVE  Slice(from, to) \in Texts
<1>1. Len(doc) \in Nat /\ doc \in Seq(Character)
  BY TextFacts DEF Reading, Texts
<1>2. to - 1 \in Int /\ to - 1 <= Len(doc)
  BY <1>1
<1> QED BY <1>1, <1>2, PartOfSeq DEF Slice, Texts

\* A character that is there is not behind the end.
LEMMA There ==
    ASSUME Reading, NEW k \in Nat, CharAt(k) # NUL
    PROVE  k <= Len(doc)
BY TextFacts DEF Reading, CharAt

\* A keyword that is read lies in the document as a whole.
LEMMA ReadsWhole ==
    ASSUME Reading, NEW at \in Nat \ {0}, NEW n \in Nat \ {0}, NEW word,
           DOMAIN word = 1..n, word[n] \subseteq Looked, Reads(at, word)
    PROVE  at + n - 1 <= Len(doc)
<1>1. CharAt(at + n - 1) \in word[n]
  <2>1. n \in DOMAIN word
    OBVIOUS
  <2> QED BY <2>1 DEF Reads
<1>2. CharAt(at + n - 1) # NUL
  BY <1>1, NativeXmlAssumption
<1> QED BY <1>2, There

\* One round of the loop more.
LEMMA BreakReads ==
    ASSUME Reading, NEW k \in Nat, p + k <= Len(doc), Break(k)
    PROVE  Reading' /\ p' = p + k + 1 /\ result' = result /\ endtags' = endtags /\ doc' = doc
<1>1. /\ p' = p + k + 1 /\ doc' = doc /\ result' = result /\ endtags' = endtags
      /\ line' \in {line, line + 1}
  BY DEF Break, inputs
<1>2. Len(doc) \in Nat /\ p \in Nat /\ line \in Nat
  BY TextFacts DEF Reading
<1> QED BY <1>1, <1>2 DEF Reading

LEMMA ContinueReads ==
    ASSUME Reading, UNCHANGED <<inputs, p, line>>
    PROVE  Reading' /\ p' = p /\ doc' = doc
BY DEF Reading, inputs

\* The last call has another frame.
LEMMA SetFrame ==
    ASSUME FramesOK, p \in Nat, p' \in Nat, p' >= p,
           NEW f \in Frame, Set(f), f.parentname = Top.parentname, Placed(f, p')
    PROVE  FramesOK' /\ Top' = f
<1> DEFINE n == Len(frames)
<1>1. n \in Nat \ {0} /\ n \in 1..n /\ 1 \in 1..n
  BY LenProperties DEF FramesOK
<1>2. frames' = [frames EXCEPT ![n] = f]
  BY DEF Set
<1>3. frames' \in Seq(Frame) /\ Len(frames') = n
  BY <1>1, <1>2, ExceptSeq DEF FramesOK
<1>4. \A k \in 1..n : frames'[k] = IF k = n THEN f ELSE frames[k]
  BY <1>1, <1>2, ExceptSeq DEF FramesOK
<1>5. Top' = f
  BY <1>1, <1>3, <1>4 DEF Top
<1>6. frames'[1].parentname = NoName
  BY <1>1, <1>4 DEF FramesOK, Top
<1>7. ASSUME NEW k \in 1..n PROVE Placed(frames'[k], p')
  <2>1. CASE k = n
    BY <1>4, <2>1
  <2>2. CASE k # n
    <3>1. Placed(frames[k], p) /\ frames'[k] = frames[k]
      BY <1>4, <2>2 DEF FramesOK
    <3> QED BY <3>1 DEF Placed
  <2> QED BY <2>1, <2>2
<1> QED BY <1>1, <1>3, <1>5, <1>6, <1>7 DEF FramesOK

LEMMA SameFrames ==
    ASSUME FramesOK, p \in Nat, p' \in Nat, p' >= p, UNCHANGED frames
    PROVE  FramesOK' /\ Top' = Top
<1>1. ASSUME NEW k \in 1..Len(frames) PROVE Placed(frames[k], p')
  BY DEF FramesOK, Placed
<1> QED BY <1>1 DEF FramesOK, Top

LEMMA TheTop == ASSUME FramesOK PROVE Top \in Frame /\ Placed(Top, p)
<1>1. Len(frames) \in Nat \ {0} /\ Len(frames) \in 1..Len(frames)
  BY LenProperties DEF FramesOK
<1> QED BY <1>1, ElementOfSeq DEF FramesOK, Top

\* A node is added below the open one.
LEMMA NodeAdded ==
    ASSUME NodesOK, NEW type \in Kinds, NEW value \in Texts, NEW attribs \in Seq(Attrib),
           nodes' = Append(nodes, Node(type, value, attribs)), cur' \in {cur, Len(nodes) + 1}
    PROVE  NodesOK'
<1> DEFINE node == Node(type, value, attribs)
           n == Len(nodes)
<1>1. n \in Nat /\ cur \in 0..n
  BY LenProperties DEF NodesOK
<1>2. node \in XmlNode /\ node.parent = cur
  BY <1>1 DEF Node, XmlNode
<1> HIDE DEF node
<1>3. /\ nodes' \in Seq(XmlNode) /\ Len(nodes') = n + 1
      /\ \A k \in 1..n : nodes'[k] = nodes[k]
      /\ nodes'[n + 1] = node
  <2>1. nodes' = Append(nodes, node)
    BY DEF node
  <2> QED BY <1>2, <2>1, AppendProperties DEF NodesOK
<1>4. ASSUME NEW k \in 1..(n + 1) PROVE nodes'[k].parent \in 0..(k - 1)
  <2>1. CASE k = n + 1
    BY <1>1, <1>2, <1>3, <2>1
  <2>2. CASE k # n + 1
    BY <1>1, <1>3, <2>2 DEF NodesOK
  <2> QED BY <2>1, <2>2
<1> QED BY <1>1, <1>3, <1>4 DEF NodesOK

LEMMA TextAdded ==
    ASSUME NodesOK, NEW type \in Kinds, NEW value \in Texts, Add(type, value)
    PROVE  NodesOK' /\ cur' = cur
<1>1. << >> \in Seq(Attrib)
  OBVIOUS
<1> QED BY <1>1, NodeAdded DEF Add

-----------------------------------------------------------------------------
(* What the steps make of the frame on top *)

Turned(f, t, st, nx, at) ==
    /\ f \in Frame /\ f.parentname = t.parentname
    /\ f.state = st /\ f.next = nx /\ f.start = at

\* To another state, with a mark, or over the spaces first.
LEMMA Turns ==
    ASSUME NEW t \in Frame, t = Top
    PROVE  /\ \A st \in States : Turned(Goto(st), t, st, t.next, t.start)
           /\ \A st \in States, at \in Nat : Turned(Mark(st, at), t, st, t.next, at)
           /\ \A nx \in Nexts : Turned(Skip(nx), t, "IGNORE_SPACES", nx, t.start)
<1>1. ASSUME NEW st \in States PROVE Turned(Goto(st), t, st, t.next, t.start)
  BY DEF Goto, Turned, Frame
<1>2. ASSUME NEW st \in States, NEW at \in Nat PROVE Turned(Mark(st, at), t, st, t.next, at)
  BY DEF Mark, Turned, Frame
<1>3. ASSUME NEW nx \in Nexts PROVE Turned(Skip(nx), t, "IGNORE_SPACES", nx, t.start)
  <2>1. "IGNORE_SPACES" \in States
    BY DEF States
  <2> QED BY <2>1 DEF Skip, Turned, Frame
<1> QED BY <1>1, <1>2, <1>3

\* The other fields of a frame.
LEMMA Details ==
    ASSUME NEW f, NEW t, NEW st, NEW nx, NEW at, Turned(f, t, st, nx, at)
    PROVE  /\ Turned([f EXCEPT !.nsubs = @ + 1], t, st, nx, at)
           /\ \A x \in Texts : Turned([f EXCEPT !.aname = x], t, st, nx, at)
           /\ \A x \in Texts : Turned([f EXCEPT !.nodename = x, !.attribs = << >>], t, st, nx, at)
           /\ \A a \in Attrib : Turned([f EXCEPT !.attribs = Append(@, a)], t, st, nx, at)
           /\ \A q \in Nat : Turned([f EXCEPT !.start = q], t, st, nx, q)
           /\ Turned([f EXCEPT !.nbrackets = @ + 1], t, st, nx, at)
           /\ Turned([f EXCEPT !.nbrackets = @ - 1], t, st, nx, at)
<1>1. Turned([f EXCEPT !.nsubs = @ + 1], t, st, nx, at)
  BY DEF Turned, Frame
<1>2. ASSUME NEW x \in Texts
      PROVE  /\ Turned([f EXCEPT !.aname = x], t, st, nx, at)
             /\ Turned([f EXCEPT !.nodename = x, !.attribs = << >>], t, st, nx, at)
  <2>1. << >> \in Seq(Attrib)
    OBVIOUS
  <2> QED BY <2>1 DEF Turned, Frame
<1>3. ASSUME NEW a \in Attrib PROVE Turned([f EXCEPT !.attribs = Append(@, a)], t, st, nx, at)
  <2>1. f.attribs \in Seq(Attrib)
    BY DEF Turned, Frame
  <2>2. PICK more : more = Append(f.attribs, a)
    OBVIOUS
  <2>3. more \in Seq(Attrib)
    BY <2>1, <2>2
  <2>4. Turned([f EXCEPT !.attribs = more], t, st, nx, at)
    BY <2>3 DEF Turned, Frame
  <2> QED BY <2>2, <2>4
<1>4. ASSUME NEW q \in Nat PROVE Turned([f EXCEPT !.start = q], t, st, nx, q)
  BY DEF Turned, Frame
<1>5. /\ Turned([f EXCEPT !.nbrackets = @ + 1], t, st, nx, at)
      /\ Turned([f EXCEPT !.nbrackets = @ - 1], t, st, nx, at)
  BY DEF Turned, Frame
<1> QED BY <1>1, <1>2, <1>3, <1>4, <1>5

\* The invariant after a step that changes the frame on top.
LEMMA Advance ==
    ASSUME XmlInv, Reading', p' >= p, NodesOK', result' = result, endtags' = endtags,
           NEW f, NEW st, NEW nx, NEW at, Turned(f, Top, st, nx, at), Set(f), Placed(f, p'),
           st = "WAIT_END" => cur' >= 1
    PROVE  XmlInv'
<1>1. p \in Nat /\ p' \in Nat
  BY TextFacts DEF XmlInv, Reading
<1>2. FramesOK' /\ Top' = f
  BY <1>1, SetFrame DEF Turned, XmlInv
<1>3. WaitOK'
  BY <1>2 DEF WaitOK, Turned
<1> QED BY <1>2, <1>3 DEF XmlInv

\* The invariant after a step that leaves the frames alone.
LEMMA Onward ==
    ASSUME XmlInv, Reading', p' >= p, NodesOK', result' \in {"parsing", "parsed", "error"},
           endtags' = endtags, UNCHANGED frames, cur' = cur
    PROVE  XmlInv'
<1>1. p \in Nat /\ p' \in Nat
  BY TextFacts DEF XmlInv, Reading
<1>2. FramesOK' /\ Top' = Top
  BY <1>1, SameFrames DEF XmlInv
<1>3. WaitOK'
  BY <1>2 DEF WaitOK, XmlInv
<1> QED BY <1>2, <1>3 DEF XmlInv

LEMMA SameTree == ASSUME NodesOK, UNCHANGED tree PROVE NodesOK' /\ cur' = cur
BY DEF NodesOK, tree

LEMMA AfterError == ASSUME XmlInv, ERROR PROVE XmlInv'
<1>1. /\ UNCHANGED <<inputs, p, line, frames>> /\ UNCHANGED tree /\ endtags' = endtags
      /\ result' = "error"
  BY DEF ERROR
<1>2. Reading' /\ p' = p
  BY <1>1, ContinueReads DEF XmlInv
<1>3. NodesOK' /\ cur' = cur
  BY <1>1, SameTree DEF XmlInv
<1>4. p' >= p
  BY <1>2, TextFacts DEF XmlInv, Reading
<1> QED BY <1>1, <1>2, <1>3, <1>4, Onward

\* Nothing but the place changes.
LEMMA ReadsOn == ASSUME XmlInv, c # NUL, Break(0), UNCHANGED <<frames, tree>> PROVE XmlInv'
<1>1. p + 0 <= Len(doc) /\ p \in Nat
  BY There, TextFacts DEF XmlInv, Reading, c
<1>2. Reading' /\ p' = p + 0 + 1 /\ result' = result /\ endtags' = endtags
  BY <1>1, BreakReads DEF XmlInv
<1>3. NodesOK' /\ cur' = cur
  BY SameTree DEF XmlInv
<1>4. p' >= p
  BY <1>1, <1>2
<1> QED BY <1>2, <1>3, <1>4, Onward DEF XmlInv

\* A frame is changed, and the loop goes on behind k more characters.
LEMMA Further ==
    ASSUME XmlInv, NEW k \in Nat, p + k <= Len(doc), Break(k), NodesOK',
           NEW f, NEW st, NEW nx, NEW at, Turned(f, Top, st, nx, at), Set(f),
           Placed(f, p + k + 1), st = "WAIT_END" => cur' >= 1
    PROVE  XmlInv'
<1>1. Reading' /\ p' = p + k + 1 /\ result' = result /\ endtags' = endtags
  BY BreakReads DEF XmlInv
<1>2. p' >= p
  BY <1>1, TextFacts DEF XmlInv, Reading
<1>3. Placed(f, p')
  BY <1>1
<1> QED BY <1>1, <1>2, <1>3, Advance

\* A frame is changed, and the same character is looked at again.
LEMMA Again ==
    ASSUME XmlInv, Continue,
           NEW f, NEW st, NEW nx, NEW at, Turned(f, Top, st, nx, at), Set(f),
           Placed(f, p), st # "WAIT_END"
    PROVE  XmlInv'
<1>1. UNCHANGED <<inputs, p, line>> /\ UNCHANGED tree /\ result' = result /\ endtags' = endtags
  BY DEF Continue
<1>2. Reading' /\ p' = p
  BY <1>1, ContinueReads DEF XmlInv
<1>3. p' >= p /\ Placed(f, p')
  BY <1>2, TextFacts DEF XmlInv, Reading
<1>4. NodesOK'
  BY <1>1, SameTree DEF XmlInv
<1> QED BY <1>1, <1>2, <1>3, <1>4, Advance

\* What every case of the loop starts from.
LEMMA Present ==
    ASSUME XmlInv
    PROVE  /\ Reading /\ FramesOK /\ NodesOK /\ p \in Nat \ {0} /\ Len(doc) \in Nat
           /\ Top \in Frame /\ Placed(Top, p)
           /\ c # NUL => p <= Len(doc) /\ p + 0 <= Len(doc)
<1>1. Reading /\ FramesOK /\ NodesOK /\ p \in Nat \ {0} /\ Len(doc) \in Nat
  BY TextFacts DEF XmlInv, Reading
<1>2. c # NUL => p <= Len(doc)
  BY <1>1, There DEF c
<1> QED BY <1>1, <1>2, TheTop

\* The keywords and the ends of sections are characters the zero is not one of.
LEMMA WordsRead ==
    ASSUME Reading, NEW at \in Nat \ {0}
    PROVE  /\ Reads(at, CDATA_OPEN) => at + 6 - 1 <= Len(doc)
           /\ Reads(at, DOCTYPE_OPEN) => at + 7 - 1 <= Len(doc)
           /\ Reads(at, <<{"-"}, {"-"}>>) => at + 2 - 1 <= Len(doc)
           /\ Reads(at, <<{"]"}, {"]"}, {">"}>>) => at + 3 - 1 <= Len(doc)
           /\ Reads(at, <<{"-"}, {"-"}, {">"}>>) => at + 3 - 1 <= Len(doc)
           /\ Reads(at, <<{"?"}, {">"}>>) => at + 2 - 1 <= Len(doc)
<1>1. ASSUME Reads(at, CDATA_OPEN) PROVE at + 6 - 1 <= Len(doc)
  <2>1. PICK word : word = CDATA_OPEN
    OBVIOUS
  <2>2. DOMAIN word = 1..6 /\ word[6] \subseteq Looked
    BY <2>1 DEF CDATA_OPEN, Looked
  <2>3. Reads(at, word)
    BY <1>1, <2>1
  <2>4. PICK n \in Nat \ {0} : n = 6
    OBVIOUS
  <2>5. DOMAIN word = 1..n /\ word[n] \subseteq Looked
    BY <2>2, <2>4
  <2>6. at + n - 1 <= Len(doc)
    BY <2>3, <2>5, ReadsWhole
  <2> QED BY <2>4, <2>6
<1>2. ASSUME Reads(at, DOCTYPE_OPEN) PROVE at + 7 - 1 <= Len(doc)
  <2>1. PICK word : word = DOCTYPE_OPEN
    OBVIOUS
  <2>2. DOMAIN word = 1..7 /\ word[7] \subseteq Looked
    BY <2>1 DEF DOCTYPE_OPEN, Looked
  <2>3. Reads(at, word)
    BY <1>2, <2>1
  <2>4. PICK n \in Nat \ {0} : n = 7
    OBVIOUS
  <2>5. DOMAIN word = 1..n /\ word[n] \subseteq Looked
    BY <2>2, <2>4
  <2>6. at + n - 1 <= Len(doc)
    BY <2>3, <2>5, ReadsWhole
  <2> QED BY <2>4, <2>6
<1>3. ASSUME Reads(at, <<{"-"}, {"-"}>>) PROVE at + 2 - 1 <= Len(doc)
  <2>1. PICK word : word = <<{"-"}, {"-"}>>
    OBVIOUS
  <2>2. DOMAIN word = 1..2 /\ word[2] \subseteq Looked
    BY <2>1 DEF Looked
  <2>3. Reads(at, word)
    BY <1>3, <2>1
  <2>4. PICK n \in Nat \ {0} : n = 2
    OBVIOUS
  <2>5. DOMAIN word = 1..n /\ word[n] \subseteq Looked
    BY <2>2, <2>4
  <2>6. at + n - 1 <= Len(doc)
    BY <2>3, <2>5, ReadsWhole
  <2> QED BY <2>4, <2>6
<1>4. ASSUME Reads(at, <<{"]"}, {"]"}, {">"}>>) PROVE at + 3 - 1 <= Len(doc)
  <2>1. PICK word : word = <<{"]"}, {"]"}, {">"}>>
    OBVIOUS
  <2>2. DOMAIN word = 1..3 /\ word[3] \subseteq Looked
    BY <2>1 DEF Looked
  <2>3. Reads(at, word)
    BY <1>4, <2>1
  <2>4. PICK n \in Nat \ {0} : n = 3
    OBVIOUS
  <2>5. DOMAIN word = 1..n /\ word[n] \subseteq Looked
    BY <2>2, <2>4
  <2>6. at + n - 1 <= Len(doc)
    BY <2>3, <2>5, ReadsWhole
  <2> QED BY <2>4, <2>6
<1>5. ASSUME Reads(at, <<{"-"}, {"-"}, {">"}>>) PROVE at + 3 - 1 <= Len(doc)
  <2>1. PICK word : word = <<{"-"}, {"-"}, {">"}>>
    OBVIOUS
  <2>2. DOMAIN word = 1..3 /\ word[3] \subseteq Looked
    BY <2>1 DEF Looked
  <2>3. Reads(at, word)
    BY <1>5, <2>1
  <2>4. PICK n \in Nat \ {0} : n = 3
    OBVIOUS
  <2>5. DOMAIN word = 1..n /\ word[n] \subseteq Looked
    BY <2>2, <2>4
  <2>6. at + n - 1 <= Len(doc)
    BY <2>3, <2>5, ReadsWhole
  <2> QED BY <2>4, <2>6
<1>6. ASSUME Reads(at, <<{"?"}, {">"}>>) PROVE at + 2 - 1 <= Len(doc)
  <2>1. PICK word : word = <<{"?"}, {">"}>>
    OBVIOUS
  <2>2. DOMAIN word = 1..2 /\ word[2] \subseteq Looked
    BY <2>1 DEF Looked
  <2>3. Reads(at, word)
    BY <1>6, <2>1
  <2>4. PICK n \in Nat \ {0} : n = 2
    OBVIOUS
  <2>5. DOMAIN word = 1..n /\ word[n] \subseteq Looked
    BY <2>2, <2>4
  <2>6. at + n - 1 <= Len(doc)
    BY <2>3, <2>5, ReadsWhole
  <2> QED BY <2>4, <2>6
<1> QED BY <1>1, <1>2, <1>3, <1>4, <1>5, <1>6

LEMMA IgnoreSpacesStep == ASSUME XmlInv, IgnoreSpaces PROVE XmlInv'
<1>1. c # NUL /\ Top.state = "IGNORE_SPACES"
  BY DEF IgnoreSpaces, Case
<1>2. CASE Break(0) /\ UNCHANGED <<frames, tree>>
  BY <1>1, <1>2, ReadsOn
<1>3. CASE Set(Goto(Top.next)) /\ Continue
  <2>1. PICK t \in Frame : t = Top /\ Placed(t, p)
    BY Present
  <2>2. PICK f : f = Goto(t.next)
    OBVIOUS
  <2>3. t.next \in Nexts /\ t.next \in States /\ t.next # "IGNORE_SPACES" /\ t.next # "WAIT_END"
    BY <2>1 DEF Frame, Nexts, States
  <2>4. Turned(f, t, t.next, t.next, t.start)
    BY <2>1, <2>2, <2>3, Turns
  <2>5. Placed(f, p)
    BY <1>1, <2>1, <2>3, <2>4 DEF Placed, ToBe, Turned
  <2> QED BY <1>3, <2>1, <2>2, <2>3, <2>4, <2>5, Again
<1> QED BY <1>2, <1>3 DEF IgnoreSpaces

LEMMA BeginStep == ASSUME XmlInv, Begin PROVE XmlInv'
<1>1. c # NUL /\ Top.state = "BEGIN"
  BY DEF Begin, Case
<1>2. PICK t \in Frame : t = Top /\ Placed(t, p)
  BY Present
<1>3. CASE Set(Skip("BEGIN_NODE")) /\ Break(0) /\ UNCHANGED tree
  <2>1. PICK f : f = Skip("BEGIN_NODE")
    OBVIOUS
  <2>2. "BEGIN_NODE" \in Nexts
    BY DEF Nexts
  <2>3. Turned(f, t, "IGNORE_SPACES", "BEGIN_NODE", t.start)
    BY <1>2, <2>1, <2>2, Turns
  <2>4. Placed(f, p + 0 + 1)
    BY <1>2, <2>3, Present DEF Placed, ToBe, Turned
  <2>5. NodesOK'
    BY <1>3, Present, SameTree
  <2> QED BY <1>1, <1>2, <1>3, <2>1, <2>3, <2>4, <2>5, Present, Further
<1>4. CASE Set(Mark("PCDATA", p)) /\ Continue
  <2>1. PICK f : f = Mark("PCDATA", p)
    OBVIOUS
  <2>2. "PCDATA" \in States
    BY DEF States
  <2>3. Turned(f, t, "PCDATA", t.next, p)
    BY <1>2, <2>1, <2>2, Present, Turns
  <2>4. Placed(f, p)
    BY <2>3, Present DEF Placed, ToBe, Turned
  <2> QED BY <1>2, <1>4, <2>1, <2>3, <2>4, Again
<1> QED BY <1>3, <1>4 DEF Begin

LEMMA PcdataStep == ASSUME XmlInv, Pcdata PROVE XmlInv'
<1>1. c # NUL /\ Top.state = "PCDATA" /\ Break(0)
  BY DEF Pcdata, Case
<1>2. PICK t \in Frame : t = Top /\ Placed(t, p)
  BY Present
<1>3. CASE UNCHANGED <<frames, tree>>
  BY <1>1, <1>3, ReadsOn
<1>4. CASE pcdata(Slice(start, p)) /\ Set([Skip("BEGIN_NODE") EXCEPT !.nsubs = @ + 1])
  <2>1. PICK g : g = Skip("BEGIN_NODE")
    OBVIOUS
  <2>2. PICK f : f = [g EXCEPT !.nsubs = @ + 1]
    OBVIOUS
  <2>3. "BEGIN_NODE" \in Nexts
    BY DEF Nexts
  <2>4. Turned(g, t, "IGNORE_SPACES", "BEGIN_NODE", t.start)
    BY <1>2, <2>1, <2>3, Turns
  <2>5. Turned(f, t, "IGNORE_SPACES", "BEGIN_NODE", t.start)
    BY <2>2, <2>4, Details
  <2>6. Placed(f, p + 0 + 1)
    BY <1>2, <2>5, Present DEF Placed, ToBe, Turned
  <2>7. start \in Nat \ {0}
    BY <1>1, <1>2 DEF Placed, ToBe, start, Frame
  <2>8. Slice(start, p) \in Texts
    BY <1>1, <2>7, Present, SliceType
  <2>9. NodesOK'
    BY <1>4, <2>8, Present, TextAdded DEF pcdata, Kinds
  <2> QED BY <1>1, <1>2, <1>4, <2>1, <2>2, <2>5, <2>6, <2>9, Present, Further
<1> QED BY <1>3, <1>4 DEF Pcdata

\* A comment may be a processing instruction.
LEMMA CommentAdded ==
    ASSUME NodesOK, NEW text \in Texts, comment(text)
    PROVE  NodesOK' /\ cur' = cur
<1>1. CASE Len(text) > 1 /\ Add("ProcessingInstruction", SubSeq(text, 2, Len(text) - 1))
  <2>1. SubSeq(text, 2, Len(text) - 1) \in Texts
    <3>1. Len(text) \in Nat /\ Len(text) - 1 \in Int /\ Len(text) - 1 <= Len(text)
      BY TextFacts
    <3> QED BY <3>1, PartOfSeq DEF Texts
  <2> QED BY <1>1, <2>1, TextAdded DEF Kinds
<1>2. CASE Add("Comment", text)
  BY <1>2, TextAdded DEF Kinds
<1> QED BY <1>1, <1>2 DEF comment

LEMMA CdataStep == ASSUME XmlInv, Cdata PROVE XmlInv'
<1>1. c # NUL /\ Top.state = "CDATA"
  BY DEF Cdata, Case
<1>2. PICK t \in Frame : t = Top /\ Placed(t, p)
  BY Present
<1>3. CASE Break(0) /\ UNCHANGED <<frames, tree>>
  BY <1>1, <1>3, ReadsOn
<1>4. CASE /\ Reads(p, <<{"]"}, {"]"}, {">"}>>)
           /\ cdata(Slice(start, p))
           /\ Set([Goto("BEGIN") EXCEPT !.nsubs = @ + 1])
           /\ Break(2)
  <2>1. p + 3 - 1 <= Len(doc)
    BY <1>4, Present, WordsRead
  <2>2. PICK g : g = Goto("BEGIN")
    OBVIOUS
  <2>3. PICK f : f = [g EXCEPT !.nsubs = @ + 1]
    OBVIOUS
  <2>4. "BEGIN" \in States
    BY DEF States, Nexts
  <2>5. Turned(g, t, "BEGIN", t.next, t.start)
    BY <1>2, <2>2, <2>4, Turns
  <2>6. Turned(f, t, "BEGIN", t.next, t.start)
    BY <2>3, <2>5, Details
  <2>7. Placed(f, p + 2 + 1)
    BY <1>2, <2>6, Present DEF Placed, ToBe, Turned
  <2>8. start \in Nat \ {0}
    BY <1>1, <1>2 DEF Placed, ToBe, start, Frame
  <2>9. Slice(start, p) \in Texts
    BY <2>1, <2>8, Present, SliceType
  <2>10. NodesOK'
    BY <1>4, <2>9, Present, TextAdded DEF cdata, Kinds
  <2>11. p + 2 <= Len(doc)
    BY <2>1, Present
  <2> QED BY <1>2, <1>4, <2>2, <2>3, <2>6, <2>7, <2>10, <2>11, Further
<1> QED BY <1>3, <1>4 DEF Cdata

LEMMA CommentStep == ASSUME XmlInv, Comment PROVE XmlInv'
<1>1. c # NUL /\ Top.state = "COMMENT"
  BY DEF Comment, Case
<1>2. PICK t \in Frame : t = Top /\ Placed(t, p)
  BY Present
<1>3. CASE Break(0) /\ UNCHANGED <<frames, tree>>
  BY <1>1, <1>3, ReadsOn
<1>4. CASE /\ Reads(p, <<{"-"}, {"-"}, {">"}>>)
           /\ comment(Slice(start, p))
           /\ Set(Goto("BEGIN"))
           /\ Break(2)
  <2>1. p + 3 - 1 <= Len(doc)
    BY <1>4, Present, WordsRead
  <2>2. PICK g : g = Goto("BEGIN")
    OBVIOUS
  <2>3. PICK f : f = g
    OBVIOUS
  <2>4. "BEGIN" \in States
    BY DEF States, Nexts
  <2>5. Turned(g, t, "BEGIN", t.next, t.start)
    BY <1>2, <2>2, <2>4, Turns
  <2>6. Turned(f, t, "BEGIN", t.next, t.start)
    BY <2>3, <2>5
  <2>7. Placed(f, p + 2 + 1)
    BY <1>2, <2>6, Present DEF Placed, ToBe, Turned
  <2>8. start \in Nat \ {0}
    BY <1>1, <1>2 DEF Placed, ToBe, start, Frame
  <2>9. Slice(start, p) \in Texts
    BY <2>1, <2>8, Present, SliceType
  <2>10. NodesOK'
    BY <1>4, <2>9, Present, CommentAdded
  <2>11. p + 2 <= Len(doc)
    BY <2>1, Present
  <2> QED BY <1>2, <1>4, <2>2, <2>3, <2>6, <2>7, <2>10, <2>11, Further
<1> QED BY <1>3, <1>4 DEF Comment

LEMMA HeaderStep == ASSUME XmlInv, Header PROVE XmlInv'
<1>1. c # NUL /\ Top.state = "HEADER"
  BY DEF Header, Case
<1>2. PICK t \in Frame : t = Top /\ Placed(t, p)
  BY Present
<1>3. CASE Break(0) /\ UNCHANGED <<frames, tree>>
  BY <1>1, <1>3, ReadsOn
<1>4. CASE /\ Reads(p, <<{"?"}, {">"}>>)
           /\ comment(Slice(start, p + 1))
           /\ Set(Goto("BEGIN"))
           /\ Break(1)
  <2>1. p + 2 - 1 <= Len(doc)
    BY <1>4, Present, WordsRead
  <2>2. PICK g : g = Goto("BEGIN")
    OBVIOUS
  <2>3. PICK f : f = g
    OBVIOUS
  <2>4. "BEGIN" \in States
    BY DEF States, Nexts
  <2>5. Turned(g, t, "BEGIN", t.next, t.start)
    BY <1>2, <2>2, <2>4, Turns
  <2>6. Turned(f, t, "BEGIN", t.next, t.start)
    BY <2>3, <2>5
  <2>7. Placed(f, p + 1 + 1)
    BY <1>2, <2>6, Present DEF Placed, ToBe, Turned
  <2>8. start \in Nat \ {0}
    BY <1>1, <1>2 DEF Placed, ToBe, start, Frame
  <2>9. Slice(start, p + 1) \in Texts
    BY <2>1, <2>8, Present, SliceType
  <2>10. NodesOK'
    BY <1>4, <2>9, Present, CommentAdded
  <2>11. p + 1 <= Len(doc)
    BY <2>1, Present
  <2> QED BY <1>2, <1>4, <2>2, <2>3, <2>6, <2>7, <2>10, <2>11, Further
<1> QED BY <1>3, <1>4 DEF Header

\* The section behind a keyword begins behind it.
LEMMA SectionStep ==
    ASSUME XmlInv, NEW found \in BOOLEAN, NEW k \in Nat, NEW st \in {"CDATA", "DOCTYPE", "COMMENT"},
           Section(found, k, st), found => p + k <= Len(doc)
    PROVE  XmlInv'
<1>2. PICK t \in Frame : t = Top /\ Placed(t, p)
  BY Present
<1>3. CASE found /\ Set(Mark(st, p + k + 1)) /\ Break(k) /\ UNCHANGED tree
  <2>1. PICK f : f = Mark(st, p + k + 1)
    OBVIOUS
  <2>2. st \in States /\ p + k + 1 \in Nat /\
         st \notin {"IGNORE_SPACES", "CLOSE", "WAIT_END_RET", "WAIT_END"}
    BY Present DEF States
  <2>3. Turned(f, t, st, t.next, p + k + 1)
    BY <1>2, <2>1, <2>2, Turns
  <2>4. Placed(f, p + k + 1)
    BY <2>2, <2>3, Present DEF Placed, ToBe, Turned
  <2>5. NodesOK'
    BY <1>3, Present, SameTree
  <2> QED BY <1>2, <1>3, <2>1, <2>2, <2>3, <2>4, <2>5, Further
<1> QED BY <1>3, AfterError DEF Section

LEMMA DeclarationStep == ASSUME XmlInv, Declaration PROVE XmlInv'
<1>1. p \in Nat \ {0} /\ Reading /\ Len(doc) \in Nat
  BY Present
<1>2. CASE Section(Reads(p + 2, CDATA_OPEN), 7, "CDATA")
  <2>1. PICK found \in BOOLEAN : found <=> Reads(p + 2, CDATA_OPEN)
    OBVIOUS
  <2>2. found => p + 7 <= Len(doc)
    <3>1. found => (p + 2) + 6 - 1 <= Len(doc)
      BY <1>1, <2>1, WordsRead
    <3> QED BY <1>1, <3>1
  <2>3. Section(found, 7, "CDATA")
    BY <1>2, <2>1 DEF Section
  <2> QED BY <2>2, <2>3, SectionStep
<1>3. CASE Section(Reads(p + 1, DOCTYPE_OPEN), 7, "DOCTYPE")
  <2>1. PICK found \in BOOLEAN : found <=> Reads(p + 1, DOCTYPE_OPEN)
    OBVIOUS
  <2>2. found => p + 7 <= Len(doc)
    <3>1. found => (p + 1) + 7 - 1 <= Len(doc)
      BY <1>1, <2>1, WordsRead
    <3> QED BY <1>1, <3>1
  <2>3. Section(found, 7, "DOCTYPE")
    BY <1>3, <2>1 DEF Section
  <2> QED BY <2>2, <2>3, SectionStep
<1>4. CASE Section(Reads(p + 1, <<{"-"}, {"-"}>>), 2, "COMMENT")
  <2>1. PICK found \in BOOLEAN : found <=> Reads(p + 1, <<{"-"}, {"-"}>>)
    OBVIOUS
  <2>2. found => p + 2 <= Len(doc)
    <3>1. found => (p + 1) + 2 - 1 <= Len(doc)
      BY <1>1, <2>1, WordsRead
    <3> QED BY <1>1, <3>1
  <2>3. Section(found, 2, "COMMENT")
    BY <1>4, <2>1 DEF Section
  <2> QED BY <2>2, <2>3, SectionStep
<1> QED BY <1>2, <1>3, <1>4 DEF Declaration

\* A mark is set at the present character, and it is left behind or not.
LEMMA MarkStep ==
    ASSUME XmlInv, c # NUL, NEW st \in States \ {"IGNORE_SPACES", "CLOSE", "WAIT_END_RET", "WAIT_END"},
           Set(Mark(st, p)), Continue \/ (Break(0) /\ UNCHANGED tree)
    PROVE  XmlInv'
<1>2. PICK t \in Frame : t = Top /\ Placed(t, p)
  BY Present
<1>3. PICK f : f = Mark(st, p)
  OBVIOUS
<1>4. Turned(f, t, st, t.next, p)
  BY <1>2, <1>3, Present, Turns
<1>5. Placed(f, p) /\ Placed(f, p + 0 + 1)
  BY <1>4, Present DEF Placed, ToBe, Turned
<1>6. CASE Continue
  BY <1>2, <1>3, <1>4, <1>5, <1>6, Again
<1>7. CASE Break(0) /\ UNCHANGED tree
  BY <1>2, <1>3, <1>4, <1>5, <1>7, Present, SameTree, Further
<1> QED BY <1>6, <1>7

\* The spaces are skipped, here or behind the present character.
LEMMA SkipStep ==
    ASSUME XmlInv, c # NUL, NEW nx \in Nexts, Set(Skip(nx)), Continue \/ (Break(0) /\ UNCHANGED tree),
           nx \in {"CLOSE", "WAIT_END_RET"} => Top.parentname # NoName,
           Top.start # 0
    PROVE  XmlInv'
<1>2. PICK t \in Frame : t = Top /\ Placed(t, p)
  BY Present
<1>3. PICK f : f = Skip(nx)
  OBVIOUS
<1>4. Turned(f, t, "IGNORE_SPACES", nx, t.start)
  BY <1>2, <1>3, Turns
<1>5. Placed(f, p) /\ Placed(f, p + 0 + 1)
  BY <1>2, <1>4, Present DEF Placed, ToBe, Turned
<1>6. CASE Continue
  BY <1>2, <1>3, <1>4, <1>5, <1>6, Again
<1>7. CASE Break(0) /\ UNCHANGED tree
  BY <1>2, <1>3, <1>4, <1>5, <1>7, Present, SameTree, Further
<1> QED BY <1>6, <1>7

\* Where something was marked, a text begins.
LEMMA Marked ==
    ASSUME XmlInv, ToBe(Top) \notin {"BEGIN", "BEGIN_NODE"}
    PROVE  start \in Nat \ {0} /\ Top.start # 0 /\ start <= p /\ Slice(start, p) \in Texts
<1>1. start \in Nat \ {0} /\ Top.start # 0 /\ start <= p
  BY Present DEF Placed, start, Frame
<1>2. p \in Nat /\ p <= Len(doc) + 1
  BY Present DEF Reading
<1> QED BY <1>1, <1>2, Present, SliceType

LEMMA HeaderBegins == ASSUME XmlInv, BeginHeader PROVE XmlInv'
<1>1. c # NUL /\ Set(Mark("HEADER", p)) /\ Break(0) /\ UNCHANGED tree
  BY DEF BeginHeader, Case
<1>2. "HEADER" \in States \ {"IGNORE_SPACES", "CLOSE", "WAIT_END_RET", "WAIT_END"}
  BY DEF States
<1> QED BY <1>1, <1>2, MarkStep

LEMMA TagBegins == ASSUME XmlInv, BeginTag PROVE XmlInv'
<1>1. c # NUL /\ Set(Mark("TAG_NAME", p)) /\ Continue
  BY DEF BeginTag, Case
<1>2. "TAG_NAME" \in States \ {"IGNORE_SPACES", "CLOSE", "WAIT_END_RET", "WAIT_END"}
  BY DEF States
<1> QED BY <1>1, <1>2, MarkStep

LEMMA CloseBegins == ASSUME XmlInv, BeginClose PROVE XmlInv'
<1>1. c # NUL
  BY DEF BeginClose, Case
<1>2. PICK t \in Frame : t = Top /\ Placed(t, p)
  BY Present
<1>3. CASE /\ Top.parentname # NoName
           /\ Set([Skip("CLOSE") EXCEPT !.start = p + 1])
           /\ Break(0) /\ UNCHANGED tree
  <2>1. PICK g : g = Skip("CLOSE")
    OBVIOUS
  <2>2. PICK f : f = [g EXCEPT !.start = p + 1]
    OBVIOUS
  <2>3. "CLOSE" \in Nexts /\ p + 1 \in Nat
    BY Present DEF Nexts
  <2>4. Turned(g, t, "IGNORE_SPACES", "CLOSE", t.start)
    BY <1>2, <2>1, <2>3, Turns
  <2>5. Turned(f, t, "IGNORE_SPACES", "CLOSE", p + 1)
    BY <2>2, <2>3, <2>4, Details
  <2>6. Placed(f, p + 0 + 1)
    BY <1>2, <1>3, <2>5, Present DEF Placed, ToBe, Turned
  <2>7. NodesOK'
    BY <1>3, Present, SameTree
  <2> QED BY <1>1, <1>2, <1>3, <2>1, <2>2, <2>5, <2>6, <2>7, Present, Further
<1> QED BY <1>3, AfterError DEF BeginClose

LEMMA TagNameStep == ASSUME XmlInv, TagName PROVE XmlInv'
<1>1. c # NUL /\ Top.state = "TAG_NAME"
  BY DEF TagName, Case
<1>2. PICK t \in Frame : t = Top /\ Placed(t, p)
  BY Present
<1>3. CASE Break(0) /\ UNCHANGED <<frames, tree>>
  BY <1>1, <1>3, ReadsOn
<1>4. CASE Set([Skip("BODY") EXCEPT !.nodename = Slice(start, p), !.attribs = << >>]) /\ Continue
  <2>1. ToBe(Top) \notin {"BEGIN", "BEGIN_NODE"}
    BY <1>1 DEF ToBe
  <2>2. PICK x \in Texts : x = Slice(start, p)
    BY <2>1, Marked
  <2>3. PICK g : g = Skip("BODY")
    OBVIOUS
  <2>4. PICK f : f = [g EXCEPT !.nodename = x, !.attribs = << >>]
    OBVIOUS
  <2>5. "BODY" \in Nexts
    BY DEF Nexts
  <2>6. Turned(g, t, "IGNORE_SPACES", "BODY", t.start)
    BY <1>2, <2>3, <2>5, Turns
  <2>7. Turned(f, t, "IGNORE_SPACES", "BODY", t.start)
    BY <2>2, <2>4, <2>6, Details
  <2>8. Top.start # 0
    BY <2>1, Marked
  <2>9. Placed(f, p)
    BY <1>2, <2>7, <2>8, Present DEF Placed, ToBe, Turned
  <2>10. Set(f)
    BY <1>4, <2>2, <2>3, <2>4
  <2> QED BY <1>2, <1>4, <2>7, <2>9, <2>10, Again
<1> QED BY <1>3, <1>4, AfterError DEF TagName

\* A new element becomes the open one, be it one that waits for its end.
LEMMA BodyStep == ASSUME XmlInv, Body PROVE XmlInv'
<1>1. c # NUL /\ Top.state = "BODY"
  BY DEF Body, Case
<1>2. PICK t \in Frame : t = Top /\ Placed(t, p)
  BY Present
<1>3. CASE Set(Mark("ATTRIB_NAME", p)) /\ Continue
  <2>1. "ATTRIB_NAME" \in States \ {"IGNORE_SPACES", "CLOSE", "WAIT_END_RET", "WAIT_END"}
    BY DEF States
  <2> QED BY <1>1, <1>3, <2>1, MarkStep
<1>4. CASE /\ xml(Top.nodename, Top.attribs)
           /\ Set([Goto(IF c = "/" THEN "WAIT_END" ELSE "CHILDS") EXCEPT !.nsubs = @ + 1])
           /\ Break(0)
  <2>1. PICK st \in {"WAIT_END", "CHILDS"} : st = IF c = "/" THEN "WAIT_END" ELSE "CHILDS"
    OBVIOUS
  <2>2. PICK g : g = Goto(st)
    OBVIOUS
  <2>3. PICK f : f = [g EXCEPT !.nsubs = @ + 1]
    OBVIOUS
  <2>4. st \in States
    BY <2>1 DEF States
  <2>5. Turned(g, t, st, t.next, t.start)
    BY <1>2, <2>2, <2>4, Turns
  <2>6. Turned(f, t, st, t.next, t.start)
    BY <2>3, <2>5, Details
  <2>7. t.start # 0
    BY <1>1, <1>2, Marked DEF ToBe
  <2>8. Placed(f, p + 0 + 1)
    BY <1>2, <2>1, <2>6, <2>7, Present DEF Placed, ToBe, Turned
  <2>9. t.nodename \in Texts /\ t.attribs \in Seq(Attrib) /\ "Element" \in Kinds
    BY DEF Frame, Kinds
  <2>10. nodes' = Append(nodes, Node("Element", t.nodename, t.attribs)) /\ cur' = Len(nodes) + 1
    BY <1>2, <1>4 DEF xml
  <2>11. NodesOK'
    BY <2>9, <2>10, Present, NodeAdded
  <2>12. cur' >= 1
    BY <2>10, Present, LenProperties DEF NodesOK
  <2>13. Set(f) /\ Break(0)
    BY <1>4, <2>1, <2>2, <2>3
  <2> QED BY <1>1, <1>2, <2>6, <2>8, <2>11, <2>12, <2>13, Present, Further
<1> QED BY <1>3, <1>4 DEF Body

LEMMA AttribNameStep == ASSUME XmlInv, AttribName PROVE XmlInv'
<1>1. c # NUL /\ Top.state = "ATTRIB_NAME"
  BY DEF AttribName, Case
<1>2. PICK t \in Frame : t = Top /\ Placed(t, p)
  BY Present
<1>3. CASE Break(0) /\ UNCHANGED <<frames, tree>>
  BY <1>1, <1>3, ReadsOn
<1>4. CASE Set([Skip("EQUALS") EXCEPT !.aname = Slice(start, p)]) /\ Continue
  <2>1. ToBe(Top) \notin {"BEGIN", "BEGIN_NODE"}
    BY <1>1 DEF ToBe
  <2>2. PICK x \in Texts : x = Slice(start, p)
    BY <2>1, Marked
  <2>3. PICK g : g = Skip("EQUALS")
    OBVIOUS
  <2>4. PICK f : f = [g EXCEPT !.aname = x]
    OBVIOUS
  <2>5. "EQUALS" \in Nexts
    BY DEF Nexts
  <2>6. Turned(g, t, "IGNORE_SPACES", "EQUALS", t.start)
    BY <1>2, <2>3, <2>5, Turns
  <2>7. Turned(f, t, "IGNORE_SPACES", "EQUALS", t.start)
    BY <2>2, <2>4, <2>6, Details
  <2>8. Top.start # 0
    BY <2>1, Marked
  <2>9. Placed(f, p)
    BY <1>2, <2>7, <2>8, Present DEF Placed, ToBe, Turned
  <2>10. Set(f)
    BY <1>4, <2>2, <2>3, <2>4
  <2> QED BY <1>2, <1>4, <2>7, <2>9, <2>10, Again
<1> QED BY <1>3, <1>4, AfterError DEF AttribName

LEMMA EqualsStep == ASSUME XmlInv, Equals PROVE XmlInv'
<1>1. c # NUL /\ Top.state = "EQUALS"
  BY DEF Equals, Case
<1>2. CASE Set(Skip("ATTVAL_BEGIN")) /\ Break(0) /\ UNCHANGED tree
  <2>1. Top.start # 0
    BY <1>1, Marked DEF ToBe
  <2>2. "ATTVAL_BEGIN" \in Nexts /\ "ATTVAL_BEGIN" \notin {"CLOSE", "WAIT_END_RET"}
    BY DEF Nexts
  <2> QED BY <1>1, <1>2, <2>1, <2>2, SkipStep
<1> QED BY <1>2, AfterError DEF Equals

LEMMA AttvalBeginStep == ASSUME XmlInv, AttvalBegin PROVE XmlInv'
<1>1. c # NUL
  BY DEF AttvalBegin, Case
<1>2. CASE Set(Mark("ATTRIB_VAL", p)) /\ Break(0) /\ UNCHANGED tree
  <2>1. "ATTRIB_VAL" \in States \ {"IGNORE_SPACES", "CLOSE", "WAIT_END_RET", "WAIT_END"}
    BY DEF States
  <2> QED BY <1>1, <1>2, <2>1, MarkStep
<1> QED BY <1>2, AfterError DEF AttvalBegin

LEMMA AttribValStep == ASSUME XmlInv, AttribVal PROVE XmlInv'
<1>1. c # NUL /\ Top.state = "ATTRIB_VAL" /\ Break(0) /\ UNCHANGED tree
  BY DEF AttribVal, Case
<1>2. PICK t \in Frame : t = Top /\ Placed(t, p)
  BY Present
<1>3. CASE UNCHANGED frames
  BY <1>1, <1>3, ReadsOn
<1>4. CASE Set([Skip("BODY") EXCEPT
                    !.attribs = Append(@, [name |-> Top.aname, value |-> Slice(start + 1, p)])])
  <2>1. start \in Nat \ {0} /\ t.start # 0
    BY <1>1, <1>2, Marked DEF ToBe
  <2>2. p \in Nat /\ p <= Len(doc) + 1 /\ start + 1 \in Nat \ {0}
    BY <2>1, Present DEF Reading
  <2>3. Slice(start + 1, p) \in Texts /\ t.aname \in Texts
    BY <2>1, <2>2, Present, SliceType DEF Frame
  <2>4. PICK a \in Attrib : a = [name |-> t.aname, value |-> Slice(start + 1, p)]
    BY <2>3 DEF Attrib
  <2>5. PICK g : g = Skip("BODY")
    OBVIOUS
  <2>6. PICK f : f = [g EXCEPT !.attribs = Append(@, a)]
    OBVIOUS
  <2>7. "BODY" \in Nexts
    BY DEF Nexts
  <2>8. Turned(g, t, "IGNORE_SPACES", "BODY", t.start)
    BY <1>2, <2>5, <2>7, Turns
  <2>9. Turned(f, t, "IGNORE_SPACES", "BODY", t.start)
    BY <2>4, <2>6, <2>8, Details
  <2>10. Placed(f, p + 0 + 1)
    BY <1>2, <2>1, <2>9, Present DEF Placed, ToBe, Turned
  <2>11. Set(f)
    BY <1>2, <1>4, <2>4, <2>5, <2>6
  <2>12. NodesOK'
    BY <1>1, Present, SameTree
  <2> QED BY <1>1, <1>2, <2>9, <2>10, <2>11, <2>12, Present, Further
<1> QED BY <1>3, <1>4 DEF AttribVal

\* An element without content is closed, and its parent is open again.
LEMMA WaitEndStep == ASSUME XmlInv, WaitEnd PROVE XmlInv'
<1>1. c # NUL /\ Top.state = "WAIT_END"
  BY DEF WaitEnd, Case
<1>2. PICK t \in Frame : t = Top /\ Placed(t, p)
  BY Present
<1>3. CASE done /\ Set(Goto("BEGIN")) /\ Break(0)
  <2>1. cur \in 1..Len(nodes) /\ Len(nodes) \in Nat
    BY <1>1, Present, LenProperties DEF XmlInv, WaitOK, NodesOK
  <2>2. cur' = nodes[cur].parent /\ nodes' = nodes
    BY <1>3 DEF done
  <2>3. nodes[cur].parent \in 0..(cur - 1)
    BY <2>1, Present DEF NodesOK
  <2>4. cur' \in 0..Len(nodes)
    BY <2>1, <2>2, <2>3
  <2>5. NodesOK'
    BY <2>2, <2>4, Present DEF NodesOK
  <2>6. PICK f : f = Goto("BEGIN")
    OBVIOUS
  <2>7. "BEGIN" \in States
    BY DEF States, Nexts
  <2>8. Turned(f, t, "BEGIN", t.next, t.start)
    BY <1>2, <2>6, <2>7, Turns
  <2>9. Placed(f, p + 0 + 1)
    BY <1>2, <2>8, Present DEF Placed, ToBe, Turned
  <2> QED BY <1>1, <1>2, <1>3, <2>5, <2>6, <2>8, <2>9, Present, Further
<1> QED BY <1>3, AfterError DEF WaitEnd

LEMMA CloseStep == ASSUME XmlInv, Close PROVE XmlInv'
<1>1. c # NUL /\ Top.state = "CLOSE"
  BY DEF Close, Case
<1>2. CASE Break(0) /\ UNCHANGED <<frames, tree>>
  BY <1>1, <1>2, ReadsOn
<1>3. CASE Set(Skip("WAIT_END_RET")) /\ Continue
  <2>1. Top.start # 0
    BY <1>1, Marked DEF ToBe
  <2>2. Top.parentname # NoName
    BY <1>1, Present DEF Placed, ToBe
  <2>3. "WAIT_END_RET" \in Nexts
    BY DEF Nexts
  <2> QED BY <1>1, <1>3, <2>1, <2>2, <2>3, SkipStep
<1>4. CASE ERROR
  BY <1>4, AfterError
<1> QED BY <1>2, <1>3, <1>4 DEF Close

LEMMA DoctypeStep == ASSUME XmlInv, Doctype PROVE XmlInv'
<1>1. c # NUL /\ Top.state = "DOCTYPE" /\ Break(0)
  BY DEF Doctype, Case
<1>2. PICK t \in Frame : t = Top /\ Placed(t, p)
  BY Present
<1>3. t.start # 0 /\ start \in Nat \ {0} /\ Slice(start, p) \in Texts
  BY <1>1, <1>2, Marked DEF ToBe
<1>4. "DOCTYPE" \in States /\ "BEGIN" \in States
  BY DEF States, Nexts
<1>5. CASE UNCHANGED <<frames, tree>>
  BY <1>1, <1>5, ReadsOn
<1>6. CASE /\ Set([Top EXCEPT !.nbrackets = @ + 1]) \/ Set([Top EXCEPT !.nbrackets = @ - 1])
           /\ UNCHANGED tree
  <2>1. PICK f : Set(f) /\ f \in {[t EXCEPT !.nbrackets = @ + 1], [t EXCEPT !.nbrackets = @ - 1]}
    BY <1>2, <1>6
  <2>2. Turned(t, t, "DOCTYPE", t.next, t.start)
    BY <1>1, <1>2 DEF Turned
  <2>3. Turned(f, t, "DOCTYPE", t.next, t.start)
    <3>1. CASE f = [t EXCEPT !.nbrackets = @ + 1]
      BY <2>2, <3>1, Details
    <3>2. CASE f = [t EXCEPT !.nbrackets = @ - 1]
      BY <2>2, <3>2, Details
    <3> QED BY <2>1, <3>1, <3>2
  <2>4. Placed(f, p + 0 + 1)
    BY <1>2, <1>3, <2>3, Present DEF Placed, ToBe, Turned
  <2>5. NodesOK'
    BY <1>6, Present, SameTree
  <2> QED BY <1>1, <1>2, <2>1, <2>3, <2>4, <2>5, Present, Further
<1>7. CASE doctype(Slice(start, p)) /\ Set(Goto("BEGIN"))
  <2>1. PICK f : f = Goto("BEGIN")
    OBVIOUS
  <2>2. Turned(f, t, "BEGIN", t.next, t.start)
    BY <1>2, <1>4, <2>1, Turns
  <2>3. Placed(f, p + 0 + 1)
    BY <1>2, <2>2, Present DEF Placed, ToBe, Turned
  <2>4. PICK x \in Texts : x = Slice(start, p)
    BY <1>3
  <2>5. SubSeq(x, 2, Len(x)) \in Texts
    <3>1. Len(x) \in Int /\ Len(x) <= Len(x)
      BY TextFacts
    <3> QED BY <3>1, PartOfSeq DEF Texts
  <2>6. Add("DocType", SubSeq(x, 2, Len(x)))
    BY <1>7, <2>4 DEF doctype
  <2>7. NodesOK'
    BY <2>5, <2>6, Present, TextAdded DEF Kinds
  <2> QED BY <1>1, <1>2, <1>7, <2>1, <2>2, <2>3, <2>7, Present, Further
<1> QED BY <1>5, <1>6, <1>7 DEF Doctype

\* Behind the last character, what is left is a text, or the document is rejected.
LEMMA EndStep == ASSUME XmlInv, End PROVE XmlInv'
<1> DEFINE from == IF Top.state = "BEGIN" THEN p ELSE start
<1>1. CASE /\ Top.state \in {"BEGIN", "PCDATA"}
           /\ IF p # from \/ Top.nsubs = 0 THEN pcdata(Slice(from, p)) ELSE UNCHANGED tree
           /\ result' = "parsed"
           /\ UNCHANGED <<inputs, p, line, frames, endtags>>
  <2>1. from \in Nat \ {0}
    BY <1>1, Present, Marked DEF ToBe
  <2> HIDE DEF from
  <2>2. p \in Nat /\ p <= Len(doc) + 1
    BY Present DEF Reading
  <2>3. Slice(from, p) \in Texts
    BY <2>1, <2>2, Present, SliceType
  <2>4. CASE pcdata(Slice(from, p))
    <3>1. NodesOK' /\ cur' = cur
      BY <2>3, <2>4, Present, TextAdded DEF pcdata, Kinds
    <3>2. Reading' /\ p' = p /\ p' >= p
      BY <1>1, <2>2, Present, ContinueReads
    <3> QED BY <1>1, <3>1, <3>2, Onward
  <2>5. CASE UNCHANGED tree
    <3>1. NodesOK' /\ cur' = cur
      BY <2>5, Present, SameTree
    <3>2. Reading' /\ p' = p /\ p' >= p
      BY <1>1, <2>2, Present, ContinueReads
    <3> QED BY <1>1, <3>1, <3>2, Onward
  <2> QED BY <1>1, <2>4, <2>5
<1> QED BY <1>1, AfterError DEF End

\* A call for the children of an element.
LEMMA ChildsStep == ASSUME XmlInv, Childs PROVE XmlInv'
<1>1. Top.state = "CHILDS" /\ frames' = Append(frames, do_parse_xml(Top.nodename)) /\ Continue
  BY DEF Childs, Case
<1>2. UNCHANGED <<inputs, p, line>> /\ UNCHANGED tree /\ result' = result /\ endtags' = endtags
  BY <1>1 DEF Continue
<1>3. Reading' /\ p' = p /\ NodesOK' /\ cur' = cur
  BY <1>2, Present, ContinueReads, SameTree
<1>4. PICK t \in Frame : t = Top
  BY Present
<1>5. PICK f : f = do_parse_xml(t.nodename)
  OBVIOUS
<1>6. f \in Frame /\ f.state = "BEGIN" /\ f.start = 0
  <2>1. << >> \in Seq(Attrib) /\ NoName \in Texts /\ t.nodename \in Texts
    BY TextFacts DEF Frame
  <2>2. "BEGIN" \in States /\ "BEGIN" \in Nexts
    BY DEF States, Nexts
  <2> QED BY <1>5, <2>1, <2>2 DEF do_parse_xml, Frame
<1>7. Placed(f, p)
  BY <1>6, Present DEF Placed, ToBe
<1> DEFINE n == Len(frames)
<1>8. n \in Nat /\ n >= 1 /\ frames \in Seq(Frame)
  BY Present, LenProperties DEF FramesOK
<1>9. frames' = Append(frames, f)
  BY <1>1, <1>4, <1>5
<1>10. /\ frames' \in Seq(Frame) /\ Len(frames') = n + 1
       /\ \A k \in 1..n : frames'[k] = frames[k]
       /\ frames'[n + 1] = f
  BY <1>6, <1>8, <1>9, AppendProperties
<1>11. \A k \in 1..(n + 1) : Placed(frames'[k], p)
  <2>1. ASSUME NEW k \in 1..(n + 1) PROVE Placed(frames'[k], p)
    <3>1. CASE k = n + 1
      BY <1>7, <1>10, <3>1
    <3>2. CASE k # n + 1
      <4>1. k \in 1..n
        BY <1>8, <3>2
      <4>2. Placed(frames[k], p)
        BY <4>1, Present DEF FramesOK
      <4> QED BY <1>10, <4>1, <4>2
    <3> QED BY <3>1, <3>2
  <2> QED BY <2>1
<1>12. \A k \in 1..Len(frames') : Placed(frames'[k], p')
  BY <1>3, <1>10, <1>11
<1>13. frames'[1].parentname = NoName
  BY <1>8, <1>10, Present DEF FramesOK
<1>14. FramesOK'
  BY <1>8, <1>10, <1>12, <1>13 DEF FramesOK
<1>15. WaitOK'
  BY <1>6, <1>10 DEF WaitOK, Top
<1> QED BY <1>2, <1>3, <1>14, <1>15 DEF XmlInv

\* A call returns, and its caller goes on behind the end tag.
LEMMA WaitEndRetStep == ASSUME XmlInv, WaitEndRet PROVE XmlInv'
<1>1. c # NUL /\ Top.state = "WAIT_END_RET"
  BY DEF WaitEndRet, Case
<1> DEFINE n == Len(frames)
           caller == frames[n - 1]
<1>2. CASE /\ IF Top.nsubs = 0 THEN pcdata(<< >>) ELSE UNCHANGED tree
           /\ frames' = Append(SubSeq(frames, 1, n - 2), [caller EXCEPT !.state = "BEGIN", !.start = p])
           /\ p' = p + 1
           /\ line' = IF Peek(1) = Newline THEN line + 1 ELSE line
           /\ endtags' = endtags + 1
           /\ UNCHANGED <<inputs, result>>
  <2>1. n \in Nat /\ n >= 2 /\ frames \in Seq(Frame)
    <3>1. Top.parentname # NoName
      BY <1>1, Present DEF Placed, ToBe
    <3>2. n \in Nat /\ n >= 1 /\ frames \in Seq(Frame) /\ frames[1].parentname = NoName
      BY Present, LenProperties DEF FramesOK
    <3> QED BY <3>1, <3>2 DEF Top
  <2>2. caller \in Frame /\ Placed(caller, p)
    <3>1. n - 1 \in 1..n
      BY <2>1
    <3> QED BY <2>1, <3>1, Present, ElementOfSeq DEF FramesOK
  <2>3. PICK h : h = [caller EXCEPT !.state = "BEGIN", !.start = p]
    OBVIOUS
  <2>4. h \in Frame /\ h.state = "BEGIN" /\ h.start = p /\ h.parentname = caller.parentname
    <3>1. "BEGIN" \in States
      BY DEF States, Nexts
    <3> QED BY <2>2, <2>3, <3>1, Present DEF Frame
  <2>5. Placed(h, p + 1)
    BY <2>4, Present DEF Placed, ToBe
  <2>6. PICK low : low = SubSeq(frames, 1, n - 2)
    OBVIOUS
  <2>7. low \in Seq(Frame) /\ Len(low) = n - 2 /\ \A k \in 1..(n - 2) : low[k] = frames[k]
    <3>1. n - 2 \in Nat /\ n - 2 <= Len(frames)
      BY <2>1
    <3>2. low \in Seq(Frame)
      BY <2>1, <2>6, <3>1, PartOfSeq
    <3>3. \A k \in 1..(n - 2) : frames[k] \in Frame
      BY <2>1, ElementOfSeq
    <3>4. PICK m \in Nat : m = n - 2
      BY <3>1
    <3>5. /\ Len(SubSeq(frames, 1, m)) = m
          /\ \A k \in 1..m : SubSeq(frames, 1, m)[k] = frames[k]
      BY <2>1, <3>3, <3>4
    <3> QED BY <2>6, <3>2, <3>4, <3>5
  <2>8. frames' = Append(low, h)
    BY <1>2, <2>3, <2>6
  <2>9. /\ frames' \in Seq(Frame) /\ Len(frames') = n - 1
        /\ \A k \in 1..(n - 2) : frames'[k] = frames[k]
        /\ frames'[n - 1] = h
    <3>1. /\ Append(low, h) \in Seq(Frame) /\ Len(Append(low, h)) = Len(low) + 1
          /\ \A k \in 1..Len(low) : Append(low, h)[k] = low[k]
          /\ Append(low, h)[Len(low) + 1] = h
      BY <2>4, <2>7, AppendProperties
    <3>2. Len(low) + 1 = n - 1 /\ 1..Len(low) = 1..(n - 2)
      BY <2>1, <2>7
    <3> QED BY <2>7, <2>8, <3>1, <3>2
  <2>10. \A k \in 1..(n - 1) : Placed(frames'[k], p + 1)
    <3>1. ASSUME NEW k \in 1..(n - 1) PROVE Placed(frames'[k], p + 1)
      <4>1. CASE k = n - 1
        BY <2>5, <2>9, <4>1
      <4>2. CASE k # n - 1
        <5>1. k \in 1..(n - 2) /\ k \in 1..n
          BY <2>1, <4>2
        <5>2. Placed(frames[k], p) /\ frames'[k] = frames[k]
          BY <2>9, <5>1, Present DEF FramesOK
        <5> QED BY <5>2, Present DEF Placed
      <4> QED BY <4>1, <4>2
    <3> QED BY <3>1
  <2>11. frames'[1].parentname = NoName
    <3>1. CASE n = 2
      BY <2>4, <2>9, <3>1, Present DEF FramesOK
    <3>2. CASE n > 2
      <4>1. 1 \in 1..(n - 2)
        BY <2>1, <3>2
      <4> QED BY <2>9, <4>1, Present DEF FramesOK
    <3>3. n = 2 \/ n > 2
      <4>1. \A m \in Nat : m >= 2 => m = 2 \/ m > 2
        OBVIOUS
      <4> QED BY <2>1, <4>1, Zenon
    <3> QED BY <3>1, <3>2, <3>3, Zenon
  <2>12. p' = p + 1
    BY <1>2
  <2>13. FramesOK'
    <3>1. \A k \in 1..Len(frames') : Placed(frames'[k], p')
      BY <2>9, <2>10, <2>12
    <3>2. Len(frames') >= 1 /\ frames' \in Seq(Frame)
      BY <2>1, <2>9
    <3> QED BY <2>11, <3>1, <3>2 DEF FramesOK
  <2>14. WaitOK'
    BY <2>4, <2>9 DEF WaitOK, Top
  <2>15. NodesOK'
    <3>1. CASE pcdata(<< >>)
      BY <3>1, Present, TextAdded, TextFacts DEF pcdata, Kinds
    <3>2. CASE UNCHANGED tree
      BY <3>2, Present, SameTree
    <3> QED BY <1>2, <3>1, <3>2
  <2>16. Reading'
    <3>1. doc' = doc /\ line' \in {line, line + 1} /\ p <= Len(doc)
      BY <1>1, <1>2, Present DEF inputs
    <3> QED BY <2>12, <3>1, Present DEF Reading
  <2>17. result' = result /\ endtags' = endtags + 1
    BY <1>2
  <2> QED BY <2>13, <2>14, <2>15, <2>16, <2>17 DEF XmlInv
<1> QED BY <1>2, AfterError DEF WaitEndRet

-----------------------------------------------------------------------------
(* The document is a sequence of characters, so the parser starts right. *)

\* What holds at 0 and passes on to the next number holds up to n.
LEMMA CountsUp ==
    ASSUME NEW n \in Nat, NEW P, 0 \in P, \A k \in 0..(n - 1) : k \in P => k + 1 \in P
    PROVE  \A k \in 0..n : k \in P
<1> DEFINE Missing == {k \in 0..n : k \notin P}
           R == OpToRel(<, Nat)
<1>1. SUFFICES ASSUME Missing # {} PROVE FALSE
  BY <1>1
<1>2. IsWellFoundedOn(R, Nat)
  BY NatLessThanWellFounded
<1>3. \A x, y \in Nat : y < x => <<y, x>> \in R
  BY DEF OpToRel
<1>4. Missing \subseteq Nat
  OBVIOUS
<1> HIDE DEF R
<1>5. PICK k \in Missing : \A x \in Missing : ~(<<x, k>> \in R)
  <2> HIDE DEF Missing
  <2> QED BY <1>1, <1>2, <1>4, WFMin
<1>6. k - 1 \in 0..(n - 1)
  BY <1>5
<1>7. k - 1 \notin Missing
  <2>1. k \in Nat /\ k - 1 \in Nat /\ k - 1 < k
    BY <1>4, <1>5, <1>6
  <2>2. <<k - 1, k>> \in R
    BY <1>3, <2>1
  <2> QED BY <1>5, <2>2
<1>8. k - 1 \in P
  BY <1>6, <1>7
<1>9. (k - 1) + 1 \in P
  BY <1>6, <1>8
<1> QED BY <1>5, <1>9

\* The sequences of a sequence, one behind the other: j[k] is the first k.
Joins(j, seqs, S) ==
    /\ j[0] = << >> /\ \A k \in 1..Len(seqs) : j[k] = j[k - 1] \o seqs[k]
    /\ \A k \in 0..Len(seqs) : j[k] \in Seq(S)

LEMMA Flattened ==
    ASSUME NEW S, NEW seqs \in Seq(Seq(S))
    PROVE  \E j : Joins(j, seqs, S) /\ FlattenSeq(seqs) = j[Len(seqs)]
<1> DEFINE n == Len(seqs)
           All(f) == f = [i \in 1..n |-> IF i = 1 THEN seqs[i] ELSE f[i - 1] \o seqs[i]]
           flatten == CHOOSE f : All(f)
<1>1. n \in Nat
  BY LenProperties
<1>2. \A k \in 1..n : seqs[k] \in Seq(S)
  BY ElementOfSeq
<1>3. FlattenSeq(seqs) = IF n = 0 THEN seqs ELSE flatten[n]
  BY DEF FlattenSeq
<1>4. n = 0 => seqs = << >>
  BY EmptySeq
<1> HIDE DEF n
<1> DEFINE Makes(f, m) == f = [i \in 1..m |-> IF i = 1 THEN seqs[i] ELSE f[i - 1] \o seqs[i]]
<1>5. \A a, b \in Seq(S) : a \o b \in Seq(S)
  BY ConcatProperties
<1>6. \E f : Makes(f, n)
  <2> DEFINE P == {k \in 0..n : \E f \in [1..k -> Seq(S)] : Makes(f, k)}
  <2>1. 0 \in P
    <3>1. [i \in 1..0 |-> << >>] \in [1..0 -> Seq(S)] /\ Makes([i \in 1..0 |-> << >>], 0)
      OBVIOUS
    <3>2. 0 \in 0..n
      BY <1>1
    <3> HIDE DEF Makes
    <3> QED BY <3>1, <3>2
  <2>2. ASSUME NEW k \in 0..(n - 1), k \in P PROVE k + 1 \in P
    <3>1. PICK g \in [1..k -> Seq(S)] : Makes(g, k)
      BY <2>2
    <3>2. \A i \in 1..k : g[i] = IF i = 1 THEN seqs[i] ELSE g[i - 1] \o seqs[i]
      BY <3>1
    <3> DEFINE last == IF k = 0 THEN seqs[1] ELSE g[k] \o seqs[k + 1]
               f == [i \in 1..(k + 1) |-> IF i = k + 1 THEN last ELSE g[i]]
    <3>3. last \in Seq(S)
      <4>1. CASE k = 0
        BY <1>1, <1>2, <2>2, <4>1
      <4>2. CASE k # 0
        <5>1. k \in 1..k /\ k + 1 \in 1..n
          BY <1>1, <2>2, <4>2
        <5>2. g[k] \in Seq(S) /\ seqs[k + 1] \in Seq(S)
          BY <1>2, <5>1
        <5> QED BY <1>5, <4>2, <5>2
      <4> QED BY <4>1, <4>2
    <3>4. f \in [1..(k + 1) -> Seq(S)]
      <4> HIDE DEF last
      <4> QED BY <2>2, <3>3
    <3>5. ASSUME NEW i \in 1..(k + 1)
          PROVE  f[i] = IF i = 1 THEN seqs[i] ELSE f[i - 1] \o seqs[i]
      <4>1. CASE i = k + 1
        <5>1. CASE k = 0
          BY <4>1, <5>1
        <5>2. CASE k # 0
          <6>1. i # 1 /\ i - 1 = k /\ k \in 1..(k + 1) /\ k # k + 1
            BY <2>2, <4>1, <5>2
          <6>2. f[k] = g[k]
            BY <6>1
          <6>3. f[i] = last /\ last = g[k] \o seqs[i]
            BY <4>1, <5>2
          <6> QED BY <6>1, <6>2, <6>3
        <5> QED BY <5>1, <5>2
      <4>2. CASE i # k + 1
        <5>1. i \in 1..k /\ f[i] = g[i]
          BY <2>2, <4>2
        <5>2. CASE i = 1
          BY <3>2, <5>1, <5>2
        <5>3. CASE i # 1
          <6>1. i - 1 \in 1..(k + 1) /\ i - 1 # k + 1
            BY <2>2, <5>1, <5>3
          <6>2. f[i - 1] = g[i - 1]
            BY <6>1
          <6> QED BY <3>2, <5>1, <5>3, <6>2
        <5> QED BY <5>2, <5>3
      <4> QED BY <4>1, <4>2
    <3> HIDE DEF f
    <3>6. Makes(f, k + 1)
      <4>1. f = [i \in 1..(k + 1) |-> f[i]]
        BY <3>4
      <4> QED BY <3>5, <4>1
    <3>7. k + 1 \in 0..n
      BY <1>1, <2>2
    <3> HIDE DEF Makes
    <3> QED BY <3>4, <3>6, <3>7
  <2>3. n \in P
    <3>1. n \in 0..n
      BY <1>1
    <3> HIDE DEF P
    <3>2. \A k \in 0..n : k \in P
      BY <1>1, <2>1, <2>2, CountsUp
    <3> QED BY <3>1, <3>2
  <2> QED BY <2>3
<1>7. All(flatten)
  <2>1. \E f : All(f)
    BY <1>6
  <2> HIDE DEF All
  <2> QED BY <2>1
<1> HIDE DEF flatten
<1>8. \A i \in 1..n : flatten[i] = IF i = 1 THEN seqs[i] ELSE flatten[i - 1] \o seqs[i]
  BY <1>7
<1> DEFINE Q == {k \in 0..n : k = 0 \/ flatten[k] \in Seq(S)}
<1>9. ASSUME NEW k \in 0..(n - 1), k \in Q PROVE k + 1 \in Q
  <2>1. k + 1 \in 1..n /\ k + 1 \in 0..n /\ (k + 1) - 1 = k /\ seqs[k + 1] \in Seq(S)
    BY <1>1, <1>2, <1>9
  <2>2. CASE k = 0
    BY <1>8, <2>1, <2>2
  <2>3. CASE k # 0
    <3>1. flatten[k] \in Seq(S) /\ k + 1 # 1
      BY <1>9, <2>3
    <3>2. flatten[k + 1] = flatten[k] \o seqs[k + 1]
      BY <1>8, <2>1, <3>1
    <3>3. flatten[k] \o seqs[k + 1] \in Seq(S)
      BY <1>5, <2>1, <3>1
    <3> QED BY <2>1, <3>2, <3>3
  <2> QED BY <2>2, <2>3
<1>10. n \in Q
  <2>1. 0 \in Q /\ n \in 0..n
    BY <1>1
  <2> HIDE DEF Q
  <2>2. \A k \in 0..n : k \in Q
    BY <1>1, <1>9, <2>1, CountsUp
  <2> QED BY <2>1, <2>2
<1>11. << >> \in Seq(S) /\ \A a \in Seq(S) : << >> \o a = a
  OBVIOUS
<1> DEFINE j == [k \in 0..n |-> IF k = 0 THEN << >> ELSE flatten[k]]
<1>12. j[0] = << >> /\ (n = 0 => j[n] = << >>) /\ (n # 0 => j[n] = flatten[n])
  BY <1>1
<1>13. ASSUME NEW k \in 0..n PROVE j[k] \in Seq(S)
  <2>1. k \in Q
    <3>1. 0 \in Q
      BY <1>1
    <3> HIDE DEF Q
    <3> QED BY <1>1, <1>9, <3>1, CountsUp
  <2> QED BY <1>11, <2>1
<1>14. ASSUME NEW k \in 1..n PROVE j[k] = j[k - 1] \o seqs[k]
  <2>1. k - 1 \in 0..n /\ k \in 0..n /\ j[k] = flatten[k]
    BY <1>1
  <2>2. CASE k = 1
    <3>1. j[k - 1] = << >> /\ seqs[k] \in Seq(S) /\ flatten[k] = seqs[k]
      BY <1>2, <1>8, <1>12, <2>2
    <3> QED BY <1>11, <2>1, <3>1
  <2>3. CASE k # 1
    <3>1. k - 1 # 0
      BY <1>1, <2>3
    <3>2. j[k - 1] = flatten[k - 1]
      BY <2>1, <3>1
    <3>3. flatten[k] = flatten[k - 1] \o seqs[k]
      BY <1>8, <2>3
    <3> QED BY <2>1, <3>2, <3>3
  <2> QED BY <2>2, <2>3
<1>15. FlattenSeq(seqs) = j[n]
  BY <1>3, <1>4, <1>12
<1> HIDE DEF j
<1>16. Joins(j, seqs, S)
  BY <1>12, <1>13, <1>14 DEF Joins, n
<1> QED BY <1>15, <1>16 DEF n

LEMMA XmlInvInit == XmlInit => XmlInv
<1> SUFFICES ASSUME XmlInit PROVE XmlInv
  OBVIOUS
<1>1. tokens \in Seq(Token) /\ \A t \in Token : t.chars \in Texts
  BY NativeXmlAssumption DEF XmlInit, Texts
<1>2. PICK seqs : seqs = [k \in DOMAIN tokens |-> tokens[k].chars]
  OBVIOUS
<1>3. seqs \in Seq(Texts)
  <2>1. PICK n \in Nat : n = Len(tokens) /\ DOMAIN tokens = 1..n
    BY <1>1, LenProperties
  <2>2. \A k \in 1..n : tokens[k] \in Token
    BY <1>1, <2>1, ElementOfSeq
  <2>3. seqs \in [1..n -> Texts]
    BY <1>1, <1>2, <2>1, <2>2
  <2> QED BY <2>3, SeqDef
<1>4. doc \in Texts
  <2>1. doc = FlattenSeq(seqs)
    BY <1>2 DEF XmlInit
  <2>2. PICK j : Joins(j, seqs, Character) /\ FlattenSeq(seqs) = j[Len(seqs)]
    BY <1>3, Flattened DEF Texts
  <2>3. Len(seqs) \in 0..Len(seqs)
    BY <1>3, LenProperties
  <2> QED BY <2>1, <2>2, <2>3 DEF Joins, Texts
<1>5. Reading
  <2>1. Len(doc) \in Nat
    BY <1>4, TextFacts
  <2>2. IsPrefix(BOM, doc) => 3 <= Len(doc)
    BY DEF IsPrefix, BOM
  <2>3. p = (IF IsPrefix(BOM, doc) THEN 4 ELSE 1) /\ line = 0
    BY DEF XmlInit
  <2> QED BY <1>4, <2>1, <2>2, <2>3 DEF Reading
<1>6. PICK f : f = do_parse_xml(NoName)
  OBVIOUS
<1>7. f \in Frame /\ f.state = "BEGIN" /\ f.start = 0 /\ f.parentname = NoName
  <2>1. << >> \in Seq(Attrib) /\ NoName \in Texts
    BY TextFacts
  <2>2. "BEGIN" \in States /\ "BEGIN" \in Nexts
    BY DEF States, Nexts
  <2> QED BY <1>6, <2>1, <2>2 DEF do_parse_xml, Frame
<1>8. frames = <<f>>
  BY <1>6 DEF XmlInit
<1>9. frames \in Seq(Frame) /\ Len(frames) = 1 /\ frames[1] = f
  BY <1>7, <1>8
<1>10. Placed(f, p)
  BY <1>5, <1>7, TextFacts DEF Placed, ToBe, Reading
<1>11. FramesOK
  BY <1>7, <1>9, <1>10 DEF FramesOK
<1>12. NodesOK
  <2>1. nodes = << >> /\ cur = 0
    BY DEF XmlInit
  <2>2. << >> \in Seq(XmlNode) /\ Len(<< >>) = 0
    OBVIOUS
  <2> QED BY <2>1, <2>2 DEF NodesOK
<1>13. WaitOK
  BY <1>7, <1>9 DEF WaitOK, Top
<1> QED BY <1>5, <1>11, <1>12, <1>13 DEF XmlInv, XmlInit

LEMMA XmlInvStep == XmlInv /\ [XmlNext]_xmlvars => XmlInv'
<1>1. CASE XmlInv /\ XmlNext
  BY <1>1, IgnoreSpacesStep, BeginStep, PcdataStep, CdataStep, DeclarationStep, HeaderBegins,
     CloseBegins, TagBegins, TagNameStep, BodyStep, AttribNameStep, EqualsStep, AttvalBeginStep,
     AttribValStep, ChildsStep, WaitEndStep, CloseStep, WaitEndRetStep, CommentStep, DoctypeStep,
     HeaderStep, EndStep, Zenon DEF XmlNext
<1>2. CASE XmlInv /\ UNCHANGED xmlvars
  <2>1. UNCHANGED <<inputs, p, line, frames>> /\ UNCHANGED tree /\ result' = result /\
         endtags' = endtags
    BY <1>2 DEF xmlvars
  <2>2. Reading' /\ p' = p /\ NodesOK' /\ cur' = cur
    BY <1>2, <2>1, Present, ContinueReads, SameTree
  <2>3. p' >= p /\ result' \in {"parsing", "parsed", "error"}
    BY <1>2, <2>1, <2>2, Present DEF XmlInv
  <2> QED BY <1>2, <2>1, <2>2, <2>3, Onward
<1> QED BY <1>1, <1>2

LEMMA XmlInvAlways == XmlSpec => []XmlInv
<1> QED BY XmlInvInit, XmlInvStep, PTL DEF XmlSpec

(***************************************************************************)
(* NativeXmlImport.cpp, do_parse_xml: whatever the document, the position  *)
(* stays between its first character and the zero behind the last; what a  *)
(* call has marked lies before the present character, and a node of the    *)
(* tree hangs below an earlier one.                                        *)
(***************************************************************************)
THEOREM ReadsInBounds == XmlSpec => []XmlTypeOK
<1>1. XmlInv => XmlTypeOK
  <2> SUFFICES ASSUME XmlInv PROVE XmlTypeOK
    OBVIOUS
  <2>1. p \in 1..Len(doc) + 1 /\ line \in 0..Len(doc)
    BY Present DEF Reading
  <2>2. Len(frames) >= 1 /\ \A k \in DOMAIN frames : frames[k].start \in 0..p
    BY Present, LenProperties DEF FramesOK, Placed
  <2>3. cur \in 0..Len(nodes) /\ \A k \in DOMAIN nodes : nodes[k].parent \in 0..k - 1
    BY Present, LenProperties DEF NodesOK
  <2> QED BY <2>1, <2>2, <2>3 DEF XmlTypeOK, XmlInv
<1> QED BY <1>1, XmlInvAlways, PTL
-----------------------------------------------------------------------------
(* NativeXml: where the parser is in the document *)

\* The tokens ts, one behind the other, are d; the k-th ends at off[k].
Cut(ts, d, off) ==
    /\ off \in [0 .. Len(ts) -> Nat] /\ off[0] = 0 /\ off[Len(ts)] = Len(d)
    /\ \A k \in 1 .. Len(ts) :
           /\ off[k] = off[k - 1] + Len(ts[k].chars)
           /\ \A j \in 1 .. Len(ts[k].chars) : d[off[k - 1] + j] = ts[k].chars[j]

\* A call per open element, with its name and the number of its children.
Calls(fr, open) ==
    /\ Len(fr) = Len(open)
    /\ \A i \in 1 .. Len(open) :
           /\ fr[i].parentname = open[i].name /\ fr[i].nsubs = open[i].subs
           /\ i < Len(open) => fr[i].nbrackets = 0

\* The nodes of the tree are those of a; up to the first end tag they hang as in a.
Alike(ns, cu, a, exact) ==
    /\ Len(ns) = Len(a.nodes)
    /\ \A j \in 1 .. Len(ns) :
           /\ ns[j].type = a.nodes[j].type /\ ns[j].value = a.nodes[j].value
           /\ ns[j].attribs = a.nodes[j].attribs
           /\ exact => ns[j].parent = a.nodes[j].parent
    /\ exact => cu = TheOpen(a).node

LastOf(fr) == fr[Len(fr)]

\* In front of the character at, of whose token nothing is read, no text is under way.
Between(a, o, at, fr, ns, cu, exact) ==
    LET f == LastOf(fr)
    IN  /\ at = o + 1 /\ a.text = << >> /\ f.nbrackets = 0
        /\ \/ f.state = "BEGIN" /\ Calls(fr, a.open)
           \/ f.state = "CHILDS" /\ Calls(Append(fr, do_parse_xml(f.nodename)), a.open)
        /\ Alike(ns, cu, a, exact)

\* In a text, of which a has what is read up to o; more tells that it goes on behind it.
InText(a, d, o, more, at, fr, ns, cu, exact) ==
    LET f == LastOf(fr)
    IN  /\ f.state = "PCDATA" /\ f.nbrackets = 0
        /\ f.start >= 1 /\ f.start <= o + 1 /\ f.start <= at /\ o < at
        /\ a.text = SubSeq(d, f.start, o)
        /\ more \/ (f.start <= o /\ at = o + 1)
        /\ Calls(fr, a.open) /\ Alike(ns, cu, a, exact)

Spaced(f, next) == f.state = "IGNORE_SPACES" /\ f.next = next

\* At q in front of, or in, the attribute b of t.
InAttrib(f, w, b, x, y, z, v, to, q, o) ==
    \/ Spaced(f, "BODY") /\ q <= x
    \/ f.state = "BODY" /\ q = x
    \/ f.state = "ATTRIB_NAME" /\ f.start = o + x /\ q \in x .. y
    \/ /\ f.aname = b.name
       /\ \/ Spaced(f, "EQUALS") /\ q \in y .. z
          \/ f.state = "EQUALS" /\ q = z
          \/ Spaced(f, "ATTVAL_BEGIN") /\ q \in z + 1 .. v
          \/ f.state = "ATTVAL_BEGIN" /\ q = v
          \/ f.state = "ATTRIB_VAL" /\ f.start = o + v /\ q \in v + 1 .. to - 1

\* Behind i attributes of the tag t.
InBody(f, t, at, i, q, o) ==
    LET w == t.chars
        n == Len(t.attribs)
        last == Len(w) - Len(TagEnd(t)) + 1
    IN  /\ f.nodename = t.name /\ Len(f.attribs) = i /\ q >= at[i]
        /\ \A j \in 1 .. i : f.attribs[j] = t.attribs[j]
        /\ i = n => (Spaced(f, "BODY") /\ q <= last) \/ (f.state = "BODY" /\ q = last)
        /\ i < n => \E x, y, z, v \in at[i] .. at[i + 1] :
                        /\ Attribute(w, t.attribs[i + 1], at[i], x, y, z, v, at[i + 1])
                        /\ InAttrib(f, w, t.attribs[i + 1], x, y, z, v, at[i + 1], q, o)

InTag(f, t, m, at, q, o) ==
    \/ f.state = "TAG_NAME" /\ f.start = o + m /\ q \in m .. at[0]
    \/ \E i \in 0 .. Len(t.attribs) : InBody(f, t, at, i, q, o)

InEndTag(f, t, m, e, q, o) ==
    \/ Spaced(f, "CLOSE") /\ f.start = o + m + 1 /\ q = m + 1
    \/ f.state = "CLOSE" /\ f.start = o + m + 1 /\ q \in m + 1 .. e
    \/ /\ f.parentname # NoName /\ SameName(t.name, f.parentname)
       /\ \/ Spaced(f, "WAIT_END_RET") /\ q \in e .. Len(t.chars)
          \/ f.state = "WAIT_END_RET" /\ q = Len(t.chars)

InOther(f, t, m, q, o) ==
    LET w == t.chars
    IN  \/ /\ t.type = "CData" /\ f.state = "CDATA"
           /\ f.start = o + m + 8 /\ q \in m + 8 .. Len(w) - 2
        \/ /\ t.type = "Comment" /\ f.state = "COMMENT"
           /\ f.start = o + m + 3 /\ q \in m + 3 .. Len(w) - 2
        \/ /\ t.type = "ProcessingInstruction" /\ f.state = "HEADER"
           /\ f.start = o + m /\ q \in m + 1 .. Len(w) - 1
        \/ /\ t.type = "DocType" /\ f.state = "DOCTYPE"
           /\ f.start = o + m + 8 /\ q \in m + 8 .. Len(w)
           /\ f.nbrackets = Brackets(w, m + 8, q - 1)

\* In front of the character q of the token t, which is no text.
Spot(f, t, q, o) ==
    \E m \in 2 .. Len(t.chars) :
        /\ Blank(t.chars, 2, m)
        /\ \/ Markup(t, m) /\ Spaced(f, "BEGIN_NODE") /\ q \in 2 .. m
           \/ Markup(t, m) /\ f.state = "BEGIN_NODE" /\ q = m
           \/ /\ t.kind \in {"open", "empty"}
              /\ \E at \in [0 .. Len(t.attribs) -> m .. Len(t.chars)] :
                     IsTag(t, m, at, TagEnd(t)) /\ InTag(f, t, m, at, q, o)
           \/ t.kind = "close" /\ \E e \in m .. Len(t.chars) :
                  IsEndTag(t, m, e) /\ InEndTag(f, t, m, e, q, o)
           \/ t.kind = "other" /\ IsOther(t, m) /\ InOther(f, t, m, q, o)

Within(a, t, o, at, fr, ns, cu, exact) ==
    LET f == LastOf(fr)
    IN  /\ at \in o + 2 .. o + Len(t.chars) /\ t.kind # "text"
        /\ Spot(f, t, at - o, o) /\ (f.nbrackets = 0 \/ f.state = "DOCTYPE")
        /\ Calls(fr, Flushed(a).open) /\ Alike(ns, cu, Flushed(a), exact)

\* At the last character of an element without an end tag; b is what it has come to.
Waiting(b, t, o, at, fr, ns, cu, exact) ==
    LET f == LastOf(fr)
    IN  /\ at = o + Len(t.chars) /\ t.kind = "empty" /\ t.chars[Len(t.chars)] = ">"
        /\ f.state = "WAIT_END" /\ f.nbrackets = 0
        /\ Calls(fr, b.open) /\ Alike(ns, ns[cu].parent, b, exact)

\* Where the parser is, k tokens being read.
Stands(k, ts, d, off, acc, at, fr, ns, cu, exact) ==
    /\ acc[k].ok
    /\ \/ Between(acc[k], off[k], at, fr, ns, cu, exact)
       \/ /\ InText(acc[k], d, off[k], k < Len(ts) /\ ts[k + 1].kind = "text", at, fr, ns, cu, exact)
          /\ k < Len(ts) => at <= off[k + 1]
       \/ k < Len(ts) /\ Within(acc[k], ts[k + 1], off[k], at, fr, ns, cu, exact)
       \/ k < Len(ts) /\ Waiting(acc[k + 1], ts[k + 1], off[k], at, fr, ns, cu, exact)

\* The nodes of the tree are the first of a document that stands for u.
Agrees(ns, u, exact) ==
    /\ Len(ns) <= Len(u.nodes)
    /\ \A j \in 1 .. Len(ns) :
           /\ ns[j].type = u.nodes[j].type /\ ns[j].value = u.nodes[j].value
           /\ ns[j].attribs = u.nodes[j].attribs
           /\ exact => ns[j].parent = u.nodes[j].parent
-----------------------------------------------------------------------------
(* NativeXml: what the tokens are, and what they stand for *)

Item == [name : Texts, subs : Nat, node : Nat]
Account == [ok : BOOLEAN, nodes : Seq(XmlNode), text : Texts, open : Seq(Item)]

\* Only the outermost has no name.
AccOK(a) ==
    /\ a \in Account /\ Len(a.open) >= 1
    /\ \A i \in 1 .. Len(a.open) : a.open[i].name = NoName <=> i = 1

\* b is a and one node more, one of counts more in the open element.
Adds(a, b, type, value, attribs, counts) ==
    /\ b.ok = a.ok
    /\ b.nodes = Append(a.nodes, [type |-> type, value |-> value, attribs |-> attribs,
                                  parent |-> TheOpen(a).node])
    /\ Len(b.open) = Len(a.open)
    /\ \A i \in 1 .. Len(a.open) :
           /\ b.open[i].name = a.open[i].name /\ b.open[i].node = a.open[i].node
           /\ b.open[i].subs = IF i = Len(a.open) THEN a.open[i].subs + counts ELSE a.open[i].subs

\* What is in a is in b.
Grown(a, b) ==
    /\ Len(a.nodes) <= Len(b.nodes) /\ \A j \in 1 .. Len(a.nodes) : b.nodes[j] = a.nodes[j]
    /\ b.ok => a.ok

LEMMA AccountIs ==
    ASSUME NEW a, AccOK(a)
    PROVE  /\ a.ok \in BOOLEAN /\ a.nodes \in Seq(XmlNode) /\ a.text \in Texts /\ a.open \in Seq(Item)
           /\ Len(a.open) \in Nat \ {0} /\ Len(a.nodes) \in Nat /\ Len(a.open) \in 1 .. Len(a.open)
           /\ \A i \in 1 .. Len(a.open) : a.open[i] \in Item
           /\ \A j \in 1 .. Len(a.nodes) : a.nodes[j] \in XmlNode
           /\ TheOpen(a) = a.open[Len(a.open)] /\ TheOpen(a).node \in Nat
<1>1. a.ok \in BOOLEAN /\ a.nodes \in Seq(XmlNode) /\ a.text \in Texts /\ a.open \in Seq(Item)
  BY DEF AccOK, Account
<1>2. Len(a.open) \in Nat /\ Len(a.open) >= 1 /\ Len(a.nodes) \in Nat
  BY <1>1, LenProperties DEF AccOK
<1>3. /\ \A i \in 1 .. Len(a.open) : a.open[i] \in Item
      /\ \A j \in 1 .. Len(a.nodes) : a.nodes[j] \in XmlNode
  BY <1>1, ElementOfSeq
<1>4. Len(a.open) \in 1 .. Len(a.open)
  BY <1>2
<1>5. TheOpen(a) = a.open[Len(a.open)] /\ TheOpen(a) \in Item
  BY <1>3, <1>4 DEF TheOpen
<1>6. TheOpen(a).node \in Nat
  BY <1>5 DEF Item
<1> QED BY <1>1, <1>2, <1>3, <1>4, <1>5, <1>6

LEMMA NodeIsAdded ==
    ASSUME NEW a, AccOK(a), NEW type \in Kinds, NEW value \in Texts, NEW attribs \in Seq(Attrib),
           NEW counts \in Nat, NEW b, b = AddNode(a, type, value, attribs, counts)
    PROVE  AccOK(b) /\ Adds(a, b, type, value, attribs, counts) /\ b.text = a.text
<1>1. PICK L : L = Len(a.open)
  OBVIOUS
<1>2. PICK node : node = [type |-> type, value |-> value, attribs |-> attribs, parent |-> TheOpen(a).node]
  OBVIOUS
<1>3. node \in XmlNode
  BY <1>2, AccountIs DEF XmlNode
<1>0. PICK old : old = a.open[L]
  OBVIOUS
<1>4. PICK item : item = [old EXCEPT !.subs = @ + counts]
  OBVIOUS
<1>5. /\ L \in Nat \ {0} /\ L \in 1 .. L /\ a.open[L] \in Item /\ a.open \in Seq(Item)
      /\ a.nodes \in Seq(XmlNode) /\ a \in Account
  BY <1>1, AccountIs DEF AccOK
<1>6. /\ item \in Item /\ item.name = a.open[L].name /\ item.node = a.open[L].node
      /\ item.subs = a.open[L].subs + counts
  <2>1. old \in Item
    BY <1>0, <1>5
  <2> QED BY <2>1, <1>0, <1>4 DEF Item
<1>7. PICK open : open = [a.open EXCEPT ![L] = item]
  OBVIOUS
<1>8. open \in Seq(Item) /\ Len(open) = L /\ \A i \in 1 .. L : open[i] = IF i = L THEN item ELSE a.open[i]
  BY <1>1, <1>5, <1>6, <1>7, ExceptSeq
<1>9. PICK ns : ns = Append(a.nodes, node)
  OBVIOUS
<1>10. ns \in Seq(XmlNode)
  BY <1>3, <1>5, <1>9, AppendProperties
<1>11. b = [a EXCEPT !.nodes = ns, !.open = open]
  BY <1>0, <1>1, <1>2, <1>4, <1>5, <1>7, <1>9 DEF AddNode, Account
<1>12. /\ b \in Account /\ b.ok = a.ok /\ b.text = a.text /\ b.nodes = ns /\ b.open = open
  BY <1>5, <1>8, <1>10, <1>11 DEF Account
<1>13. /\ Len(b.open) = Len(a.open)
       /\ \A i \in 1 .. Len(a.open) :
              /\ b.open[i].name = a.open[i].name /\ b.open[i].node = a.open[i].node
              /\ b.open[i].subs = IF i = Len(a.open) THEN a.open[i].subs + counts ELSE a.open[i].subs
  BY <1>1, <1>6, <1>8, <1>12
<1>14. AccOK(b)
  BY <1>1, <1>5, <1>12, <1>13 DEF AccOK
<1>15. Adds(a, b, type, value, attribs, counts)
  BY <1>2, <1>9, <1>12, <1>13 DEF Adds
<1> QED BY <1>12, <1>14, <1>15

LEMMA AddsGrows ==
    ASSUME NEW a, AccOK(a), NEW b, NEW type, NEW value, NEW attribs, NEW counts,
           Adds(a, b, type, value, attribs, counts)
    PROVE  Grown(a, b)
<1>1. a.nodes \in Seq(XmlNode) /\ Len(a.nodes) \in Nat
  BY AccountIs
<1>2. PICK node : b.nodes = Append(a.nodes, node)
  BY DEF Adds
<1>3. PICK S : a.nodes \in Seq(S) /\ node \in S
  <2>1. a.nodes \in Seq(XmlNode \union {node})
    BY <1>1
  <2> QED BY <2>1
<1>4. PICK an : an = a.nodes
  OBVIOUS
<1>5. Len(Append(an, node)) = Len(an) + 1 /\ \A j \in 1 .. Len(an) : Append(an, node)[j] = an[j]
  BY <1>3, <1>4, AppendProperties
<1> QED BY <1>1, <1>2, <1>4, <1>5 DEF Grown, Adds

LEMMA GrownOn ==
    ASSUME NEW a, NEW b, NEW e, Grown(a, b), Grown(b, e), Len(a.nodes) \in Nat, Len(b.nodes) \in Nat
    PROVE  Grown(a, e)
BY DEF Grown

LEMMA FlushedIs ==
    ASSUME NEW a, AccOK(a), NEW b, b = Flushed(a)
    PROVE  /\ AccOK(b) /\ b.text = << >> /\ b.ok = a.ok /\ Grown(a, b)
           /\ a.text = << >> => b = a
           /\ a.text # << >> => Adds(a, b, "PCData", a.text, << >>, 1)
<1>1. << >> \in Seq(Attrib) /\ "PCData" \in Kinds /\ 1 \in Nat /\ a.text \in Texts /\
       Len(a.nodes) \in Nat
  BY AccountIs DEF Kinds
<1>2. CASE a.text = << >>
  BY <1>1, <1>2 DEF Flushed, Grown
<1>3. CASE a.text # << >>
  <2>1. PICK e : e = AddNode(a, "PCData", a.text, << >>, 1)
    OBVIOUS
  <2>2. AccOK(e) /\ Adds(a, e, "PCData", a.text, << >>, 1)
    BY <1>1, <2>1, NodeIsAdded
  <2>3. b = [e EXCEPT !.text = << >>]
    BY <1>3, <2>1 DEF Flushed
  <2>4. << >> \in Texts
    BY TextFacts
  <2>5. /\ b \in Account /\ b.text = << >> /\ b.ok = e.ok /\ b.nodes = e.nodes /\ b.open = e.open
    BY <2>2, <2>3, <2>4 DEF AccOK, Account
  <2>6. AccOK(b) /\ Adds(a, b, "PCData", a.text, << >>, 1) /\ b.ok = a.ok
    BY <2>2, <2>5 DEF AccOK, Adds
  <2> QED BY <1>3, <2>5, <2>6, AddsGrows
<1> QED BY <1>2, <1>3

LEMMA FilledIs ==
    ASSUME NEW a, AccOK(a), NEW b, b = Filled(a)
    PROVE  /\ AccOK(b) /\ b.ok = a.ok /\ b.text = a.text /\ Grown(a, b)
           /\ TheOpen(a).subs # 0 => b = a
           /\ TheOpen(a).subs = 0 => Adds(a, b, "PCData", << >>, << >>, 1)
<1>1. << >> \in Seq(Attrib) /\ "PCData" \in Kinds /\ 1 \in Nat /\ << >> \in Texts /\
       Len(a.nodes) \in Nat
  BY AccountIs, TextFacts DEF Kinds
<1>2. CASE TheOpen(a).subs # 0
  BY <1>1, <1>2 DEF Filled, Grown
<1>3. CASE TheOpen(a).subs = 0
  <2>1. b = AddNode(a, "PCData", << >>, << >>, 1)
    BY <1>3 DEF Filled
  <2>2. PICK e, v, at : v = << >> /\ at = << >> /\ e = AddNode(a, "PCData", v, at, 1)
    OBVIOUS
  <2>3. AccOK(e) /\ Adds(a, e, "PCData", v, at, 1) /\ e.text = a.text
    <3>1. v \in Texts /\ at \in Seq(Attrib)
      BY <1>1, <2>2
    <3>2. e = AddNode(a, "PCData", v, at, 1)
      BY <2>2
    <3> QED BY <1>1, <3>1, <3>2, NodeIsAdded
  <2>4. Grown(a, e)
    BY <2>3, AddsGrows
  <2>5. b = e /\ e.ok = a.ok
    BY <2>1, <2>2, <2>3 DEF Adds
  <2> QED BY <1>3, <2>2, <2>3, <2>4, <2>5
<1> QED BY <1>2, <1>3

\* What a token that is not broken is.
Good(t) ==
    /\ t.chars \in Texts /\ IsToken(t)
    /\ t.kind \in {"text", "open", "empty", "close", "other"}
    /\ t.kind \in {"open", "empty"} => t.attribs \in Seq(Attrib)
    /\ t.kind = "other" => t.type \in {"CData", "Comment", "ProcessingInstruction", "DocType"}
    /\ t.kind \notin {"text", "close"} => t.name \in Texts

LEMMA Piece ==
    ASSUME NEW w \in Texts, NEW m \in Nat \ {0}, NEW n \in Int, n <= Len(w)
    PROVE  SubSeq(w, m, n) \in Texts
BY PartOfSeq DEF Texts

LEMMA OtherIsNamed ==
    ASSUME NEW t, NEW m, t.chars \in Texts, m \in 2 .. Len(t.chars), IsOther(t, m),
           t.type \in {"CData", "Comment", "ProcessingInstruction", "DocType"}
    PROVE  t.name \in Texts
<1>1. PICK w : w = t.chars
  OBVIOUS
<1>2. w \in Texts /\ Len(w) \in Nat /\ m \in Nat \ {0}
  BY <1>1, TextFacts
<1>3. t.type = "CData" => t.name = SubSeq(w, m + 8, Len(w) - 3)
  BY <1>1 DEF IsOther
<1>4. t.type = "Comment" => t.name = SubSeq(w, m + 3, Len(w) - 3)
  BY <1>1 DEF IsOther
<1>5. t.type = "ProcessingInstruction" => t.name = SubSeq(w, m + 1, Len(w) - 2)
  BY <1>1 DEF IsOther
<1>6. t.type = "DocType" => t.name = SubSeq(w, m + 9, Len(w) - 1)
  BY <1>1 DEF IsOther
<1>7. /\ SubSeq(w, m + 8, Len(w) - 3) \in Texts
      /\ SubSeq(w, m + 3, Len(w) - 3) \in Texts
      /\ SubSeq(w, m + 1, Len(w) - 2) \in Texts
      /\ SubSeq(w, m + 9, Len(w) - 1) \in Texts
  <2>1. \A x \in Nat, y \in Nat : SubSeq(w, m + x, Len(w) - y) \in Texts
    <3> SUFFICES ASSUME NEW x \in Nat, NEW y \in Nat PROVE SubSeq(w, m + x, Len(w) - y) \in Texts
      OBVIOUS
    <3>1. m + x \in Nat \ {0} /\ Len(w) - y \in Int /\ Len(w) - y <= Len(w)
      BY <1>2
    <3> QED BY <1>2, <3>1, Piece
  <2> QED BY <2>1
<1> QED BY <1>3, <1>4, <1>5, <1>6, <1>7

LEMMA MarkupIs ==
    ASSUME NEW t, NEW m, Markup(t, m), t.kind \in {"open", "empty", "close", "other"}
    PROVE  /\ t.kind \in {"open", "empty"} =>
                  \E at \in [0 .. Len(t.attribs) -> m .. Len(t.chars)] : IsTag(t, m, at, TagEnd(t))
           /\ t.kind = "close" => \E e \in m .. Len(t.chars) : IsEndTag(t, m, e)
           /\ t.kind = "other" => IsOther(t, m)
BY DEF Markup

LEMMA TokenIsGood ==
    ASSUME NEW t \in Token, ~Junk(t) PROVE Good(t)
<1>1. /\ t.kind \in {"text", "open", "empty", "close", "other"} /\ IsToken(t)
      /\ t.kind \in {"open", "empty"} => t.attribs \in Seq(Attrib)
      /\ t.kind = "other" => t.type \in {"CData", "Comment", "ProcessingInstruction", "DocType"}
  BY TokenAssumption DEF Junk, Attrib, Texts
<1>2. t.chars \in Texts /\ Len(t.chars) \in Nat
  BY NativeXmlAssumption, TextFacts DEF Texts
<1>3. ASSUME t.kind \notin {"text", "close"} PROVE t.name \in Texts
  <2>1. PICK m \in 2 .. Len(t.chars) : Markup(t, m)
    BY <1>1, <1>3 DEF IsToken
  <2>2. CASE t.kind = "other"
    BY <1>1, <1>2, <2>1, <2>2, OtherIsNamed, MarkupIs
  <2>3. CASE t.kind \in {"open", "empty"}
    <3>1. PICK at \in [0 .. Len(t.attribs) -> m .. Len(t.chars)] : IsTag(t, m, at, TagEnd(t))
      BY <2>1, <2>3, MarkupIs
    <3>2. t.name = SubSeq(t.chars, m, at[0] - 1)
      BY <3>1 DEF IsTag
    <3>3. 0 \in 0 .. Len(t.attribs)
      BY <1>1, <2>3, LenProperties
    <3>4. at[0] \in m .. Len(t.chars)
      BY <3>1, <3>3
    <3>5. m \in Nat \ {0} /\ at[0] - 1 \in Int /\ at[0] - 1 <= Len(t.chars)
      BY <1>2, <3>4
    <3> QED BY <1>2, <3>2, <3>5, Piece
  <2> QED BY <1>1, <1>3, <2>2, <2>3
<1> QED BY <1>1, <1>2, <1>3 DEF Good

\* What becomes of an account behind a token, for each kind of token.
LEMMA TextUnderstood ==
    ASSUME NEW a, AccOK(a), a.ok, NEW t, Good(t), t.kind = "text", NEW b, b = Understand(a, t)
    PROVE  /\ AccOK(b) /\ b.ok /\ b.nodes = a.nodes /\ b.open = a.open
           /\ b.text = a.text \o t.chars
<1>1. PICK text : text = a.text \o t.chars
  OBVIOUS
<1>2. text \in Texts
  BY <1>1, AccountIs, ConcatProperties DEF Good, Texts
<1>3. b = [a EXCEPT !.text = text]
  BY <1>1 DEF Understand
<1>4. b \in Account /\ b.ok /\ b.nodes = a.nodes /\ b.open = a.open /\ b.text = text
  BY <1>2, <1>3 DEF AccOK, Account
<1> QED BY <1>1, <1>4 DEF AccOK

LEMMA EmptyUnderstood ==
    ASSUME NEW a, AccOK(a), a.ok, NEW t, Good(t), t.kind = "empty", NEW b, b = Understand(a, t)
    PROVE  /\ AccOK(b) /\ b.ok /\ b.text = << >>
           /\ Adds(Flushed(a), b, "Element", t.name, t.attribs, 1)
<1>1. PICK e : e = Flushed(a)
  OBVIOUS
<1>2. AccOK(e) /\ e.text = << >> /\ e.ok = a.ok
  BY <1>1, FlushedIs
<1>3. PICK g : g = AddNode(e, "Element", t.name, t.attribs, 1)
  OBVIOUS
<1>4. t.name \in Texts /\ t.attribs \in Seq(Attrib) /\ "Element" \in Kinds /\ 1 \in Nat
  BY DEF Good, Kinds
<1>5. AccOK(g) /\ Adds(e, g, "Element", t.name, t.attribs, 1) /\ g.text = e.text
  BY <1>2, <1>3, <1>4, NodeIsAdded
<1>6. b = g
  BY <1>1, <1>3 DEF Understand
<1>7. g.ok
  BY <1>2, <1>5 DEF Adds
<1> QED BY <1>1, <1>2, <1>5, <1>6, <1>7

\* The child is open, and has no children yet.
Opens(b, e, name) ==
    /\ b.ok = e.ok /\ b.nodes = e.nodes /\ b.text = e.text
    /\ Len(b.open) = Len(e.open) + 1
    /\ \A i \in 1 .. Len(e.open) : b.open[i] = e.open[i]
    /\ LET top == TheOpen(b) IN top.name = name /\ top.subs = 0 /\ top.node = Len(e.nodes)

LEMMA OpenUnderstood ==
    ASSUME NEW a, AccOK(a), a.ok, NEW t, Good(t), t.name # NoName, t.kind = "open",
           NEW b, b = Understand(a, t)
    PROVE  /\ AccOK(b) /\ b.ok /\ b.text = << >>
           /\ \E e : Adds(Flushed(a), e, "Element", t.name, t.attribs, 1) /\ Opens(b, e, t.name)
                     /\ Grown(e, b) /\ AccOK(e)
<1>1. PICK h : h = Flushed(a)
  OBVIOUS
<1>2. AccOK(h) /\ h.text = << >> /\ h.ok = a.ok
  BY <1>1, FlushedIs
<1>3. PICK e : e = AddNode(h, "Element", t.name, t.attribs, 1)
  OBVIOUS
<1>4. t.name \in Texts /\ t.attribs \in Seq(Attrib) /\ "Element" \in Kinds /\ 1 \in Nat
  BY DEF Good, Kinds
<1>5. AccOK(e) /\ Adds(h, e, "Element", t.name, t.attribs, 1) /\ e.text = h.text
  BY <1>2, <1>3, <1>4, NodeIsAdded
<1>6. PICK item : item = [name |-> t.name, subs |-> 0, node |-> Len(e.nodes)]
  OBVIOUS
<1>7. PICK open : open = Append(e.open, item)
  OBVIOUS
<1>8. b = [e EXCEPT !.open = open]
  BY <1>1, <1>3, <1>6, <1>7 DEF Understand
<1>9. item \in Item /\ Len(e.nodes) \in Nat /\ e.open \in Seq(Item) /\ Len(e.open) \in Nat \ {0}
  BY <1>4, <1>5, <1>6, AccountIs DEF Item
<1>10. /\ open \in Seq(Item) /\ Len(open) = Len(e.open) + 1 /\ open[Len(e.open) + 1] = item
       /\ \A i \in 1 .. Len(e.open) : open[i] = e.open[i]
  BY <1>7, <1>9, AppendProperties
<1>11. /\ b \in Account /\ b.ok = e.ok /\ b.nodes = e.nodes /\ b.text = e.text /\ b.open = open
  BY <1>5, <1>8, <1>10 DEF AccOK, Account
<1>12. TheOpen(b) = item
  BY <1>10, <1>11 DEF TheOpen
<1>13. Opens(b, e, t.name)
  BY <1>6, <1>10, <1>11, <1>12 DEF Opens
<1>14. AccOK(b)
  <2>1. \A i \in 1 .. Len(open) : open[i].name = NoName <=> i = 1
    <3> SUFFICES ASSUME NEW i \in 1 .. Len(open) PROVE open[i].name = NoName <=> i = 1
      OBVIOUS
    <3>1. CASE i \in 1 .. Len(e.open)
      BY <1>5, <1>10, <3>1 DEF AccOK
    <3>2. CASE i = Len(e.open) + 1
      BY <1>6, <1>9, <1>10, <3>2
    <3> QED BY <1>9, <1>10, <3>1, <3>2
  <2> QED BY <1>9, <1>10, <1>11, <2>1 DEF AccOK
<1>15. b.ok /\ b.text = << >>
  BY <1>2, <1>5, <1>11 DEF Adds
<1>16. Grown(e, b)
  BY <1>9, <1>11 DEF Grown
<1> QED BY <1>1, <1>5, <1>13, <1>14, <1>15, <1>16

\* The last element is closed.
Shuts(b, e) ==
    /\ b.nodes = e.nodes /\ b.text = e.text
    /\ Len(b.open) = Len(e.open) - 1 /\ \A i \in 1 .. Len(b.open) : b.open[i] = e.open[i]

LEMMA CloseUnderstood ==
    ASSUME NEW a, AccOK(a), a.ok, NEW t, Good(t), t.kind = "close", NEW b, b = Understand(a, t)
    PROVE  /\ AccOK(b) /\ b.text = << >>
           /\ b.ok <=> Len(a.open) > 1 /\ SameName(TheOpen(a).name, t.name)
           /\ b.ok => Shuts(b, Filled(Flushed(a))) /\ Grown(Filled(Flushed(a)), b)
           /\ ~b.ok => b.nodes = Flushed(a).nodes /\ b.open = Flushed(a).open
<1>1. PICK h : h = Flushed(a)
  OBVIOUS
<1>2. AccOK(h) /\ h.text = << >> /\ h.ok
  BY <1>1, FlushedIs
<1>3. PICK e : e = Filled(h)
  OBVIOUS
<1>4. AccOK(e) /\ e.text = << >> /\ e.ok
  BY <1>2, <1>3, FilledIs
<1>5. PICK good \in BOOLEAN : good <=> Len(a.open) > 1 /\ SameName(TheOpen(a).name, t.name)
  OBVIOUS
<1>6. CASE good
  <2>1. PICK open : open = SubSeq(e.open, 1, Len(e.open) - 1)
    OBVIOUS
  <2>2. b = [e EXCEPT !.open = open]
    BY <1>1, <1>3, <1>5, <1>6, <2>1 DEF Understand
  <2>3. e.open \in Seq(Item) /\ Len(e.open) \in Nat
    BY <1>4, AccountIs
  <2>4. Len(e.open) > 1
    <3>1. Len(h.open) = Len(a.open)
      BY <1>1, FlushedIs DEF Adds
    <3>2. Len(e.open) = Len(h.open)
      BY <1>2, <1>3, FilledIs DEF Adds
    <3> QED BY <1>5, <1>6, <3>1, <3>2
  <2>5. /\ open \in Seq(Item) /\ Len(open) = Len(e.open) - 1
        /\ \A i \in 1 .. Len(open) : open[i] = e.open[i]
    <3>1. open \in Seq(Item)
      BY <2>1, <2>3, PartOfSeq
    <3>2. \A i \in 1 .. (Len(e.open) - 1) : e.open[i] \in Item
      BY <2>3, ElementOfSeq
    <3> QED BY <2>1, <2>3, <2>4, <3>1, <3>2, SubSeqProperties
  <2>6. b \in Account /\ b.ok /\ b.nodes = e.nodes /\ b.text = e.text /\ b.open = open
    BY <1>4, <2>2, <2>5 DEF AccOK, Account
  <2>7. AccOK(b)
    BY <1>4, <2>3, <2>4, <2>5, <2>6 DEF AccOK
  <2>8. Shuts(b, e)
    BY <2>5, <2>6 DEF Shuts
  <2>9. Grown(e, b)
    BY <1>4, <2>6, AccountIs DEF Grown
  <2> QED BY <1>1, <1>3, <1>4, <1>5, <1>6, <2>6, <2>7, <2>8, <2>9
<1>7. CASE ~good
  <2>1. b = [h EXCEPT !.ok = FALSE]
    BY <1>1, <1>5, <1>7 DEF Understand
  <2>2. b \in Account /\ b.ok = FALSE /\ b.nodes = h.nodes /\ b.text = h.text /\ b.open = h.open
    BY <1>2, <2>1 DEF AccOK, Account
  <2>3. AccOK(b)
    BY <1>2, <2>2 DEF AccOK
  <2> QED BY <1>1, <1>2, <1>5, <1>7, <2>2, <2>3
<1> QED BY <1>6, <1>7

LEMMA OtherUnderstood ==
    ASSUME NEW a, AccOK(a), a.ok, NEW t, Good(t), t.kind = "other", NEW b, b = Understand(a, t)
    PROVE  /\ AccOK(b) /\ b.ok /\ b.text = << >>
           /\ Adds(Flushed(a), b, t.type, t.name, << >>, IF t.type = "CData" THEN 1 ELSE 0)
<1>1. PICK e : e = Flushed(a)
  OBVIOUS
<1>2. AccOK(e) /\ e.text = << >> /\ e.ok = a.ok
  BY <1>1, FlushedIs
<1>3. PICK counts, no : counts = (IF t.type = "CData" THEN 1 ELSE 0) /\ no = << >>
  OBVIOUS
<1>4. PICK g : g = AddNode(e, t.type, t.name, no, counts)
  OBVIOUS
<1>5. t.name \in Texts /\ no \in Seq(Attrib) /\ t.type \in Kinds /\ counts \in Nat
  BY <1>3 DEF Good, Kinds
<1>6. AccOK(g) /\ Adds(e, g, t.type, t.name, no, counts) /\ g.text = e.text
  BY <1>2, <1>4, <1>5, NodeIsAdded
<1>7. b = g
  BY <1>1, <1>3, <1>4 DEF Understand
<1>8. g.ok
  BY <1>2, <1>6 DEF Adds
<1> QED BY <1>1, <1>2, <1>3, <1>6, <1>7, <1>8

\* A tag has a name.
LEMMA TagHasName ==
    ASSUME NEW t, Good(t), t.kind \in {"open", "empty"} PROVE t.name # NoName
<1>1. PICK m \in 2 .. Len(t.chars) : Markup(t, m)
  BY DEF Good, IsToken
<1>2. PICK at \in [0 .. Len(t.attribs) -> m .. Len(t.chars)] : IsTag(t, m, at, TagEnd(t))
  BY <1>1, MarkupIs
<1>3. t.name = SubSeq(t.chars, m, at[0] - 1) /\ m < at[0]
  BY <1>2 DEF IsTag, Named
<1>4. 0 \in 0 .. Len(t.attribs)
  BY LenProperties DEF Good
<1>5. at[0] \in m .. Len(t.chars) /\ m \in Nat \ {0} /\ Len(t.chars) \in Nat
  BY <1>2, <1>4, TextFacts DEF Good
<1>6. PICK w, n : w = t.chars /\ n = at[0] - 1
  OBVIOUS
<1>7. /\ w \in Seq(Character) /\ m \in Int /\ n \in Int /\ n >= m /\ m >= 1 /\ n <= Len(w)
  BY <1>3, <1>5, <1>6 DEF Good, Texts
<1>8. Len(SubSeq(w, m, n)) = n - m + 1
  <2>1. \A i \in m .. n : w[i] \in Character
    <3> SUFFICES ASSUME NEW i \in m .. n PROVE w[i] \in Character
      OBVIOUS
    <3>1. i \in 1 .. Len(w)
      BY <1>5, <1>6, <1>7
    <3> QED BY <1>7, <3>1, ElementOfSeq
  <2> QED BY <1>7, <2>1, SubSeqProperties
<1>9. Len(t.name) >= 1
  BY <1>3, <1>6, <1>7, <1>8
<1> QED BY <1>9 DEF NoName

\* Whatever the token, what is in the account stays.
LEMMA UnderstandGrows ==
    ASSUME NEW a, AccOK(a), NEW t, Good(t), NEW b, b = Understand(a, t)
    PROVE  AccOK(b) /\ Grown(a, b) /\ (a.ok /\ t.kind # "text" => Grown(Flushed(a), b))
<1>1. CASE ~a.ok
  BY <1>1, AccountIs DEF Understand, Grown
<1> SUFFICES ASSUME a.ok PROVE AccOK(b) /\ Grown(a, b) /\ (t.kind # "text" => Grown(Flushed(a), b))
  BY <1>1
<1>2. PICK e : e = Flushed(a)
  OBVIOUS
<1>3. AccOK(e) /\ e.ok /\ Grown(a, e) /\ Len(a.nodes) \in Nat /\ Len(e.nodes) \in Nat
  BY <1>2, FlushedIs, AccountIs
<1>4. CASE t.kind = "text"
  <2>1. AccOK(b) /\ b.ok /\ b.nodes = a.nodes
    BY <1>4, TextUnderstood
  <2> QED BY <1>3, <1>4, <2>1 DEF Grown
<1>5. CASE t.kind = "empty"
  <2>1. AccOK(b) /\ Adds(e, b, "Element", t.name, t.attribs, 1) /\ Len(b.nodes) \in Nat
    BY <1>2, <1>5, EmptyUnderstood, AccountIs
  <2>2. Grown(e, b)
    BY <1>3, <2>1, AddsGrows
  <2> QED BY <1>2, <1>3, <2>1, <2>2, GrownOn
<1>6. CASE t.kind = "open"
  <2>1. t.name # NoName
    BY <1>6, TagHasName
  <2>2. PICK g : Adds(e, g, "Element", t.name, t.attribs, 1) /\ Grown(g, b) /\ AccOK(b) /\ AccOK(g)
    BY <1>2, <1>6, <2>1, OpenUnderstood
  <2>3. Grown(e, g) /\ Len(g.nodes) \in Nat
    BY <1>3, <2>2, AddsGrows, AccountIs
  <2>4. Grown(e, b) /\ Len(b.nodes) \in Nat
    BY <1>3, <2>2, <2>3, GrownOn, AccountIs
  <2> QED BY <1>2, <1>3, <2>2, <2>4, GrownOn
<1>7. CASE t.kind = "close"
  <2>1. AccOK(b) /\ Len(b.nodes) \in Nat
    BY <1>7, CloseUnderstood, AccountIs
  <2>2. Grown(e, b)
    <3>1. CASE b.ok
      <4>1. PICK g : g = Filled(e)
        OBVIOUS
      <4>2. AccOK(g) /\ Grown(e, g) /\ Len(g.nodes) \in Nat
        BY <1>3, <4>1, FilledIs, AccountIs
      <4>3. Grown(g, b)
        BY <1>2, <1>7, <3>1, <4>1, CloseUnderstood
      <4> QED BY <1>3, <2>1, <4>2, <4>3, GrownOn
    <3>2. CASE ~b.ok
      <4>1. b.nodes = e.nodes
        BY <1>2, <1>7, <3>2, CloseUnderstood
      <4> QED BY <1>3, <3>2, <4>1 DEF Grown
    <3> QED BY <3>1, <3>2
  <2> QED BY <1>2, <1>3, <2>1, <2>2, GrownOn
<1>8. CASE t.kind = "other"
  <2>1. PICK counts : AccOK(b) /\ Adds(e, b, t.type, t.name, << >>, counts) /\ Len(b.nodes) \in Nat
    BY <1>2, <1>8, OtherUnderstood, AccountIs
  <2>2. Grown(e, b)
    BY <1>3, <2>1, AddsGrows
  <2> QED BY <1>2, <1>3, <2>1, <2>2, GrownOn
<1> QED BY <1>4, <1>5, <1>6, <1>7, <1>8 DEF Good

\* What the document stands for, token by token.
Accounts(ts, acc) ==
    /\ acc[0] = Root
    /\ \A k \in 1 .. Len(ts) : acc[k] = Understand(acc[k - 1], ts[k])
    /\ \A k \in 0 .. Len(ts) : AccOK(acc[k])

LEMMA RootIsOK == AccOK(Root)
<1>1. << >> \in Seq(XmlNode) /\ << >> \in Texts /\ NoName \in Texts
  BY TextFacts
<1>2. PICK item : item = [name |-> NoName, subs |-> 0, node |-> 0]
  OBVIOUS
<1>3. item \in Item /\ item.name = NoName
  BY <1>1, <1>2 DEF Item
<1>4. PICK open : open = <<item>>
  OBVIOUS
<1>5. open \in Seq(Item) /\ Len(open) = 1 /\ open[1] = item
  BY <1>3, <1>4
<1>6. PICK ns, tx : ns = << >> /\ tx = << >> /\ ns \in Seq(XmlNode) /\ tx \in Texts
  BY <1>1
<1>7. PICK a : a = [ok |-> TRUE, nodes |-> ns, text |-> tx, open |-> open]
  OBVIOUS
<1>8. a \in Account /\ a.open = open
  BY <1>5, <1>6, <1>7 DEF Account
<1>9. Root = a
  BY <1>2, <1>4, <1>6, <1>7 DEF Root
<1>10. AccOK(a)
  <2>1. \A i \in 1 .. Len(a.open) : i = 1 /\ a.open[i] = item
    BY <1>5, <1>8
  <2>2. Len(a.open) = 1
    BY <1>5, <1>8
  <2>3. Len(a.open) >= 1
    BY <2>2
  <2> QED BY <1>3, <1>8, <2>1, <2>3 DEF AccOK
<1> QED BY <1>9, <1>10

LEMMA MeaningIs ==
    ASSUME NEW ts, Len(ts) \in Nat, \A k \in 1 .. Len(ts) : Good(ts[k])
    PROVE  Accounts(ts, Meaning(ts))
<1> DEFINE n == Len(ts)
           Tells(f, m) == f = [k \in 0 .. m |-> IF k = 0 THEN Root ELSE Understand(f[k - 1], ts[k])]
           acc == CHOOSE f : Tells(f, n)
<1>1. Meaning(ts) = acc
  BY DEF Meaning
<1>2. \E f : Tells(f, n)
  <2> DEFINE P == {m \in 0 .. n : \E f : f = [k \in 0 .. m |-> f[k]] /\ Tells(f, m)}
  <2>1. 0 \in P
    <3>1. PICK f : f = [k \in 0 .. 0 |-> Root]
      OBVIOUS
    <3>2. f = [k \in 0 .. 0 |-> f[k]] /\ Tells(f, 0)
      BY <3>1
    <3>3. 0 \in 0 .. n
      OBVIOUS
    <3> HIDE DEF Tells
    <3> QED BY <3>2, <3>3
  <2>2. ASSUME NEW m \in 0 .. (n - 1), m \in P PROVE m + 1 \in P
    <3>1. PICK g : g = [k \in 0 .. m |-> g[k]] /\ Tells(g, m)
      BY <2>2
    <3>2. \A k \in 0 .. m : g[k] = IF k = 0 THEN Root ELSE Understand(g[k - 1], ts[k])
      BY <3>1
    <3> DEFINE last == Understand(g[m], ts[m + 1])
               f == [k \in 0 .. (m + 1) |-> IF k = m + 1 THEN last ELSE g[k]]
    <3>3. \A k \in 0 .. (m + 1) : f[k] = IF k = 0 THEN Root ELSE Understand(f[k - 1], ts[k])
      <4> SUFFICES ASSUME NEW k \in 0 .. (m + 1)
                   PROVE  f[k] = IF k = 0 THEN Root ELSE Understand(f[k - 1], ts[k])
        OBVIOUS
      <4>1. CASE k = m + 1
        <5>1. k # 0 /\ k - 1 = m /\ m \in 0 .. (m + 1) /\ m # m + 1
          BY <4>1
        <5>2. f[m] = g[m] /\ f[k] = last
          BY <4>1, <5>1
        <5> QED BY <4>1, <5>1, <5>2
      <4>2. CASE k # m + 1
        <5>1. k \in 0 .. m /\ f[k] = g[k]
          BY <4>2
        <5>2. CASE k = 0
          BY <3>2, <5>1, <5>2
        <5>3. CASE k # 0
          <6>1. k - 1 \in 0 .. (m + 1) /\ k - 1 # m + 1
            BY <5>1, <5>3
          <6>2. f[k - 1] = g[k - 1]
            BY <6>1
          <6> QED BY <3>2, <5>1, <5>3, <6>2
        <5> QED BY <5>2, <5>3
      <4> QED BY <4>1, <4>2
    <3>4. f = [k \in 0 .. (m + 1) |-> f[k]]
      OBVIOUS
    <3> HIDE DEF f
    <3>5. Tells(f, m + 1)
      BY <3>3, <3>4
    <3>6. m + 1 \in 0 .. n
      OBVIOUS
    <3> HIDE DEF Tells
    <3> QED BY <3>4, <3>5, <3>6
  <2>3. n \in P
    <3>1. n \in 0 .. n
      OBVIOUS
    <3> HIDE DEF P, n
    <3>2. \A m \in 0 .. n : m \in P
      <4>1. n \in Nat
        BY DEF n
      <4> QED BY <2>1, <2>2, <4>1, CountsUp
    <3> QED BY <3>1, <3>2
  <2> QED BY <2>3
<1>3. Tells(acc, n)
  <2> HIDE DEF Tells
  <2> QED BY <1>2
<1> HIDE DEF acc
<1>4. \A k \in 0 .. n : acc[k] = IF k = 0 THEN Root ELSE Understand(acc[k - 1], ts[k])
  BY <1>3
<1>5. acc[0] = Root /\ \A k \in 1 .. n : acc[k] = Understand(acc[k - 1], ts[k])
  BY <1>4
<1>6. \A k \in 0 .. n : AccOK(acc[k])
  <2> DEFINE Q == {k \in 0 .. n : AccOK(acc[k])}
  <2>1. 0 \in Q
    BY <1>5, RootIsOK
  <2>2. ASSUME NEW k \in 0 .. (n - 1), k \in Q PROVE k + 1 \in Q
    <3>1. k + 1 \in 1 .. n /\ k + 1 \in 0 .. n /\ (k + 1) - 1 = k
      OBVIOUS
    <3>2. acc[k + 1] = Understand(acc[k], ts[k + 1]) /\ Good(ts[k + 1]) /\ AccOK(acc[k])
      BY <1>5, <2>2, <3>1
    <3> QED BY <3>1, <3>2, UnderstandGrows
  <2>3. \A k \in 0 .. n : k \in Q
    <3> HIDE DEF Q, n
    <3>1. n \in Nat
      BY DEF n
    <3> QED BY <2>1, <2>2, <3>1, CountsUp
  <2> QED BY <2>3
<1> QED BY <1>1, <1>5, <1>6 DEF Accounts

\* What is in the k-th account is in the last.
LEMMA GrowsToTheEnd ==
    ASSUME NEW ts, Len(ts) \in Nat, \A k \in 1 .. Len(ts) : Good(ts[k]),
           NEW acc, Accounts(ts, acc), NEW k \in 0 .. Len(ts)
    PROVE  Grown(acc[k], acc[Len(ts)])
<1>1. PICK n \in Nat : n = Len(ts)
  OBVIOUS
<1> DEFINE Q == {m \in 0 .. n : m >= k => Grown(acc[k], acc[m])}
<1>2. \A m \in 0 .. n : AccOK(acc[m]) /\ Len(acc[m].nodes) \in Nat
  BY <1>1, AccountIs DEF Accounts
<1>3. Grown(acc[k], acc[k])
  BY <1>1, <1>2 DEF Grown
<1>4. 0 \in Q
  BY <1>1, <1>3
<1>5. ASSUME NEW m \in 0 .. (n - 1), m \in Q PROVE m + 1 \in Q
  <2>1. m + 1 \in 1 .. n /\ m + 1 \in 0 .. n /\ (m + 1) - 1 = m /\ m \in 0 .. n
    BY <1>1
  <2>2. acc[m + 1] = Understand(acc[m], ts[m + 1]) /\ Good(ts[m + 1])
    BY <1>1, <2>1 DEF Accounts
  <2>3. Grown(acc[m], acc[m + 1])
    BY <1>2, <2>1, <2>2, UnderstandGrows
  <2>4. CASE m >= k
    <3>1. Grown(acc[k], acc[m])
      BY <1>5, <2>4
    <3>2. Grown(acc[k], acc[m + 1])
      BY <1>1, <1>2, <2>1, <2>3, <3>1, GrownOn
    <3> QED BY <2>1, <3>2
  <2>5. CASE m + 1 = k
    BY <1>3, <2>1, <2>5
  <2>6. CASE m + 1 < k
    BY <1>1, <2>1, <2>6
  <2> QED BY <1>1, <2>1, <2>4, <2>5, <2>6
<1>6. \A m \in 0 .. n : m \in Q
  <2> HIDE DEF Q
  <2> QED BY <1>4, <1>5, CountsUp
<1>7. n \in Q
  <2>1. n \in 0 .. n
    OBVIOUS
  <2> QED BY <1>6, <2>1
<1> QED BY <1>1, <1>7
-----------------------------------------------------------------------------
(* NativeXml: where the tokens lie in the document *)

LEMMA CutUp ==
    ASSUME NEW ts, Len(ts) \in Nat, DOMAIN ts = 1 .. Len(ts),
           \A k \in 1 .. Len(ts) : ts[k].chars \in Texts,
           NEW d, d = FlattenSeq([k \in DOMAIN ts |-> ts[k].chars])
    PROVE  \E off : Cut(ts, d, off)
<1>1. PICK n \in Nat : n = Len(ts)
  OBVIOUS
<1>2. PICK seqs : seqs = [k \in 1 .. n |-> ts[k].chars]
  OBVIOUS
<1>3. seqs \in Seq(Texts) /\ Len(seqs) = n /\ d = FlattenSeq(seqs) /\ \A k \in 1 .. n : seqs[k] = ts[k].chars
  BY <1>1, <1>2
<1>4. PICK j : Joins(j, seqs, Character) /\ FlattenSeq(seqs) = j[n]
  BY <1>3, Flattened DEF Texts
<1>5. /\ j[0] = << >> /\ \A k \in 1 .. n : j[k] = j[k - 1] \o seqs[k]
      /\ \A k \in 0 .. n : j[k] \in Texts
  BY <1>3, <1>4 DEF Joins, Texts
<1>6. \A k \in 1 .. n : seqs[k] \in Texts
  BY <1>1, <1>3
<1>7. ASSUME NEW a \in Texts, NEW b \in Texts
      PROVE  /\ Len(a \o b) = Len(a) + Len(b) /\ Len(a) \in Nat /\ Len(b) \in Nat
             /\ \A i \in 1 .. Len(a) : (a \o b)[i] = a[i]
             /\ \A i \in 1 .. Len(b) : (a \o b)[Len(a) + i] = b[i]
  <2>1. a \in Seq(Character) /\ b \in Seq(Character) /\ Len(a) \in Nat /\ Len(b) \in Nat
    BY TextFacts DEF Texts
  <2>2. /\ Len(a \o b) = Len(a) + Len(b)
        /\ \A i \in 1 .. Len(a) + Len(b) : (a \o b)[i] = IF i <= Len(a) THEN a[i] ELSE b[i - Len(a)]
    BY <2>1, ConcatProperties
  <2>3. \A i \in 1 .. Len(b) : (a \o b)[Len(a) + i] = b[i]
    <3> SUFFICES ASSUME NEW i \in 1 .. Len(b) PROVE (a \o b)[Len(a) + i] = b[i]
      OBVIOUS
    <3>1. Len(a) + i \in 1 .. Len(a) + Len(b) /\ ~(Len(a) + i <= Len(a)) /\ (Len(a) + i) - Len(a) = i
      BY <2>1
    <3> QED BY <2>2, <3>1
  <2> QED BY <2>1, <2>2, <2>3
<1> DEFINE off == [k \in 0 .. n |-> Len(j[k])]
<1>8. off \in [0 .. n -> Nat] /\ \A k \in 0 .. n : off[k] = Len(j[k])
  BY <1>5, TextFacts
<1>9. off[0] = 0 /\ off[n] = Len(d)
  BY <1>1, <1>3, <1>4, <1>5
<1> HIDE DEF off
<1>10. ASSUME NEW k \in 1 .. n
       PROVE  /\ k - 1 \in 0 .. n /\ k \in 0 .. n /\ off[k] = off[k - 1] + Len(ts[k].chars)
              /\ \A i \in 1 .. Len(ts[k].chars) : j[k][off[k - 1] + i] = ts[k].chars[i]
              /\ \A i \in 1 .. off[k - 1] : j[k][i] = j[k - 1][i]
  <2>1. k - 1 \in 0 .. n /\ k \in 0 .. n /\ seqs[k] = ts[k].chars /\ seqs[k] \in Texts
    BY <1>1, <1>3, <1>6
  <2>2. j[k - 1] \in Texts /\ j[k] = j[k - 1] \o seqs[k]
    BY <1>5, <2>1
  <2>3. PICK a, b, e : a = j[k - 1] /\ b = seqs[k] /\ e = a \o b
    OBVIOUS
  <2>4. a \in Texts /\ b \in Texts /\ j[k] = e /\ b = ts[k].chars
    BY <2>1, <2>2, <2>3
  <2>5. /\ Len(e) = Len(a) + Len(b) /\ Len(a) \in Nat /\ Len(b) \in Nat
        /\ \A i \in 1 .. Len(a) : e[i] = a[i]
        /\ \A i \in 1 .. Len(b) : e[Len(a) + i] = b[i]
    <3>1. /\ Len(a \o b) = Len(a) + Len(b) /\ Len(a) \in Nat /\ Len(b) \in Nat
          /\ \A i \in 1 .. Len(a) : (a \o b)[i] = a[i]
          /\ \A i \in 1 .. Len(b) : (a \o b)[Len(a) + i] = b[i]
      BY <1>7, <2>4
    <3> QED BY <2>3, <3>1
  <2>6. off[k] = Len(e) /\ off[k - 1] = Len(a)
    BY <1>8, <2>1, <2>3, <2>4
  <2> QED BY <2>1, <2>3, <2>4, <2>5, <2>6
<1> DEFINE Q == {m \in 0 .. n : \A k \in 1 .. m : /\ off[k] <= off[m]
                      /\ \A i \in 1 .. Len(ts[k].chars) : j[m][off[k - 1] + i] = ts[k].chars[i]}
<1>11. 0 \in Q
  BY <1>1
<1>12. ASSUME NEW m \in 0 .. (n - 1), m \in Q PROVE m + 1 \in Q
  <2>1. m + 1 \in 1 .. n /\ m + 1 \in 0 .. n /\ (m + 1) - 1 = m
    BY <1>1
  <2>2. ASSUME NEW k \in 1 .. (m + 1)
        PROVE  /\ off[k] <= off[m + 1]
               /\ \A i \in 1 .. Len(ts[k].chars) : j[m + 1][off[k - 1] + i] = ts[k].chars[i]
    <3>1. CASE k = m + 1
      BY <1>8, <1>10, <2>1, <3>1
    <3>2. CASE k # m + 1
      <4>1. k \in 1 .. m /\ k \in 1 .. n
        BY <2>1, <3>2
      <4>2. /\ off[k] <= off[m] /\ off[k] = off[k - 1] + Len(ts[k].chars) /\ off[m] <= off[m + 1]
            /\ off[k] \in Nat /\ off[k - 1] \in Nat /\ off[m] \in Nat /\ off[m + 1] \in Nat
            /\ Len(ts[k].chars) \in Nat
        <5>1. m \in 0 .. n /\ k \in 0 .. n /\ k - 1 \in 0 .. n /\ m + 1 \in 0 .. n
          BY <1>10, <2>1, <4>1
        <5>2. off[k] \in Nat /\ off[k - 1] \in Nat /\ off[m] \in Nat /\ off[m + 1] \in Nat
          BY <1>8, <5>1
        <5>3. Len(ts[k].chars) \in Nat /\ Len(ts[m + 1].chars) \in Nat
          BY <2>1, <4>1, TextFacts, <1>1
        <5>4. off[m + 1] = off[m] + Len(ts[m + 1].chars)
          BY <1>10, <2>1
        <5>5. off[k] <= off[m] /\ off[k] = off[k - 1] + Len(ts[k].chars)
          BY <1>10, <1>12, <4>1
        <5> QED BY <5>2, <5>3, <5>4, <5>5
      <4>3. ASSUME NEW i \in 1 .. Len(ts[k].chars) PROVE j[m + 1][off[k - 1] + i] = ts[k].chars[i]
        <5>a. \A u, v, w, x \in Nat : v = u + x /\ v <= w => \A y \in 1 .. x : u + y \in 1 .. w
          OBVIOUS
        <5>1. off[k - 1] + i \in 1 .. off[m]
          BY <4>2, <5>a
        <5>2. j[m + 1][off[k - 1] + i] = j[m][off[k - 1] + i]
          BY <1>10, <2>1, <5>1
        <5> QED BY <1>12, <4>1, <5>2
      <4> QED BY <4>2, <4>3
    <3> QED BY <3>1, <3>2
  <2> QED BY <2>1, <2>2
<1>13. n \in Q
  <2>1. \A m \in 0 .. n : m \in Q
    <3> HIDE DEF Q
    <3> QED BY <1>11, <1>12, CountsUp
  <2>2. n \in 0 .. n
    OBVIOUS
  <2> QED BY <2>1, <2>2
<1>14. \A k \in 1 .. n : \A i \in 1 .. Len(ts[k].chars) : d[off[k - 1] + i] = ts[k].chars[i]
  BY <1>3, <1>4, <1>13
<1>15. Cut(ts, d, off)
  BY <1>1, <1>8, <1>9, <1>10, <1>14 DEF Cut
<1> QED BY <1>15

LEMMA OffsetsRise ==
    ASSUME NEW ts, Len(ts) \in Nat, \A k \in 1 .. Len(ts) : ts[k].chars \in Texts,
           NEW d, NEW off, Cut(ts, d, off), NEW k \in 0 .. Len(ts)
    PROVE  off[k] \in Nat /\ off[k] <= Len(d)
<1>1. PICK n \in Nat : n = Len(ts)
  OBVIOUS
<1>2. \A m \in 0 .. n : off[m] \in Nat
  BY <1>1 DEF Cut
<1> DEFINE Q == {m \in 0 .. n : m >= k => off[k] <= off[m]}
<1>3. 0 \in Q
  BY <1>1, <1>2
<1>4. ASSUME NEW m \in 0 .. (n - 1), m \in Q PROVE m + 1 \in Q
  <2>1. m + 1 \in 1 .. n /\ m + 1 \in 0 .. n /\ (m + 1) - 1 = m /\ m \in 0 .. n
    BY <1>1
  <2>2. Len(ts[m + 1].chars) \in Nat
    BY <1>1, <2>1, TextFacts
  <2>3. off[m + 1] = off[m] + Len(ts[m + 1].chars)
    BY <1>1, <2>1 DEF Cut
  <2>4. off[m + 1] \in Nat /\ off[m] \in Nat /\ off[k] \in Nat
    BY <1>1, <1>2, <2>1
  <2>5. CASE m >= k
    BY <1>4, <2>1, <2>2, <2>3, <2>4, <2>5
  <2>6. CASE m + 1 = k
    BY <2>1, <2>4, <2>6
  <2>7. CASE m + 1 < k
    BY <1>1, <2>1, <2>7
  <2> QED BY <1>1, <2>1, <2>5, <2>6, <2>7
<1>5. \A m \in 0 .. n : m \in Q
  <2> HIDE DEF Q
  <2> QED BY <1>3, <1>4, CountsUp
<1>6. off[k] <= off[n]
  BY <1>1, <1>5
<1> QED BY <1>1, <1>2, <1>6 DEF Cut

\* The token t lies in d behind o.
Lies(t, d, o) ==
    /\ o \in Nat /\ o + Len(t.chars) <= Len(d)
    /\ \A j \in 1 .. Len(t.chars) : d[o + j] = t.chars[j]

LEMMA CutLies ==
    ASSUME NEW ts, Len(ts) \in Nat, \A k \in 1 .. Len(ts) : ts[k].chars \in Texts,
           NEW d, NEW off, Cut(ts, d, off), NEW k \in 0 .. Len(ts), k < Len(ts)
    PROVE  Lies(ts[k + 1], d, off[k]) /\ off[k + 1] = off[k] + Len(ts[k + 1].chars)
<1>1. k + 1 \in 1 .. Len(ts) /\ k + 1 \in 0 .. Len(ts) /\ (k + 1) - 1 = k
  OBVIOUS
<1>2. off[k] \in Nat /\ off[k + 1] <= Len(d)
  BY <1>1, OffsetsRise
<1> QED BY <1>1, <1>2 DEF Cut, Lies

\* What s has from h to x is what w has from y to z.
SamePiece(s, h, x, w, y, z) == SubSeq(s, h, x) = SubSeq(w, y, z)

\* A piece of the token is a piece of the document.
LEMMA PieceAgain ==
    ASSUME NEW t, t.chars \in Texts, NEW d \in Texts, NEW o, Lies(t, d, o),
           NEW m \in Nat \ {0}, NEW n \in Int, n <= Len(t.chars), NEW y, NEW z, y = o + m, z = o + n
    PROVE  SamePiece(t.chars, m, n, d, y, z)
<1>1. PICK w : w = t.chars
  OBVIOUS
<1>2. /\ w \in Seq(Character) /\ d \in Seq(Character) /\ Len(w) \in Nat /\ Len(d) \in Nat /\ o \in Nat
      /\ o + Len(w) <= Len(d)
  BY <1>1, TextFacts DEF Texts, Lies
<1>3. PICK a, b : a = SubSeq(d, o + m, o + n) /\ b = SubSeq(w, m, n)
  OBVIOUS
<1>4. /\ a \in Seq(Character) /\ b \in Seq(Character)
      /\ Len(a) = IF m <= n THEN n - m + 1 ELSE 0
      /\ Len(b) = IF m <= n THEN n - m + 1 ELSE 0
      /\ \A i \in 1 .. n - m + 1 : a[i] = d[o + m + i - 1]
      /\ \A i \in 1 .. n - m + 1 : b[i] = w[m + i - 1]
  <2>1. \A i \in m .. n : w[i] \in Character
    BY <1>1, <1>2, ElementOfSeq
  <2>2. \A i \in o + m .. o + n : d[i] \in Character
    BY <1>1, <1>2, ElementOfSeq
  <2>3. /\ b \in Seq(Character) /\ Len(b) = IF m <= n THEN n - m + 1 ELSE 0
        /\ \A i \in 1 .. n - m + 1 : b[i] = w[m + i - 1]
    BY <1>2, <1>3, <2>1, SubSeqProperties
  <2>4. PICK h \in Int, l \in Int : h = o + m /\ l = o + n
    BY <1>2
  <2>5. a = SubSeq(d, h, l) /\ \A i \in h .. l : d[i] \in Character
    BY <1>3, <2>2, <2>4
  <2>6. /\ a \in Seq(Character) /\ Len(a) = IF h <= l THEN l - h + 1 ELSE 0
        /\ \A i \in 1 .. l - h + 1 : a[i] = d[h + i - 1]
    <3>1. \A i \in h .. l : d[i] \in Character
      BY <2>5
    <3>2. /\ SubSeq(d, h, l) \in Seq(Character)
          /\ Len(SubSeq(d, h, l)) = IF h <= l THEN l - h + 1 ELSE 0
          /\ \A i \in 1 .. l - h + 1 : SubSeq(d, h, l)[i] = d[h + i - 1]
      BY <2>4, <3>1, SubSeqProperties
    <3> QED BY <2>5, <3>2
  <2>7. l - h + 1 = n - m + 1 /\ (h <= l <=> m <= n)
    BY <1>2, <2>4
  <2> QED BY <2>3, <2>4, <2>6, <2>7
<1>5. ASSUME NEW i \in 1 .. n - m + 1 PROVE a[i] = b[i]
  <2>1. m + i - 1 \in 1 .. Len(w) /\ o + m + i - 1 = o + (m + i - 1)
    BY <1>1, <1>2
  <2>2. d[o + (m + i - 1)] = w[m + i - 1]
    BY <1>1, <2>1 DEF Lies
  <2> QED BY <1>4, <2>1, <2>2
<1>6. Len(a) = Len(b) /\ \A i \in 1 .. Len(a) : a[i] = b[i]
  BY <1>4, <1>5
<1>7. a = b
  BY <1>4, <1>6, SeqEqual
<1>8. SubSeq(d, y, z) = a
  BY <1>3
<1> QED BY <1>1, <1>3, <1>7, <1>8 DEF SamePiece
-----------------------------------------------------------------------------
(* NativeXml: how the parser stays with the document *)

\* What the whole document comes to.
Outcome(a) == IF a.ok /\ Len(a.open) = 1 THEN Filled(Flushed(a)) ELSE [a EXCEPT !.ok = FALSE]

Settled ==
    /\ Agrees(nodes, Understood, endtags = 0)
    /\ result = "parsed" => Understood.ok /\ Len(nodes) = Len(Understood.nodes)
    /\ result = "error" => ~Understood.ok

Follows ==
    Whole => /\ DOMAIN tokens = 1 .. Len(tokens) /\ Len(tokens) \in Nat
             /\ \A k \in 1 .. Len(tokens) : Good(tokens[k])
             /\ \E off :
                  /\ Cut(tokens, doc, off)
                  /\ IF result = "parsing"
                     THEN \E k \in 0 .. Len(tokens) :
                              Stands(k, tokens, doc, off, Meaning(tokens), p, frames, nodes, cur, endtags = 0)
                     ELSE Settled

\* In a call that goes on, k tokens are read.
Context(k, off, acc) ==
    /\ XmlInv /\ result = "parsing"
    /\ DOMAIN tokens = 1 .. Len(tokens) /\ Len(tokens) \in Nat
    /\ \A i \in 1 .. Len(tokens) : Good(tokens[i])
    /\ Cut(tokens, doc, off) /\ acc = Meaning(tokens) /\ k \in 0 .. Len(tokens)
    /\ Stands(k, tokens, doc, off, acc, p, frames, nodes, cur, endtags = 0)

LEMMA OutcomeIs ==
    ASSUME NEW a, AccOK(a), NEW u, u = Outcome(a)
    PROVE  /\ Grown(a, u) /\ Len(u.nodes) \in Nat /\ u.ok \in BOOLEAN
           /\ u.ok <=> a.ok /\ Len(a.open) = 1
           /\ u.ok => u = Filled(Flushed(a))
<1>1. PICK b, e : b = Flushed(a) /\ e = Filled(b)
  OBVIOUS
<1>2. AccOK(b) /\ Grown(a, b) /\ b.ok = a.ok
  BY <1>1, FlushedIs
<1>3. AccOK(e) /\ Grown(b, e) /\ e.ok = b.ok
  BY <1>1, <1>2, FilledIs
<1>4. Grown(a, e)
  BY <1>2, <1>3, GrownOn, AccountIs
<1>5. CASE a.ok /\ Len(a.open) = 1
  BY <1>1, <1>2, <1>3, <1>4, <1>5, AccountIs DEF Outcome
<1>6. CASE ~(a.ok /\ Len(a.open) = 1)
  <2>1. u = [a EXCEPT !.ok = FALSE]
    BY <1>6 DEF Outcome
  <2>2. u.ok = FALSE /\ u.nodes = a.nodes
    BY <2>1 DEF AccOK, Account
  <2>3. Len(a.nodes) \in Nat
    BY AccountIs
  <2>4. Grown(a, u)
    BY <2>2, <2>3 DEF Grown
  <2> QED BY <1>6, <2>2, <2>3, <2>4
<1> QED BY <1>5, <1>6

\* What has come to the tree is the first of what the document stands for.
LEMMA AlikeAgrees ==
    ASSUME NEW ns, NEW cu, NEW a, NEW exact, NEW u, Alike(ns, cu, a, exact), Grown(a, u),
           Len(u.nodes) \in Nat, Len(a.nodes) \in Nat
    PROVE  Agrees(ns, u, exact)
BY DEF Alike, Grown, Agrees

\* The first account that is wrong makes the document wrong.
LEMMA ReachesTheEnd ==
    ASSUME NEW k, NEW off, NEW acc, Context(k, off, acc)
    PROVE  /\ Accounts(tokens, acc)
           /\ \A j \in 0 .. Len(tokens) : AccOK(acc[j]) /\ Len(acc[j].nodes) \in Nat
           /\ \E u : /\ u = Understood /\ Len(u.nodes) \in Nat /\ u = Outcome(acc[Len(tokens)])
                     /\ \A j \in 0 .. Len(tokens) : Grown(acc[j], u)
<1>1. Len(tokens) \in Nat /\ \A i \in 1 .. Len(tokens) : Good(tokens[i])
  BY DEF Context
<1>2. Accounts(tokens, acc)
  BY <1>1, MeaningIs DEF Context
<1>3. \A j \in 0 .. Len(tokens) : AccOK(acc[j]) /\ Len(acc[j].nodes) \in Nat
  BY <1>2, AccountIs DEF Accounts
<1>4. PICK a, u : a = acc[Len(tokens)] /\ u = Outcome(a)
  OBVIOUS
<1>5. u = Understood
  BY <1>4 DEF Understood, Outcome, Context
<1>6. AccOK(a)
  BY <1>1, <1>3, <1>4
<1>7. Grown(a, u) /\ Len(u.nodes) \in Nat
  BY <1>4, <1>6, OutcomeIs
<1>8. ASSUME NEW j \in 0 .. Len(tokens) PROVE Grown(acc[j], u)
  <2>1. Grown(acc[j], a)
    BY <1>1, <1>2, <1>4, GrowsToTheEnd
  <2> QED BY <1>3, <1>6, <1>7, <2>1, GrownOn, AccountIs
<1> QED BY <1>2, <1>3, <1>4, <1>5, <1>7, <1>8

\* What is known of the token that is read.
LEMMA TheToken ==
    ASSUME NEW k, NEW off, NEW acc, Context(k, off, acc), k < Len(tokens),
           NEW a, NEW b, NEW t, NEW o, a = acc[k], b = acc[k + 1], t = tokens[k + 1], o = off[k]
    PROVE  /\ AccOK(a) /\ a.ok /\ AccOK(b) /\ b = Understand(a, t) /\ Good(t)
           /\ Lies(t, doc, o) /\ o \in Nat /\ off[k + 1] = o + Len(t.chars) /\ Len(t.chars) \in Nat
           /\ doc \in Texts /\ t.chars \in Texts
<1>1. k + 1 \in 1 .. Len(tokens) /\ k + 1 \in 0 .. Len(tokens) /\ k \in 0 .. Len(tokens)
      /\ (k + 1) - 1 = k /\ Len(tokens) \in Nat
  BY DEF Context
<1>2. Accounts(tokens, acc) /\ AccOK(a) /\ AccOK(b)
  BY <1>1, ReachesTheEnd
<1>3. b = Understand(a, t)
  BY <1>1, <1>2 DEF Accounts
<1>4. \A i \in 1 .. Len(tokens) : Good(tokens[i]) /\ tokens[i].chars \in Texts
  BY DEF Context, Good
<1>5. Cut(tokens, doc, off) /\ doc \in Texts /\ a.ok
  BY DEF Context, XmlInv, Reading, Stands
<1>6. Lies(t, doc, o) /\ off[k + 1] = o + Len(t.chars)
  BY <1>1, <1>4, <1>5, CutLies
<1>7. Len(t.chars) \in Nat /\ Good(t) /\ t.chars \in Texts
  BY <1>1, <1>4, TextFacts
<1> QED BY <1>2, <1>3, <1>5, <1>6, <1>7 DEF Lies

\* The parser goes on at another place.
LEMMA Stay ==
    ASSUME NEW k, NEW off, NEW acc, Context(k, off, acc), UNCHANGED inputs, result' = "parsing",
           NEW j \in 0 .. Len(tokens), NEW exact, exact = (endtags' = 0),
           Stands(j, tokens, doc, off, acc, p', frames', nodes', cur', exact)
    PROVE  Follows'
<1>1. PICK ts, d, at, fr, ns, cu, m :
          /\ ts = tokens /\ d = doc /\ at = p' /\ fr = frames' /\ ns = nodes' /\ cu = cur'
          /\ m = Meaning(ts)
  OBVIOUS
<1>2. tokens' = ts /\ doc' = d
  BY <1>1 DEF inputs
<1>3. Cut(ts, d, off) /\ m = acc /\ Stands(j, ts, d, off, m, at, fr, ns, cu, exact)
  BY <1>1 DEF Context
<1>4. /\ DOMAIN ts = 1 .. Len(ts) /\ Len(ts) \in Nat /\ \A i \in 1 .. Len(ts) : Good(ts[i])
      /\ j \in 0 .. Len(ts)
  BY <1>1 DEF Context
<1> QED BY <1>1, <1>2, <1>3, <1>4 DEF Follows

\* An end tag that does not match, or an element that is still open.
LEMMA Reject ==
    ASSUME NEW k, NEW off, NEW acc, Context(k, off, acc), ERROR,
           NEW a, NEW exact, exact = (endtags = 0), Alike(nodes, cur, a, exact), Len(a.nodes) \in Nat,
           Grown(a, Understood), ~Understood.ok
    PROVE  Follows'
<1>1. PICK ts, d, ns, u, e :
          /\ ts = tokens /\ d = doc /\ ns = nodes /\ u = Understood /\ e = endtags
  OBVIOUS
<1>2. tokens' = ts /\ doc' = d /\ nodes' = ns /\ endtags' = e /\ result' = "error"
  BY <1>1 DEF ERROR, inputs, tree
<1>3. Understood' = u
  <2>1. u = Outcome(Meaning(ts)[Len(ts)])
    BY <1>1 DEF Understood, Outcome
  <2>2. Understood' = Outcome(Meaning(tokens')[Len(tokens')])
    BY DEF Understood, Outcome
  <2> QED BY <1>2, <2>1, <2>2
<1>4. Agrees(ns, u, exact)
  <2>1. Len(u.nodes) \in Nat
    BY <1>1, ReachesTheEnd
  <2> QED BY <1>1, <2>1, AlikeAgrees
<1>5. Settled'
  BY <1>1, <1>2, <1>3, <1>4 DEF Settled
<1>6. /\ DOMAIN ts = 1 .. Len(ts) /\ Len(ts) \in Nat /\ \A i \in 1 .. Len(ts) : Good(ts[i])
      /\ Cut(ts, d, off)
  BY <1>1 DEF Context
<1> QED BY <1>2, <1>5, <1>6 DEF Follows

\* The last of the calls fr is f in fr2.
Changed(fr, fr2, f) ==
    /\ Len(fr) \in Nat \ {0} /\ Len(fr2) = Len(fr)
    /\ \A i \in 1 .. Len(fr) : fr2[i] = IF i = Len(fr) THEN f ELSE fr[i]

\* f is the call t with n more children.
SameCall(f, t, n) == f.parentname = t.parentname /\ f.nsubs = t.nsubs + n

LEMMA SetChanges ==
    ASSUME FramesOK, NEW f, Set(f) PROVE Changed(frames, frames', f)
<1>1. PICK S, n, fr : S = Frame \union {f} /\ n = Len(frames) /\ fr = frames
  OBVIOUS
<1>2. fr \in Seq(S) /\ n \in Nat /\ n >= 1 /\ f \in S /\ n \in 1 .. n /\ Len(fr) = n
  BY <1>1, LenProperties DEF FramesOK
<1>3. /\ Len([fr EXCEPT ![n] = f]) = n
      /\ \A i \in 1 .. n : [fr EXCEPT ![n] = f][i] = IF i = n THEN f ELSE fr[i]
  BY <1>2, ExceptSeq
<1>4. frames' = [fr EXCEPT ![n] = f]
  BY <1>1 DEF Set
<1> QED BY <1>1, <1>2, <1>3, <1>4 DEF Changed

LEMMA NothingChanges ==
    ASSUME FramesOK, UNCHANGED frames PROVE Changed(frames, frames', Top) /\ LastOf(frames) = Top
<1>1. Len(frames) \in Nat \ {0}
  BY LenProperties DEF FramesOK
<1> QED BY <1>1 DEF Changed, Top, LastOf

LEMMA CallsChange ==
    ASSUME NEW fr, NEW fr2, NEW f, Changed(fr, fr2, f), NEW open, Calls(fr, open),
           f.parentname = LastOf(fr).parentname, f.nsubs = LastOf(fr).nsubs
    PROVE  Calls(fr2, open) /\ LastOf(fr2) = f
<1>1. Len(fr) \in Nat \ {0} /\ Len(fr2) = Len(fr) /\ Len(open) = Len(fr) /\ Len(fr) \in 1 .. Len(fr)
  BY DEF Changed, Calls
<1>2. LastOf(fr2) = f
  BY <1>1 DEF Changed, LastOf
<1>3. ASSUME NEW i \in 1 .. Len(open)
      PROVE  /\ fr2[i].parentname = open[i].name /\ fr2[i].nsubs = open[i].subs
             /\ i < Len(open) => fr2[i].nbrackets = 0
  <2>1. CASE i = Len(fr)
    BY <1>1, <2>1 DEF Changed, Calls, LastOf
  <2>2. CASE i # Len(fr)
    BY <1>1, <2>2 DEF Changed, Calls
  <2> QED BY <2>1, <2>2
<1> QED BY <1>1, <1>2, <1>3 DEF Calls

LEMMA CallsAdd ==
    ASSUME NEW fr, NEW fr2, NEW f, Changed(fr, fr2, f), NEW a, NEW b, Calls(fr, a.open),
           NEW type, NEW value, NEW attribs, NEW n, Adds(a, b, type, value, attribs, n),
           SameCall(f, LastOf(fr), n)
    PROVE  Calls(fr2, b.open) /\ LastOf(fr2) = f
<1>1. Len(fr) \in Nat \ {0} /\ Len(fr2) = Len(fr) /\ Len(a.open) = Len(fr) /\ Len(fr) \in 1 .. Len(fr)
      /\ Len(b.open) = Len(fr)
  BY DEF Changed, Calls, Adds
<1>2. LastOf(fr2) = f
  BY <1>1 DEF Changed, LastOf
<1>3. ASSUME NEW i \in 1 .. Len(b.open)
      PROVE  /\ fr2[i].parentname = b.open[i].name /\ fr2[i].nsubs = b.open[i].subs
             /\ i < Len(b.open) => fr2[i].nbrackets = 0
  <2>0. /\ b.open[i].name = a.open[i].name
        /\ b.open[i].subs = IF i = Len(a.open) THEN a.open[i].subs + n ELSE a.open[i].subs
        /\ fr[i].parentname = a.open[i].name /\ fr[i].nsubs = a.open[i].subs
        /\ i < Len(a.open) => fr[i].nbrackets = 0
    BY <1>1 DEF Adds, Calls
  <2>1. CASE i = Len(fr)
    <3>1. fr2[i] = f /\ LastOf(fr) = fr[i]
      BY <1>1, <2>1 DEF Changed, LastOf
    <3>2. f.parentname = fr[i].parentname /\ f.nsubs = fr[i].nsubs + n
      BY <3>1 DEF SameCall
    <3> QED BY <1>1, <2>0, <2>1, <3>1, <3>2
  <2>2. CASE i # Len(fr)
    <3>1. fr2[i] = fr[i]
      BY <1>1, <2>2 DEF Changed
    <3> QED BY <1>1, <2>0, <2>2, <3>1
  <2> QED BY <2>1, <2>2
<1> QED BY <1>1, <1>2, <1>3 DEF Calls

\* A node comes to the tree as to the account.
LEMMA AlikeAdd ==
    ASSUME NEW ns \in Seq(XmlNode), NEW cu, NEW a, NEW exact, Alike(ns, cu, a, exact), AccOK(a),
           NEW b, NEW type, NEW value, NEW attribs, NEW n, Adds(a, b, type, value, attribs, n),
           NEW ns2, ns2 = Append(ns, [type |-> type, value |-> value, attribs |-> attribs, parent |-> cu])
    PROVE  /\ Alike(ns2, cu, b, exact) /\ Len(ns2) = Len(ns) + 1 /\ ns2[Len(ns) + 1].parent = cu
           /\ Len(b.nodes) = Len(ns) + 1
<1>1. PICK L : L = Len(ns)
  OBVIOUS
<1>2. L \in Nat /\ Len(a.nodes) = L /\ a.nodes \in Seq(XmlNode)
  BY <1>1, LenProperties, AccountIs DEF Alike
<1>3. PICK x, y, an :
          /\ x = [type |-> type, value |-> value, attribs |-> attribs, parent |-> cu]
          /\ y = [type |-> type, value |-> value, attribs |-> attribs, parent |-> TheOpen(a).node]
          /\ an = a.nodes
  OBVIOUS
<1>4. PICK S : S = XmlNode \union {x, y}
  OBVIOUS
<1>5. ns \in Seq(S) /\ an \in Seq(S) /\ x \in S /\ y \in S
  BY <1>2, <1>3, <1>4
<1>6. Len(ns2) = L + 1 /\ ns2[L + 1] = x /\ \A i \in 1 .. L : ns2[i] = ns[i]
  <2>1. ns2 = Append(ns, x)
    BY <1>3
  <2>2. /\ Len(Append(ns, x)) = L + 1 /\ Append(ns, x)[L + 1] = x
        /\ \A i \in 1 .. L : Append(ns, x)[i] = ns[i]
    BY <1>1, <1>5, AppendProperties
  <2> QED BY <2>1, <2>2
<1>7. Len(b.nodes) = L + 1 /\ b.nodes[L + 1] = y /\ \A i \in 1 .. L : b.nodes[i] = an[i]
  <2>1. b.nodes = Append(an, y)
    BY <1>3 DEF Adds
  <2>2. /\ Len(Append(an, y)) = L + 1 /\ Append(an, y)[L + 1] = y
        /\ \A i \in 1 .. L : Append(an, y)[i] = an[i]
    BY <1>2, <1>3, <1>5, AppendProperties
  <2> QED BY <2>1, <2>2
<1>8. TheOpen(b).node = TheOpen(a).node
  <2>1. Len(b.open) = Len(a.open) /\ Len(a.open) \in 1 .. Len(a.open)
    BY AccountIs DEF Adds
  <2> QED BY <2>1 DEF Adds, TheOpen
<1>9. exact => cu = TheOpen(a).node
  BY DEF Alike
<1>10. ASSUME NEW i \in 1 .. L + 1
       PROVE  /\ ns2[i].type = b.nodes[i].type /\ ns2[i].value = b.nodes[i].value
              /\ ns2[i].attribs = b.nodes[i].attribs
              /\ exact => ns2[i].parent = b.nodes[i].parent
  <2>1. CASE i = L + 1
    BY <1>3, <1>6, <1>7, <1>9, <2>1
  <2>2. CASE i # L + 1
    <3>1. i \in 1 .. L
      BY <1>2, <2>2
    <3> QED BY <1>1, <1>3, <1>6, <1>7, <3>1 DEF Alike
  <2> QED BY <2>1, <2>2
<1>11. Alike(ns2, cu, b, exact)
  BY <1>6, <1>7, <1>8, <1>9, <1>10 DEF Alike
<1>12. ns2[L + 1].parent = cu
  BY <1>3, <1>6
<1> QED BY <1>1, <1>6, <1>7, <1>11, <1>12

\* The state in which the parser is, with its token, if there is one.
LEMMA Standing ==
    ASSUME NEW k, NEW off, NEW acc, Context(k, off, acc)
    PROVE  \E exact \in BOOLEAN :
             /\ exact = (endtags = 0)
             /\ \/ Between(acc[k], off[k], p, frames, nodes, cur, exact)
                \/ /\ InText(acc[k], doc, off[k], k < Len(tokens) /\ tokens[k + 1].kind = "text",
                             p, frames, nodes, cur, exact)
                   /\ k < Len(tokens) => p <= off[k + 1]
                \/ k < Len(tokens) /\
                    Within(acc[k], tokens[k + 1], off[k], p, frames, nodes, cur, exact)
                \/ k < Len(tokens) /\
                    Waiting(acc[k + 1], tokens[k + 1], off[k], p, frames, nodes, cur, exact)
<1>1. PICK exact \in BOOLEAN : exact = (endtags = 0)
  OBVIOUS
<1>2. Stands(k, tokens, doc, off, acc, p, frames, nodes, cur, exact)
  BY <1>1 DEF Context
<1> QED BY <1>1, <1>2 DEF Stands

Outside == {"BEGIN", "CHILDS", "PCDATA", "WAIT_END"}

\* In most of its states a call is inside of a token.
LEMMA Inside ==
    ASSUME NEW k, NEW off, NEW acc, Context(k, off, acc), Top.state \notin Outside
    PROVE  /\ k < Len(tokens)
           /\ \E exact \in BOOLEAN :
                /\ exact = (endtags = 0)
                /\ Within(acc[k], tokens[k + 1], off[k], p, frames, nodes, cur, exact)
<1>1. PICK f : f = Top /\ f = LastOf(frames) /\ f.state \notin Outside
  BY DEF Top, LastOf
<1> QED BY <1>1, Standing DEF Between, InText, Waiting, Outside

\* A round that stays inside of the token.
LEMMA StayWithin ==
    ASSUME NEW k, NEW off, NEW acc, Context(k, off, acc), Top.state \notin Outside,
           UNCHANGED inputs, UNCHANGED tree, endtags' = endtags, result' = result,
           NEW t, NEW o, t = tokens[k + 1], o = off[k],
           NEW f, Changed(frames, frames', f), f.parentname = Top.parentname, f.nsubs = Top.nsubs,
           f.nbrackets = 0 \/ f.state = "DOCTYPE",
           NEW q \in 2 .. Len(t.chars), p' = o + q, Spot(f, t, q, o)
    PROVE  Follows'
<1>1. PICK exact \in BOOLEAN :
         /\ exact = (endtags = 0) /\ k < Len(tokens)
         /\ Within(acc[k], t, o, p, frames, nodes, cur, exact)
  BY Inside
<1>2. PICK fr, fr2, ns, cu, a, at : /\ fr = frames /\ fr2 = frames' /\ ns = nodes /\ cu = cur /\ a = acc[k]
                                    /\ at = o + q
  OBVIOUS
<1>3. Within(a, t, o, p, fr, ns, cu, exact) /\ Changed(fr, fr2, f)
  BY <1>1, <1>2
<1>4. Calls(fr, Flushed(a).open) /\ Alike(ns, cu, Flushed(a), exact) /\ t.kind # "text"
  BY <1>3 DEF Within
<1>5. Top = LastOf(fr)
  BY <1>2 DEF Top, LastOf
<1>6. Calls(fr2, Flushed(a).open) /\ LastOf(fr2) = f
  BY <1>3, <1>4, <1>5, CallsChange
<1>7. o \in Nat /\ Len(t.chars) \in Nat
  BY <1>1, TheToken
<1>8. at \in o + 2 .. o + Len(t.chars) /\ at - o = q
  BY <1>2, <1>7
<1>9. Within(a, t, o, at, fr2, ns, cu, exact)
  BY <1>4, <1>6, <1>8 DEF Within
<1>10. Stands(k, tokens, doc, off, acc, at, fr2, ns, cu, exact)
  <2>1. acc[k].ok
    BY DEF Context, Stands
  <2> QED BY <1>1, <1>2, <1>9, <2>1 DEF Stands
<1>11. nodes' = ns /\ cur' = cu /\ frames' = fr2 /\ p' = at /\ exact = (endtags' = 0) /\
        result' = "parsing"
  BY <1>1, <1>2 DEF tree, Context
<1>12. k \in 0 .. Len(tokens)
  BY DEF Context
<1> QED BY <1>10, <1>11, <1>12, Stay

\* The round that ends the token, which adds no node or one.
LEMMA StayBehind ==
    ASSUME NEW k, NEW off, NEW acc, Context(k, off, acc), k < Len(tokens),
           UNCHANGED inputs, result' = result,
           NEW b, b = acc[k + 1], b.ok, b.text = << >>,
           NEW exact \in BOOLEAN, exact = (endtags' = 0),
           p' = off[k + 1] + 1,
           NEW f, f = LastOf(frames'), f.state = "BEGIN", f.nbrackets = 0,
           Calls(frames', b.open), Alike(nodes', cur', b, exact)
    PROVE  Follows'
<1>1. k + 1 \in 0 .. Len(tokens) /\ result' = "parsing"
  BY DEF Context
<1>2. PICK fr2, ns, cu, at, o : fr2 = frames' /\ ns = nodes' /\ cu = cur' /\ at = p' /\ o = off[k + 1]
  OBVIOUS
<1>3. Between(b, o, at, fr2, ns, cu, exact)
  BY <1>2 DEF Between
<1>4. Stands(k + 1, tokens, doc, off, acc, at, fr2, ns, cu, exact)
  BY <1>2, <1>3 DEF Stands
<1> QED BY <1>1, <1>2, <1>4, Stay
-----------------------------------------------------------------------------
(* NativeXml: the characters of a token *)

Markups == {"<", ">", "/", "=", "!", "?", "\"", "'"}

LEMMA CharsDiffer ==
    /\ \A x \in Spaces : x \notin NameChars /\ x \notin Markups
    /\ \A x \in NameChars : x \notin Spaces /\ x \notin Markups
<1>1. /\ (NameChars \union Spaces) \intersect Markups = {}
      /\ NameChars \intersect Spaces = {}
  BY TokenAssumption DEF Markups
<1> QED BY <1>1

LEMMA CharIs ==
    ASSUME NEW t, NEW o, Lies(t, doc, o), t.chars \in Texts, NEW q \in 1 .. Len(t.chars)
    PROVE  CharAt(o + q) = t.chars[q] /\ t.chars[q] # NUL
<1>1. t.chars[q] \in Character /\ Len(t.chars) \in Nat
  BY TextFacts
<1>2. o + q <= Len(doc)
  BY <1>1 DEF Lies
<1>3. doc[o + q] = t.chars[q]
  BY DEF Lies
<1> QED BY <1>1, <1>2, <1>3, NativeXmlAssumption DEF CharAt

\* A word that ends in the token is compared with the characters of the token.
LEMMA ReadsIs ==
    ASSUME NEW t, NEW o, Lies(t, doc, o), t.chars \in Texts, NEW n \in Nat,
           NEW m \in Nat \ {0}, m + n - 1 <= Len(t.chars), NEW word, DOMAIN word = 1 .. n,
           NEW at, at = o + m
    PROVE  Reads(at, word) <=> \A x \in 1 .. n : t.chars[m + x - 1] \in word[x]
<1>1. ASSUME NEW x \in 1 .. n PROVE CharAt(at + x - 1) = t.chars[m + x - 1]
  <2>1. o \in Nat /\ Len(t.chars) \in Nat
    BY TextFacts DEF Lies
  <2>2. m + x - 1 \in 1 .. Len(t.chars) /\ at + x - 1 = o + (m + x - 1)
    BY <2>1
  <2> QED BY <2>2, CharIs
<1> QED BY <1>1 DEF Reads

\* Where the parser is in the token.
LEMMA Here ==
    ASSUME NEW k, NEW off, NEW acc, Context(k, off, acc), Top.state \notin Outside
    PROVE  \E t, o, q :
             /\ t = tokens[k + 1] /\ o = off[k] /\ p = o + q /\ Spot(Top, t, q, o)
             /\ q \in 2 .. Len(t.chars) /\ Len(t.chars) \in Nat /\ c = t.chars[q] /\ c # NUL
             /\ Lies(t, doc, o) /\ Good(t) /\ t.chars \in Texts /\ o \in Nat /\ t.kind # "text"
             /\ Top.nbrackets = 0 \/ Top.state = "DOCTYPE"
<1>1. PICK exact \in BOOLEAN :
         k < Len(tokens) /\ Within(acc[k], tokens[k + 1], off[k], p, frames, nodes, cur, exact)
  BY Inside
<1>2. PICK t, o, q : t = tokens[k + 1] /\ o = off[k] /\ q = p - o
  OBVIOUS
<1>3. /\ Lies(t, doc, o) /\ o \in Nat /\ Len(t.chars) \in Nat /\ Good(t) /\ t.chars \in Texts
  BY <1>1, <1>2, TheToken
<1>4. p \in Nat /\ p \in o + 2 .. o + Len(t.chars) /\ Spot(Top, t, q, o)
      /\ (Top.nbrackets = 0 \/ Top.state = "DOCTYPE") /\ t.kind # "text"
  BY <1>1, <1>2, Present DEF Within, Context, LastOf, Top
<1>5. q \in 2 .. Len(t.chars) /\ p = o + q /\ q \in 1 .. Len(t.chars)
  <2>1. PICK l : l = Len(t.chars) /\ l \in Nat /\ p \in o + 2 .. o + l /\ p \in Nat /\ o \in Nat
    BY <1>3, <1>4
  <2>2. q = p - o
    BY <1>2
  <2>3. q \in Int /\ p = o + q /\ o + 2 <= p /\ p <= o + l
    BY <2>1, <2>2
  <2>4. q \in 2 .. l /\ p = o + q /\ q \in 1 .. l
    BY <2>1, <2>3
  <2> QED BY <2>1, <2>4
<1>6. c = t.chars[q] /\ c # NUL
  BY <1>3, <1>5, CharIs DEF c
<1> QED BY <1>2, <1>3, <1>4, <1>5, <1>6

\* Behind "<" and the spaces there is no space.
LEMMA MarkupBegins ==
    ASSUME NEW t, Good(t), t.kind # "text", NEW m \in 2 .. Len(t.chars), Markup(t, m)
    PROVE  t.chars[m] \notin Spaces
<1>1. PICK w : w = t.chars
  OBVIOUS
<1>2. CASE t.kind \in {"open", "empty"}
  <2>1. PICK at \in [0 .. Len(t.attribs) -> m .. Len(w)] : IsTag(t, m, at, TagEnd(t))
    BY <1>1, <1>2, MarkupIs
  <2>2. 0 \in 0 .. Len(t.attribs)
    BY <1>2, LenProperties DEF Good
  <2>3. at[0] \in m .. Len(w) /\ Named(w, m, at[0])
    BY <1>1, <2>1, <2>2 DEF IsTag
  <2>4. m \in m .. at[0] - 1
    BY <2>3 DEF Named
  <2>5. w[m] \in NameChars
    BY <2>3, <2>4 DEF Named, is_valid_char
  <2> QED BY <1>1, <2>5, CharsDiffer
<1>3. CASE t.kind = "close"
  <2>1. w[m] = "/"
    BY <1>1, <1>3, MarkupIs DEF IsEndTag
  <2> QED BY <1>1, <2>1, CharsDiffer DEF Markups
<1>4. CASE t.kind = "other"
  <2>1. IsOther(t, m) /\ t.type \in {"CData", "Comment", "ProcessingInstruction", "DocType"}
    BY <1>4, MarkupIs DEF Good
  <2>2. w[m] \in {"!", "?"}
    BY <1>1, <2>1 DEF IsOther
  <2> QED BY <1>1, <2>2, CharsDiffer DEF Markups
<1> QED BY <1>2, <1>3, <1>4 DEF Good

\* What IsTag says.
TagFacts(t, m, at, w, n, last) ==
    /\ n \in Nat /\ \A i \in 0 .. n : at[i] \in m .. Len(w)
    /\ last = IF t.kind = "open" THEN Len(w) ELSE Len(w) - 1
    /\ Named(w, m, at[0]) /\ ~is_valid_char(w[at[0]]) /\ t.name = SubSeq(w, m, at[0] - 1)
    /\ \A i \in 1 .. n : \E x, y, z, q \in at[i - 1] .. at[i] :
           Attribute(w, t.attribs[i], at[i - 1], x, y, z, q, at[i])
    /\ \A i, j \in 1 .. n : t.attribs[i].name = t.attribs[j].name => i = j
    /\ Blank(w, at[n], last) /\ at[n] <= last
    /\ w[last] = IF t.kind = "open" THEN ">" ELSE "/"
    /\ w[Len(w)] = ">"

LEMMA TagIs ==
    ASSUME NEW t, Good(t), t.kind \in {"open", "empty"}, NEW m \in 2 .. Len(t.chars),
           NEW at \in [0 .. Len(t.attribs) -> m .. Len(t.chars)], IsTag(t, m, at, TagEnd(t)),
           NEW w, w = t.chars, NEW n, n = Len(t.attribs), NEW last, last = Len(w) - Len(TagEnd(t)) + 1
    PROVE  TagFacts(t, m, at, w, n, last)
<1>1. n \in Nat /\ Len(w) \in Nat
  BY LenProperties, TextFacts DEF Good
<1>2. \A i \in 0 .. n : at[i] \in m .. Len(w)
  OBVIOUS
<1>3. PICK end : end = TagEnd(t)
  OBVIOUS
<1>4. /\ t.kind = "open" => Len(end) = 1 /\ DOMAIN end = 1 .. 1 /\ end[1] = ">"
      /\ t.kind = "empty" => Len(end) = 2 /\ DOMAIN end = 1 .. 2 /\ end[1] = "/" /\ end[2] = ">"
  BY <1>3 DEF TagEnd
<1>5. last = IF t.kind = "open" THEN Len(w) ELSE Len(w) - 1
  <2>1. PICK L, M : L = Len(w) /\ M = Len(end) /\ last = L - M + 1 /\ L \in Nat
    BY <1>1, <1>3
  <2>2. (t.kind = "open" => M = 1) /\ (t.kind = "empty" => M = 2)
    BY <1>4, <2>1
  <2>3. L - 1 + 1 = L /\ L - 2 + 1 = L - 1
    BY <2>1
  <2>4. ASSUME t.kind = "open" PROVE last = L
    <3>1. last = L - 1 + 1
      BY <2>1, <2>2, <2>4
    <3> QED BY <2>3, <3>1
  <2>5. ASSUME t.kind = "empty" PROVE last = L - 1
    <3>1. last = L - 2 + 1
      BY <2>1, <2>2, <2>5
    <3> QED BY <2>3, <3>1
  <2> QED BY <2>1, <2>4, <2>5
<1>6. Spells(w, last, end) /\ Blank(w, at[n], last)
  BY <1>3 DEF IsTag
<1>7. w[last] = (IF t.kind = "open" THEN ">" ELSE "/") /\ w[Len(w)] = ">"
  <2>1. CASE t.kind = "open"
    <3>1. w[last + 1 - 1] = ">" /\ last = Len(w)
      BY <1>4, <1>5, <1>6, <2>1 DEF Spells
    <3> QED BY <1>1, <2>1, <3>1
  <2>2. CASE t.kind = "empty"
    <3>0. DOMAIN end = 1 .. 2 /\ end[1] = "/" /\ end[2] = ">" /\ 1 \in 1 .. 2 /\ 2 \in 1 .. 2
      BY <1>4, <2>2
    <3>1. w[last + 1 - 1] = "/" /\ w[last + 2 - 1] = ">" /\ last = Len(w) - 1
      BY <1>5, <1>6, <2>2, <3>0 DEF Spells
    <3>2. last + 1 - 1 = last /\ last + 2 - 1 = Len(w)
      BY <1>1, <3>1
    <3> QED BY <2>2, <3>1, <3>2
  <2> QED BY <2>1, <2>2
<1>8. at[n] <= last
  BY <1>6 DEF Blank
<1>9. /\ Named(w, m, at[0]) /\ ~is_valid_char(w[at[0]]) /\ t.name = SubSeq(w, m, at[0] - 1)
      /\ \A i \in 1 .. n : \E x, y, z, q \in at[i - 1] .. at[i] :
             Attribute(w, t.attribs[i], at[i - 1], x, y, z, q, at[i])
      /\ \A i, j \in 1 .. n : t.attribs[i].name = t.attribs[j].name => i = j
  BY DEF IsTag
<1> QED BY <1>1, <1>2, <1>5, <1>6, <1>7, <1>8, <1>9 DEF TagFacts

TagStates == {"TAG_NAME", "BODY", "ATTRIB_NAME", "EQUALS", "ATTVAL_BEGIN", "ATTRIB_VAL"}
EndStates == {"CLOSE", "WAIT_END_RET"}
OtherStates == {"CDATA", "COMMENT", "HEADER", "DOCTYPE"}

StartSpot(f, t, m, q) ==
    /\ m \in 2 .. Len(t.chars) /\ Blank(t.chars, 2, m) /\ Markup(t, m)
    /\ \/ Spaced(f, "BEGIN_NODE") /\ q \in 2 .. m
       \/ f.state = "BEGIN_NODE" /\ q = m

\* The tag t, with its places.
Tagged(t, m, at) ==
    /\ m \in 2 .. Len(t.chars) /\ Blank(t.chars, 2, m) /\ t.kind \in {"open", "empty"}
    /\ at \in [0 .. Len(t.attribs) -> m .. Len(t.chars)] /\ IsTag(t, m, at, TagEnd(t))

Ended(t, m, e) ==
    /\ m \in 2 .. Len(t.chars) /\ Blank(t.chars, 2, m) /\ t.kind = "close"
    /\ e \in m .. Len(t.chars) /\ IsEndTag(t, m, e)

Sectioned(t, m) == m \in 2 .. Len(t.chars) /\ Blank(t.chars, 2, m) /\ t.kind = "other" /\ IsOther(t, m)

LEMMA SpotWhen ==
    ASSUME NEW f, NEW t, NEW q, NEW o
    PROVE  /\ \A m : StartSpot(f, t, m, q) => Spot(f, t, q, o)
           /\ \A m, at : Tagged(t, m, at) /\ InTag(f, t, m, at, q, o) => Spot(f, t, q, o)
           /\ \A m, e : Ended(t, m, e) /\ InEndTag(f, t, m, e, q, o) => Spot(f, t, q, o)
           /\ \A m : Sectioned(t, m) /\ InOther(f, t, m, q, o) => Spot(f, t, q, o)
<1>1. ASSUME NEW m, StartSpot(f, t, m, q) PROVE Spot(f, t, q, o)
  BY <1>1 DEF StartSpot, Spot
<1>2. ASSUME NEW m, NEW at, Tagged(t, m, at), InTag(f, t, m, at, q, o) PROVE Spot(f, t, q, o)
  BY <1>2 DEF Tagged, Spot
<1>3. ASSUME NEW m, NEW e, Ended(t, m, e), InEndTag(f, t, m, e, q, o) PROVE Spot(f, t, q, o)
  BY <1>3 DEF Ended, Spot
<1>4. ASSUME NEW m, Sectioned(t, m), InOther(f, t, m, q, o) PROVE Spot(f, t, q, o)
  BY <1>4 DEF Sectioned, Spot
<1> QED BY <1>1, <1>2, <1>3, <1>4

LEMMA SpotIs ==
    ASSUME NEW f, NEW t, NEW q, NEW o, Spot(f, t, q, o)
    PROVE  /\ ToBe(f) \in {"BEGIN_NODE"} \union TagStates \union EndStates \union OtherStates
           /\ ToBe(f) = "BEGIN_NODE" => \E m : StartSpot(f, t, m, q)
           /\ ToBe(f) \in TagStates => \E m, at : Tagged(t, m, at) /\ InTag(f, t, m, at, q, o)
           /\ ToBe(f) \in EndStates => \E m, e : Ended(t, m, e) /\ InEndTag(f, t, m, e, q, o)
           /\ ToBe(f) \in OtherStates =>
                  f.state = ToBe(f) /\ \E m : Sectioned(t, m) /\ InOther(f, t, m, q, o)
<1>1. PICK m \in 2 .. Len(t.chars) :
        /\ Blank(t.chars, 2, m)
        /\ \/ StartSpot(f, t, m, q)
           \/ \E at : Tagged(t, m, at) /\ InTag(f, t, m, at, q, o)
           \/ \E e : Ended(t, m, e) /\ InEndTag(f, t, m, e, q, o)
           \/ Sectioned(t, m) /\ InOther(f, t, m, q, o)
  BY DEF Spot, StartSpot, Tagged, Ended, Sectioned
<1>2. CASE StartSpot(f, t, m, q)
  <2>1. ToBe(f) = "BEGIN_NODE"
    BY <1>2 DEF StartSpot, Spaced, ToBe
  <2> QED BY <1>2, <2>1 DEF TagStates, EndStates, OtherStates
<1>3. CASE \E at : Tagged(t, m, at) /\ InTag(f, t, m, at, q, o)
  <2>1. PICK at : Tagged(t, m, at) /\ InTag(f, t, m, at, q, o)
    BY <1>3
  <2>2. ToBe(f) \in TagStates
    <3>1. CASE f.state = "TAG_NAME"
      BY <3>1 DEF ToBe, TagStates
    <3>2. CASE \E i \in 0 .. Len(t.attribs) : InBody(f, t, at, i, q, o)
      <4>1. PICK i \in 0 .. Len(t.attribs) : InBody(f, t, at, i, q, o)
        BY <3>2
      <4>2. CASE i = Len(t.attribs)
        <5>1. Spaced(f, "BODY") \/ f.state = "BODY"
          BY <4>1, <4>2 DEF InBody
        <5> QED BY <5>1 DEF Spaced, ToBe, TagStates
      <4>3. CASE i < Len(t.attribs)
        <5>1. \E b, x, y, z, v, to : InAttrib(f, t.chars, b, x, y, z, v, to, q, o)
          BY <4>1, <4>3 DEF InBody
        <5> QED BY <5>1 DEF InAttrib, Spaced, ToBe, TagStates
      <4>4. i < Len(t.attribs) \/ i = Len(t.attribs)
        OBVIOUS
      <4> QED BY <4>2, <4>3, <4>4
    <3> QED BY <2>1, <3>1, <3>2 DEF InTag
  <2> QED BY <2>1, <2>2 DEF TagStates, EndStates, OtherStates
<1>4. CASE \E e : Ended(t, m, e) /\ InEndTag(f, t, m, e, q, o)
  <2>1. ToBe(f) \in EndStates
    BY <1>4 DEF InEndTag, Spaced, ToBe, EndStates
  <2> QED BY <1>4, <2>1 DEF TagStates, EndStates, OtherStates
<1>5. CASE Sectioned(t, m) /\ InOther(f, t, m, q, o)
  <2>1. ToBe(f) \in OtherStates /\ f.state = ToBe(f)
    BY <1>5 DEF InOther, ToBe, OtherStates
  <2> QED BY <1>5, <2>1 DEF TagStates, EndStates, OtherStates
<1> QED BY <1>1, <1>2, <1>3, <1>4, <1>5

\* The name is the tag's first; behind it the parser is behind i attributes.
LEMMA BodyIs ==
    ASSUME NEW f, NEW t, NEW m, NEW at, NEW q, NEW o, InTag(f, t, m, at, q, o)
    PROVE  /\ f.state = "TAG_NAME" => f.start = o + m /\ q \in m .. at[0]
           /\ f.state # "TAG_NAME" => \E i \in 0 .. Len(t.attribs) : InBody(f, t, at, i, q, o)
           /\ \A i \in 0 .. Len(t.attribs) : InBody(f, t, at, i, q, o) => f.state # "TAG_NAME"
<1>1. ASSUME NEW i \in 0 .. Len(t.attribs), InBody(f, t, at, i, q, o) PROVE f.state # "TAG_NAME"
  <2>1. CASE i = Len(t.attribs)
    BY <1>1, <2>1 DEF InBody, Spaced
  <2>2. CASE i < Len(t.attribs)
    <3>1. \E b, x, y, z, v, to : InAttrib(f, t.chars, b, x, y, z, v, to, q, o)
      BY <1>1, <2>2 DEF InBody
    <3> QED BY <3>1 DEF InAttrib, Spaced
  <2> QED BY <2>1, <2>2
<1> QED BY <1>1 DEF InTag

\* f is g but for its state.
SameBut(f, g) ==
    /\ f.start = g.start /\ f.nodename = g.nodename /\ f.aname = g.aname
    /\ f.attribs = g.attribs /\ f.nbrackets = g.nbrackets /\ f.parentname = g.parentname
    /\ f.nsubs = g.nsubs

\* An attribute and what is between its parts.
AttributeFacts(w, a, from, x, y, z, v, to) ==
    /\ x \in Nat /\ y \in Nat /\ z \in Nat /\ v \in Nat
    /\ from <= x /\ x < y /\ y <= z /\ z + 1 <= v /\ v < to - 1
    /\ \A i \in from .. x - 1 : w[i] \in Spaces
    /\ \A i \in x .. y - 1 : w[i] \in NameChars
    /\ w[x] \notin Spaces /\ w[x] \in NameChars /\ w[y] \notin NameChars
    /\ \A i \in y .. z - 1 : w[i] \in Spaces
    /\ w[z] = "=" /\ w[z] \notin Spaces
    /\ \A i \in z + 1 .. v - 1 : w[i] \in Spaces
    /\ w[v] \in {"\"", "'"} /\ w[v] \notin Spaces
    /\ w[to - 1] = w[v] /\ \A i \in v + 1 .. to - 2 : w[i] # w[v]
    /\ a.name = SubSeq(w, x, y - 1) /\ a.value = SubSeq(w, v + 1, to - 2)

LEMMA AttributeIs ==
    ASSUME NEW w, NEW a, NEW from \in Nat, NEW to \in Nat, from <= to,
           NEW x \in from .. to, NEW y \in from .. to, NEW z \in from .. to, NEW v \in from .. to,
           Attribute(w, a, from, x, y, z, v, to)
    PROVE  AttributeFacts(w, a, from, x, y, z, v, to)
<1>1. /\ from <= x /\ x < y /\ y <= z /\ z + 1 <= v /\ v < to - 1
      /\ \A i \in from .. x - 1 : w[i] \in Spaces
      /\ \A i \in x .. y - 1 : w[i] \in NameChars
      /\ \A i \in y .. z - 1 : w[i] \in Spaces
      /\ w[z] = "=" /\ w[v] \in {"\"", "'"}
      /\ \A i \in z + 1 .. v - 1 : w[i] \in Spaces
  BY DEF Attribute, Blank, Named, is_valid_char
<1>2. w[to - 1] = w[v] /\ (\A i \in v + 1 .. to - 2 : w[i] # w[v])
      /\ a.name = SubSeq(w, x, y - 1) /\ a.value = SubSeq(w, v + 1, to - 2)
  BY DEF Attribute
<1>0. x \in Nat /\ y \in Nat /\ z \in Nat /\ v \in Nat
  OBVIOUS
<1>3. w[x] \in NameChars
  <2>0. x < y
    BY <1>1
  <2>1. x \in x .. y - 1
    BY <1>0, <2>0
  <2> QED BY <1>1, <2>1
<1>4. w[y] \notin NameChars
  <2>1. CASE y = z
    BY <1>1, <2>1, CharsDiffer DEF Markups
  <2>2. CASE y # z
    <3>0. y <= z
      BY <1>1
    <3>1. y \in y .. z - 1
      BY <1>0, <2>2, <3>0
    <3> QED BY <1>1, <3>1, CharsDiffer
  <2> QED BY <2>1, <2>2
<1>5. w[x] \notin Spaces /\ w[z] \notin Spaces /\ w[v] \notin Spaces
  BY <1>1, <1>3, CharsDiffer DEF Markups
<1> QED BY <1>0, <1>1, <1>2, <1>3, <1>4, <1>5 DEF AttributeFacts

\* The conclusion of what follows: a space is left behind, or the spaces are.
SpaceLeft(f, t, q, o) ==
    /\ t.chars[q] \in Spaces => q + 1 \in 2 .. Len(t.chars) /\ Spot(f, t, q + 1, o)
    /\ t.chars[q] \notin Spaces => \A g : g.state = f.next /\ SameBut(g, f) => Spot(g, t, q, o)

LEMMA SpacedStart ==
    ASSUME NEW f, NEW t, NEW q, NEW o, NEW m, StartSpot(f, t, m, q), f.state = "IGNORE_SPACES",
           Good(t), t.kind # "text", q \in 2 .. Len(t.chars), Len(t.chars) \in Nat
    PROVE  SpaceLeft(f, t, q, o)
<1>1. m \in 2 .. Len(t.chars) /\ Blank(t.chars, 2, m) /\ Markup(t, m) /\ q \in 2 .. m /\
       f.next = "BEGIN_NODE"
  BY DEF StartSpot, Spaced
<1>2. t.chars[m] \notin Spaces
  BY <1>1, MarkupBegins
<1>3. CASE q = m
  <2>1. ASSUME NEW g, g.state = f.next, SameBut(g, f) PROVE StartSpot(g, t, m, q)
    BY <1>1, <1>3, <2>1 DEF StartSpot
  <2> QED BY <1>2, <1>3, <2>1, SpotWhen DEF SpaceLeft
<1>4. CASE q # m
  <2>1. q \in 2 .. m - 1 /\ q + 1 \in 2 .. m /\ q + 1 \in 2 .. Len(t.chars)
    BY <1>1, <1>4
  <2>2. t.chars[q] \in Spaces
    BY <1>1, <2>1 DEF Blank
  <2>3. StartSpot(f, t, m, q + 1)
    BY <1>1, <2>1 DEF StartSpot, Spaced
  <2> QED BY <2>1, <2>2, <2>3, SpotWhen DEF SpaceLeft
<1> QED BY <1>3, <1>4

LEMMA SpacedEnd ==
    ASSUME NEW f, NEW t, NEW q, NEW o, NEW m, NEW e, Ended(t, m, e), InEndTag(f, t, m, e, q, o),
           f.state = "IGNORE_SPACES", q \in 2 .. Len(t.chars), Len(t.chars) \in Nat
    PROVE  SpaceLeft(f, t, q, o)
<1>1. PICK w : w = t.chars
  OBVIOUS
<1>2. /\ m \in 2 .. Len(w) /\ e \in m .. Len(w) /\ Named(w, m + 1, e) /\ Blank(w, e, Len(w)) /\
          w[Len(w)] = ">"
  BY <1>1 DEF Ended, IsEndTag
<1>3. CASE f.next = "CLOSE"
  <2>1. q = m + 1 /\ f.start = o + m + 1
    BY <1>3 DEF InEndTag, Spaced
  <2>2. q \in m + 1 .. e - 1 /\ q \in m + 1 .. e
    BY <1>1, <1>2, <2>1 DEF Named
  <2>3. w[q] \in NameChars
    BY <1>2, <2>2 DEF Named, is_valid_char
  <2>4. ASSUME NEW g, g.state = f.next, SameBut(g, f) PROVE InEndTag(g, t, m, e, q, o)
    BY <1>3, <2>1, <2>2, <2>4 DEF InEndTag, SameBut
  <2> QED BY <1>1, <2>3, <2>4, CharsDiffer, SpotWhen DEF SpaceLeft
<1>4. CASE f.next # "CLOSE"
  <2>1. /\ f.parentname # NoName /\ SameName(t.name, f.parentname)
        /\ f.next = "WAIT_END_RET" /\ q \in e .. Len(w)
    BY <1>1, <1>4 DEF InEndTag, Spaced
  <2>2. CASE q = Len(w)
    <3>1. w[q] \notin Spaces
      BY <1>2, <2>2, CharsDiffer DEF Markups
    <3>2. ASSUME NEW g, g.state = f.next, SameBut(g, f) PROVE InEndTag(g, t, m, e, q, o)
      BY <1>1, <2>1, <2>2, <3>2 DEF InEndTag, SameBut
    <3> QED BY <1>1, <3>1, <3>2, SpotWhen DEF SpaceLeft
  <2>3. CASE q # Len(w)
    <3>1. q \in e .. Len(w) - 1 /\ q + 1 \in e .. Len(w) /\ q + 1 \in 2 .. Len(w)
      BY <1>1, <1>2, <2>1, <2>3
    <3>2. w[q] \in Spaces
      BY <1>2, <3>1 DEF Blank
    <3>3. InEndTag(f, t, m, e, q + 1, o)
      BY <1>1, <2>1, <3>1 DEF InEndTag, Spaced
    <3> QED BY <1>1, <3>1, <3>2, <3>3, SpotWhen DEF SpaceLeft
  <2> QED BY <2>2, <2>3
<1> QED BY <1>3, <1>4

\* What a place behind i attributes needs but for the place itself.
Behind(f, t, at, i, q) ==
    /\ f.nodename = t.name /\ Len(f.attribs) = i /\ q >= at[i]
    /\ \A j \in 1 .. i : f.attribs[j] = t.attribs[j]

LEMMA BodyWhen ==
    ASSUME NEW f, NEW t, NEW at, NEW i, NEW q, NEW o
    PROVE  /\ /\ Behind(f, t, at, i, q) /\ i = Len(t.attribs)
              /\ \/ Spaced(f, "BODY") /\ q <= Len(t.chars) - Len(TagEnd(t)) + 1
                 \/ f.state = "BODY" /\ q = Len(t.chars) - Len(TagEnd(t)) + 1
              => InBody(f, t, at, i, q, o)
           /\ \A x, y, z, v \in at[i] .. at[i + 1] :
                 /\ Behind(f, t, at, i, q) /\ i # Len(t.attribs)
                 /\ Attribute(t.chars, t.attribs[i + 1], at[i], x, y, z, v, at[i + 1])
                 /\ InAttrib(f, t.chars, t.attribs[i + 1], x, y, z, v, at[i + 1], q, o)
                 => InBody(f, t, at, i, q, o)
           /\ InBody(f, t, at, i, q, o) => Behind(f, t, at, i, q)
BY DEF Behind, InBody

LEMMA SpacedTag ==
    ASSUME NEW f, NEW t, NEW q, NEW o, NEW m, NEW at, Tagged(t, m, at), InTag(f, t, m, at, q, o),
           f.state = "IGNORE_SPACES", Good(t), q \in 2 .. Len(t.chars), Len(t.chars) \in Nat
    PROVE  SpaceLeft(f, t, q, o)
<1>1. PICK w, n, last : w = t.chars /\ n = Len(t.attribs) /\ last = Len(w) - Len(TagEnd(t)) + 1
  OBVIOUS
<1>2. /\ n \in Nat /\ \A i \in 0 .. n : at[i] \in m .. Len(w)
      /\ last \in Int /\ last <= Len(w) /\ w[last] \in {">", "/"} /\ at[n] <= last /\
          Blank(w, at[n], last)
      /\ m \in 2 .. Len(w) /\ Len(w) \in Nat
  <2>1. /\ t.kind \in {"open", "empty"} /\ m \in 2 .. Len(t.chars)
        /\ at \in [0 .. Len(t.attribs) -> m .. Len(t.chars)] /\ IsTag(t, m, at, TagEnd(t))
    BY DEF Tagged
  <2>2. /\ n \in Nat /\ \A i \in 0 .. n : at[i] \in m .. Len(w)
        /\ last = IF t.kind = "open" THEN Len(w) ELSE Len(w) - 1
        /\ Blank(w, at[n], last) /\ at[n] <= last
        /\ w[last] = IF t.kind = "open" THEN ">" ELSE "/"
    <3>1. TagFacts(t, m, at, w, n, last)
      BY <1>1, <2>1, TagIs
    <3> QED BY <3>1 DEF TagFacts
  <2>3. w[last] \in {">", "/"} /\ last \in {Len(w), Len(w) - 1}
    BY <2>2
  <2>4. last \in Int /\ last <= Len(w) /\ Len(w) \in Nat
    BY <1>1, <2>3
  <2> QED BY <1>1, <2>1, <2>2, <2>3, <2>4
<1>3. PICK i \in 0 .. n : InBody(f, t, at, i, q, o)
  BY <1>1, BodyIs
<1>4. Behind(f, t, at, i, q) /\ at[i] \in m .. Len(w) /\ q >= at[i] /\ i \in 0 .. Len(t.attribs)
  BY <1>1, <1>2, <1>3, BodyWhen DEF Behind
<1>5. ASSUME NEW g, NEW r, InBody(g, t, at, i, r, o) PROVE Spot(g, t, r, o)
  <2>1. InTag(g, t, m, at, r, o)
    BY <1>4, <1>5 DEF InTag
  <2> QED BY <2>1, SpotWhen
<1>6. /\ Behind(f, t, at, i, q + 1)
      /\ \A g : SameBut(g, f) => Behind(g, t, at, i, q)
  BY <1>2, <1>4 DEF Behind, SameBut
<1>7. CASE i = n
  <2>1. f.next = "BODY" /\ q <= last
    BY <1>1, <1>3, <1>7 DEF InBody, Spaced
  <2>2. CASE q = last
    <3>1. w[q] \notin Spaces
      BY <1>2, <2>2, CharsDiffer DEF Markups
    <3>2. ASSUME NEW g, g.state = f.next, SameBut(g, f) PROVE Spot(g, t, q, o)
      <4>1. InBody(g, t, at, i, q, o)
        BY <1>1, <1>6, <1>7, <2>1, <2>2, <3>2, BodyWhen
      <4> QED BY <1>5, <4>1
    <3> QED BY <1>1, <3>1, <3>2 DEF SpaceLeft
  <2>3. CASE q # last
    <3>1. q \in at[n] .. last - 1 /\ q + 1 <= last /\ q + 1 \in 2 .. Len(w)
      <4>1. q \in Int /\ q >= at[n] /\ at[n] \in m .. Len(w) /\ q <= last /\ q # last
            /\ last \in Int /\ last <= Len(w) /\ Len(w) \in Nat /\ m \in 2 .. Len(w)
        BY <1>2, <1>4, <1>7, <2>1, <2>3
      <4>2. q < last /\ q + 1 <= last /\ q + 1 \in 2 .. Len(w)
        BY <4>1
      <4> QED BY <4>1, <4>2
    <3>2. w[q] \in Spaces
      BY <1>2, <3>1 DEF Blank
    <3>3. InBody(f, t, at, i, q + 1, o)
      BY <1>1, <1>6, <1>7, <2>1, <3>1, BodyWhen DEF Spaced
    <3> QED BY <1>1, <1>5, <3>1, <3>2, <3>3 DEF SpaceLeft
  <2> QED BY <2>2, <2>3
<1>8. CASE i # n
  <2>1. i + 1 \in 0 .. n /\ i < Len(t.attribs)
    BY <1>1, <1>2, <1>8
  <2>2. PICK b, from, to : b = t.attribs[i + 1] /\ from = at[i] /\ to = at[i + 1]
    OBVIOUS
  <2>3. from \in Nat /\ to \in Nat /\ to <= Len(w) /\ from >= m
    BY <1>2, <1>4, <2>1, <2>2
  <2>4. PICK x \in from .. to, y \in from .. to, z \in from .. to, v \in from .. to :
           Attribute(w, b, from, x, y, z, v, to) /\ InAttrib(f, w, b, x, y, z, v, to, q, o)
    BY <1>1, <1>3, <2>1, <2>2 DEF InBody
  <2>5. from <= to
    BY <2>3, <2>4
  <2>6. /\ from <= x /\ x < y /\ y <= z /\ z + 1 <= v /\ v < to - 1
        /\ \A j \in from .. x - 1 : w[j] \in Spaces
        /\ \A j \in y .. z - 1 : w[j] \in Spaces
        /\ \A j \in z + 1 .. v - 1 : w[j] \in Spaces
        /\ w[x] \notin Spaces /\ w[z] \notin Spaces /\ w[v] \notin Spaces
        /\ x \in Nat /\ y \in Nat /\ z \in Nat /\ v \in Nat
    <3>1. Attribute(w, b, from, x, y, z, v, to)
      BY <2>4
    <3>2. AttributeFacts(w, b, from, x, y, z, v, to)
      BY <2>3, <2>5, <3>1, AttributeIs
    <3> QED BY <3>2 DEF AttributeFacts
  <2>7. ASSUME NEW g, NEW r, Behind(g, t, at, i, r), InAttrib(g, w, b, x, y, z, v, to, r, o)
        PROVE  Spot(g, t, r, o)
    <3>1. InBody(g, t, at, i, r, o)
      BY <1>1, <1>8, <2>2, <2>4, <2>7, BodyWhen
    <3> QED BY <1>5, <3>1
  <2>8. PICK low, high :
          /\ low \in Int /\ high \in Int /\ high <= to /\ low <= q /\ q <= high
          /\ \A j \in low .. high - 1 : w[j] \in Spaces
          /\ w[high] \notin Spaces
          /\ \/ f.next = "BODY" /\ high = x
             \/ f.next = "EQUALS" /\ high = z /\ low = y /\ f.aname = b.name
             \/ f.next = "ATTVAL_BEGIN" /\ high = v /\ low = z + 1 /\ f.aname = b.name
    <3>1. CASE f.next = "BODY"
      <4>1. q <= x
        BY <2>4, <3>1 DEF InAttrib, Spaced
      <4>2. from \in Int /\ x \in Int /\ x <= to /\ from <= q
        BY <1>4, <2>2, <2>3, <2>6
      <4> QED BY <2>6, <3>1, <4>1, <4>2
    <3>2. CASE f.next = "EQUALS"
      <4>1. q \in y .. z /\ f.aname = b.name
        BY <2>4, <3>2 DEF InAttrib, Spaced
      <4>2. y \in Int /\ z \in Int /\ z <= to /\ y <= q /\ q <= z
        BY <2>3, <2>6, <4>1
      <4> QED BY <2>6, <3>2, <4>1, <4>2
    <3>3. CASE f.next = "ATTVAL_BEGIN"
      <4>1. q \in z + 1 .. v /\ f.aname = b.name
        BY <2>4, <3>3 DEF InAttrib, Spaced
      <4>2. PICK low : low = z + 1
        OBVIOUS
      <4>3. low \in Int /\ v \in Int /\ v <= to /\ low <= q /\ q <= v
        BY <2>3, <2>6, <4>1, <4>2
      <4> QED BY <2>6, <3>3, <4>1, <4>2, <4>3
    <3>4. f.next \in {"BODY", "EQUALS", "ATTVAL_BEGIN"}
      BY <2>4 DEF InAttrib, Spaced
    <3> QED BY <3>1, <3>2, <3>3, <3>4
  <2>9. CASE q = high
    <3>1. ASSUME NEW g, g.state = f.next, SameBut(g, f) PROVE InAttrib(g, w, b, x, y, z, v, to, q, o)
      BY <2>8, <2>9, <3>1 DEF InAttrib, SameBut
    <3> QED BY <1>1, <1>6, <2>7, <2>8, <2>9, <3>1 DEF SpaceLeft
  <2>10. CASE q # high
    <3>1. q \in low .. high - 1 /\ q + 1 <= high /\ q + 1 \in low .. high /\ q + 1 \in 2 .. Len(w)
      BY <1>1, <2>3, <2>8, <2>10
    <3>2. w[q] \in Spaces
      BY <2>8, <3>1
    <3>3. InAttrib(f, w, b, x, y, z, v, to, q + 1, o)
      BY <2>8, <3>1 DEF InAttrib, Spaced
    <3> QED BY <1>1, <1>6, <2>7, <3>1, <3>2, <3>3 DEF SpaceLeft
  <2> QED BY <2>9, <2>10
<1> QED BY <1>7, <1>8

LEMMA SpacedSpot ==
    ASSUME NEW f, NEW t, NEW q, NEW o, Spot(f, t, q, o), f.state = "IGNORE_SPACES",
           Good(t), t.kind # "text", q \in 2 .. Len(t.chars), Len(t.chars) \in Nat
    PROVE  SpaceLeft(f, t, q, o)
<1>1. ToBe(f) \in {"BEGIN_NODE"} \union TagStates \union EndStates
  <2>1. ToBe(f) \in OtherStates => f.state = ToBe(f)
    BY SpotIs
  <2>2. ToBe(f) \in {"BEGIN_NODE"} \union TagStates \union EndStates \union OtherStates
    BY SpotIs
  <2> QED BY <2>1, <2>2 DEF OtherStates
<1>2. CASE ToBe(f) = "BEGIN_NODE"
  BY <1>2, SpotIs, SpacedStart
<1>3. CASE ToBe(f) \in TagStates
  <2>1. PICK m, at : Tagged(t, m, at) /\ InTag(f, t, m, at, q, o)
    BY <1>3, SpotIs
  <2> QED BY <2>1, SpacedTag
<1>4. CASE ToBe(f) \in EndStates
  <2>1. PICK m, e : Ended(t, m, e) /\ InEndTag(f, t, m, e, q, o)
    BY <1>4, SpotIs
  <2> QED BY <2>1, SpacedEnd
<1> QED BY <1>1, <1>2, <1>3, <1>4
-----------------------------------------------------------------------------
(* NativeXml: the rounds inside of a token *)

\* f is the same call as g, and no bracket is open.
SameOne(f, g) ==
    /\ f.parentname = g.parentname /\ f.nsubs = g.nsubs
    /\ f.nbrackets = 0 \/ f.state = "DOCTYPE"

LEMMA Shifted == \A x, y, z \in Nat : x + y + z + 1 = x + (y + z + 1)
OBVIOUS

LEMMA GoesOn ==
    ASSUME NEW k, NEW off, NEW acc, Context(k, off, acc), Top.state \notin Outside,
           NEW t, NEW o \in Nat, t = tokens[k + 1], o = off[k], NEW q \in Nat, p = o + q,
           NEW j \in Nat, Break(j), UNCHANGED tree,
           NEW f, Changed(frames, frames', f), SameOne(f, Top),
           q + j + 1 \in 2 .. Len(t.chars), Spot(f, t, q + j + 1, o)
    PROVE  Follows'
<1>1. UNCHANGED inputs /\ endtags' = endtags /\ result' = result /\ p' = p + j + 1
  BY DEF Break
<1>2. PICK r : r = q + j + 1
  OBVIOUS
<1>3. r \in 2 .. Len(t.chars) /\ Spot(f, t, r, o) /\ p' = o + r
  <2>1. o + q + j + 1 = o + (q + j + 1)
    BY Shifted
  <2>2. p' = o + r
    BY <1>1, <1>2, <2>1
  <2>3. r \in 2 .. Len(t.chars) /\ Spot(f, t, r, o)
    BY <1>2, Zenon
  <2> QED BY <2>2, <2>3
<1>4. f.parentname = Top.parentname /\ f.nsubs = Top.nsubs /\ (f.nbrackets = 0 \/ f.state = "DOCTYPE")
  BY DEF SameOne
<1> QED BY <1>1, <1>3, <1>4, StayWithin

LEMMA LooksAgain ==
    ASSUME NEW k, NEW off, NEW acc, Context(k, off, acc), Top.state \notin Outside,
           NEW t, NEW o \in Nat, t = tokens[k + 1], o = off[k], NEW q \in Nat, p = o + q, Continue,
           NEW f, Changed(frames, frames', f), SameOne(f, Top),
           q \in 2 .. Len(t.chars), Spot(f, t, q, o)
    PROVE  Follows'
<1>1. UNCHANGED inputs /\ UNCHANGED tree /\ endtags' = endtags /\ result' = result /\ p' = o + q
  BY DEF Continue
<1>2. f.parentname = Top.parentname /\ f.nsubs = Top.nsubs /\ (f.nbrackets = 0 \/ f.state = "DOCTYPE")
  BY DEF SameOne
<1> QED BY <1>1, <1>2, StayWithin

\* A character more, with nothing changed.
LEMMA ReadsMore ==
    ASSUME NEW k, NEW off, NEW acc, Context(k, off, acc), Top.state \notin Outside,
           NEW t, NEW o \in Nat, t = tokens[k + 1], o = off[k], NEW q \in Nat, p = o + q,
           Break(0), UNCHANGED <<frames, tree>>, Top.nbrackets = 0 \/ Top.state = "DOCTYPE",
           q + 1 \in 2 .. Len(t.chars), Spot(Top, t, q + 1, o)
    PROVE  Follows'
<1>1. FramesOK /\ UNCHANGED frames /\ UNCHANGED tree
  BY Present DEF Context
<1>2. Changed(frames, frames', Top)
  BY <1>1, NothingChanges
<1>3. SameOne(Top, Top)
  BY DEF SameOne
<1>4. PICK j \in Nat : j = 0 /\ q + j + 1 = q + 1
  OBVIOUS
<1>5. Break(j) /\ q + j + 1 \in 2 .. Len(t.chars) /\ Spot(Top, t, q + j + 1, o)
  BY <1>4
<1> QED BY <1>1, <1>2, <1>3, <1>5, GoesOn

\* What becomes of the frame on top.
LEMMA FrameIs ==
    ASSUME NEW k, NEW off, NEW acc, Context(k, off, acc),
           NEW st, NEW at, NEW nx, NEW f
    PROVE  /\ Top \in Frame /\ FramesOK /\ (Set(f) => Changed(frames, frames', f))
           /\ f = Goto(st) => f.state = st /\ f.next = Top.next /\ SameBut(f, Top)
           /\ f = Mark(st, at) =>
                 /\ f.state = st /\ f.start = at /\ f.next = Top.next /\ f.nodename = Top.nodename
                 /\ f.aname = Top.aname /\ f.attribs = Top.attribs /\ f.nbrackets = Top.nbrackets
                 /\ f.parentname = Top.parentname /\ f.nsubs = Top.nsubs
           /\ f = Skip(nx) => Spaced(f, nx) /\ SameBut(f, Top)
<1>1. FramesOK /\ Top \in Frame
  BY Present DEF Context
<1>2. PICK g : g = Top /\ g \in Frame
  BY <1>1
<1>3. f = Goto(st) => f.state = st /\ f.next = g.next /\ SameBut(f, g)
  BY <1>2 DEF Goto, Frame, SameBut
<1>4. f = Mark(st, at) =>
        /\ f.state = st /\ f.start = at /\ f.next = g.next /\ f.nodename = g.nodename
        /\ f.aname = g.aname /\ f.attribs = g.attribs /\ f.nbrackets = g.nbrackets
        /\ f.parentname = g.parentname /\ f.nsubs = g.nsubs
  BY <1>2 DEF Mark, Frame
<1>5. f = Skip(nx) => Spaced(f, nx) /\ SameBut(f, g)
  BY <1>2 DEF Skip, Frame, SameBut, Spaced
<1> QED BY <1>1, <1>2, <1>3, <1>4, <1>5, SetChanges

LEMMA IgnoreSpacesFollows ==
    ASSUME NEW k, NEW off, NEW acc, Context(k, off, acc), IgnoreSpaces
    PROVE  Follows'
<1>1. Top.state = "IGNORE_SPACES" /\ Top.state \notin Outside
  BY DEF IgnoreSpaces, Case, Outside
<1>2. PICK t, o, q :
        /\ t = tokens[k + 1] /\ o = off[k] /\ p = o + q /\ Spot(Top, t, q, o)
        /\ q \in 2 .. Len(t.chars) /\ Len(t.chars) \in Nat /\ c = t.chars[q]
        /\ Good(t) /\ t.kind # "text" /\ o \in Nat /\ q \in Nat
        /\ Top.nbrackets = 0 \/ Top.state = "DOCTYPE"
  <2>1. \A l \in Nat : \A q \in 2 .. l : q \in Nat
    OBVIOUS
  <2> QED BY <1>1, <2>1, Here
<1>3. SpaceLeft(Top, t, q, o)
  BY <1>1, <1>2, SpacedSpot
<1>4. CASE c \in Spaces /\ Break(0) /\ UNCHANGED <<frames, tree>>
  BY <1>1, <1>2, <1>3, <1>4, ReadsMore DEF SpaceLeft
<1>5. CASE c \notin Spaces /\ Set(Goto(Top.next)) /\ Continue
  <2>1. PICK f : f = Goto(Top.next)
    OBVIOUS
  <2>2. f.state = Top.next /\ SameBut(f, Top) /\ Changed(frames, frames', f)
    BY <1>5, <2>1, FrameIs
  <2>3. Spot(f, t, q, o)
    BY <1>2, <1>3, <1>5, <2>2 DEF SpaceLeft
  <2>4. SameOne(f, Top)
    BY <1>1, <1>2, <2>2 DEF SameBut, SameOne
  <2> QED BY <1>1, <1>2, <1>5, <2>2, <2>3, <2>4, LooksAgain
<1> QED BY <1>4, <1>5 DEF IgnoreSpaces
-----------------------------------------------------------------------------
(* NativeXml: the attributes of a tag *)

\* The character q of the token t behind o is the present one.
At(k, off, t, o, q) ==
    /\ k < Len(tokens) /\ t = tokens[k + 1] /\ o = off[k] /\ o \in Nat
    /\ q \in 2 .. Len(t.chars) /\ q \in Nat /\ Len(t.chars) \in Nat /\ p = o + q
    /\ c = t.chars[q] /\ c # NUL /\ Lies(t, doc, o)
    /\ Good(t) /\ t.chars \in Texts /\ t.kind # "text" /\ doc \in Texts

LEMMA HereAt ==
    ASSUME NEW k, NEW off, NEW acc, Context(k, off, acc), Top.state \notin Outside
    PROVE  \E t, o, q : /\ At(k, off, t, o, q) /\ Spot(Top, t, q, o)
                        /\ Top.nbrackets = 0 \/ Top.state = "DOCTYPE"
<1>1. PICK t, o, q :
        /\ t = tokens[k + 1] /\ o = off[k] /\ p = o + q /\ Spot(Top, t, q, o)
        /\ q \in 2 .. Len(t.chars) /\ Len(t.chars) \in Nat /\ c = t.chars[q] /\ c # NUL
        /\ Lies(t, doc, o) /\ Good(t) /\ t.chars \in Texts /\ o \in Nat /\ t.kind # "text"
        /\ Top.nbrackets = 0 \/ Top.state = "DOCTYPE"
  BY Here
<1>2. q \in Nat
  <2>1. \A l \in Nat : \A x \in 2 .. l : x \in Nat
    OBVIOUS
  <2> QED BY <1>1, <2>1
<1>3. k < Len(tokens)
  BY Inside
<1>4. doc \in Texts
  BY DEF Context, XmlInv, Reading
<1>5. At(k, off, t, o, q)
  BY <1>1, <1>2, <1>3, <1>4 DEF At
<1> QED BY <1>1, <1>5

\* A piece of the document between a mark in the token and the present character.
LEMMA SliceIs ==
    ASSUME NEW k, NEW off, NEW t, NEW o, NEW q, At(k, off, t, o, q),
           NEW x \in Nat \ {0}, NEW s, s = o + x,
           NEW n \in Int, n <= Len(t.chars), NEW at, at - 1 = o + n
    PROVE  Slice(s, at) = SubSeq(t.chars, x, n)
<1>1. o \in Nat /\ Len(t.chars) \in Nat /\ Lies(t, doc, o) /\ t.chars \in Texts /\ doc \in Texts
  BY DEF At
<1>2. PICK z : z = o + n
  OBVIOUS
<1>3. SamePiece(t.chars, x, n, doc, s, z)
  BY <1>1, <1>2, PieceAgain
<1> QED BY <1>2, <1>3 DEF Slice, SamePiece

\* What is marked ends before the present character.
LEMMA MarkedIs ==
    ASSUME NEW k, NEW off, NEW t, NEW o, NEW q, At(k, off, t, o, q),
           NEW x \in Nat \ {0}, NEW s, s = o + x
    PROVE  Slice(s, p) = SubSeq(t.chars, x, q - 1)
<1>1. o \in Nat /\ Len(t.chars) \in Nat /\ q \in Nat /\ q <= Len(t.chars) /\ p = o + q
  BY DEF At
<1>2. PICK n, at : n = q - 1 /\ at = p
  OBVIOUS
<1>3. n \in Int /\ n <= Len(t.chars) /\ at - 1 = o + n
  BY <1>1, <1>2
<1>4. Slice(s, at) = SubSeq(t.chars, x, n)
  BY <1>3, SliceIs
<1> QED BY <1>2, <1>4

LEMMA TagSpot ==
    ASSUME NEW k, NEW off, NEW acc, Context(k, off, acc), Top.state \in TagStates
    PROVE  \E t, o, q, m, at :
             /\ At(k, off, t, o, q) /\ Tagged(t, m, at) /\ InTag(Top, t, m, at, q, o)
             /\ TagFacts(t, m, at, t.chars, Len(t.attribs), Len(t.chars) - Len(TagEnd(t)) + 1)
             /\ Top.nbrackets = 0
<1>1. Top.state \notin Outside /\ Top.state # "DOCTYPE" /\ Top.state # "IGNORE_SPACES"
  BY DEF TagStates, Outside
<1>2. PICK t, o, q : At(k, off, t, o, q) /\ Spot(Top, t, q, o) /\ Top.nbrackets = 0
  BY <1>1, HereAt
<1>3. ToBe(Top) \in TagStates
  BY <1>1 DEF ToBe
<1>4. PICK m, at : Tagged(t, m, at) /\ InTag(Top, t, m, at, q, o)
  BY <1>2, <1>3, SpotIs
<1>5. TagFacts(t, m, at, t.chars, Len(t.attribs), Len(t.chars) - Len(TagEnd(t)) + 1)
  BY <1>2, <1>4, TagIs DEF Tagged, At
<1> QED BY <1>2, <1>4, <1>5

\* In front of what is next in the tag.
LEMMA Started ==
    ASSUME NEW f, NEW t, NEW m, NEW at, NEW i \in 0 .. Len(t.attribs), NEW o,
           TagFacts(t, m, at, t.chars, Len(t.attribs), Len(t.chars) - Len(TagEnd(t)) + 1),
           Behind(f, t, at, i, at[i]), Spaced(f, "BODY")
    PROVE  InBody(f, t, at, i, at[i], o)
<1>1. PICK w, n, last : w = t.chars /\ n = Len(t.attribs) /\ last = Len(w) - Len(TagEnd(t)) + 1
  OBVIOUS
<1>2. /\ n \in Nat /\ at[n] <= last
      /\ \A j \in 1 .. n : \E x, y, z, q \in at[j - 1] .. at[j] :
           Attribute(w, t.attribs[j], at[j - 1], x, y, z, q, at[j])
  BY <1>1 DEF TagFacts
<1>3. CASE i = n
  BY <1>1, <1>2, <1>3, BodyWhen
<1>4. CASE i # n
  <2>1. i + 1 \in 1 .. n /\ (i + 1) - 1 = i
    BY <1>1, <1>2, <1>4
  <2>2. PICK x \in at[i] .. at[i + 1], y \in at[i] .. at[i + 1], z \in at[i] .. at[i + 1],
             v \in at[i] .. at[i + 1] : Attribute(w, t.attribs[i + 1], at[i], x, y, z, v, at[i + 1])
    BY <1>2, <2>1
  <2>3. at[i] <= x
    BY <2>2 DEF Attribute, Blank
  <2>4. InAttrib(f, w, t.attribs[i + 1], x, y, z, v, at[i + 1], at[i], o)
    BY <2>3 DEF InAttrib
  <2> QED BY <1>1, <1>4, <2>2, <2>4, BodyWhen
<1> QED BY <1>3, <1>4

LEMMA TagNameFollows ==
    ASSUME NEW k, NEW off, NEW acc, Context(k, off, acc), TagName
    PROVE  Follows'
<1>1. Top.state = "TAG_NAME" /\ Top.state \notin Outside /\ Top.state \in TagStates
  BY DEF TagName, Case, Outside, TagStates
<1>2. PICK t, o, q, m, at :
        /\ At(k, off, t, o, q) /\ Tagged(t, m, at) /\ InTag(Top, t, m, at, q, o)
        /\ TagFacts(t, m, at, t.chars, Len(t.attribs), Len(t.chars) - Len(TagEnd(t)) + 1)
        /\ Top.nbrackets = 0
  BY <1>1, TagSpot
<1>3. PICK w, n, e : w = t.chars /\ n = Len(t.attribs) /\ e = at[0]
  OBVIOUS
<1>4. /\ q \in 2 .. Len(w) /\ q \in Nat /\ Len(w) \in Nat /\ o \in Nat /\ p = o + q /\ c = w[q]
  BY <1>2, <1>3 DEF At
<1>5. m \in 2 .. Len(w)
  BY <1>2, <1>3 DEF Tagged
<1>6. /\ n \in Nat /\ e \in m .. Len(w) /\ m < e /\ w[e] \notin NameChars /\
          t.name = SubSeq(w, m, e - 1)
      /\ \A i \in m .. e - 1 : w[i] \in NameChars
  BY <1>2, <1>3 DEF TagFacts, Named, is_valid_char
<1>7. Top.start = o + m /\ q \in m .. e
  BY <1>1, <1>2, <1>3, BodyIs
<1>8. CASE is_valid_char(c) /\ Break(0) /\ UNCHANGED <<frames, tree>>
  <2>1. q # e
    BY <1>4, <1>6, <1>8 DEF is_valid_char
  <2>2. q + 1 \in m .. e /\ q + 1 \in 2 .. Len(w)
    BY <1>4, <1>5, <1>6, <1>7, <2>1
  <2>3. InTag(Top, t, m, at, q + 1, o)
    BY <1>1, <1>3, <1>7, <2>2 DEF InTag
  <2>4. Spot(Top, t, q + 1, o)
    BY <1>2, <2>3, SpotWhen
  <2> QED BY <1>1, <1>2, <1>3, <1>8, <2>2, <2>4, ReadsMore DEF At
<1>9. CASE ~is_valid_char(c)
  <2>1. q = e /\ q # m
    BY <1>4, <1>5, <1>6, <1>7, <1>9 DEF is_valid_char
  <2>2. p # Top.start
    BY <1>4, <1>5, <1>7, <2>1
  <2>3. PICK f : f = [Skip("BODY") EXCEPT !.nodename = Slice(start, p), !.attribs = << >>]
    OBVIOUS
  <2>4. Set(f) /\ Continue
    BY <1>9, <2>2, <2>3 DEF TagName, start
  <2>5. Slice(start, p) = t.name
    <3>1. PICK s : s = Top.start
      OBVIOUS
    <3>2. m \in Nat \ {0} /\ s = o + m /\ At(k, off, t, o, q)
      BY <1>2, <1>5, <1>7, <3>1
    <3>3. Slice(s, p) = SubSeq(t.chars, m, q - 1)
      BY <3>2, MarkedIs
    <3> QED BY <1>3, <1>6, <2>1, <3>1, <3>3 DEF start
  <2>6. PICK g : g = Skip("BODY") /\ Spaced(g, "BODY") /\ SameBut(g, Top) /\ Top \in Frame /\ FramesOK
                 /\ Changed(frames, frames', f)
    BY <2>4, FrameIs
  <2>7. PICK name, none : name = t.name /\ none = << >> /\
         f = [g EXCEPT !.nodename = name, !.attribs = none]
    BY <2>3, <2>5, <2>6
  <2>8. Spaced(f, "BODY") /\ f.nodename = name /\ f.attribs = none /\ SameOne(f, Top)
    <3>1. g = [Top EXCEPT !.state = "IGNORE_SPACES", !.next = "BODY"]
      BY <2>6 DEF Skip
    <3>2. /\ f.state = "IGNORE_SPACES" /\ f.next = "BODY" /\ f.nodename = name /\ f.attribs = none
          /\ f.parentname = Top.parentname /\ f.nsubs = Top.nsubs /\ f.nbrackets = Top.nbrackets
      BY <2>6, <2>7, <3>1 DEF Frame
    <3> QED BY <1>2, <3>2 DEF Spaced, SameOne
  <2>9. Behind(f, t, at, 0, at[0])
    <3>1. Len(none) = 0
      BY <2>7
    <3>2. at[0] >= at[0]
      BY <1>3, <1>6
    <3> QED BY <2>7, <2>8, <3>1, <3>2 DEF Behind
  <2>10. InBody(f, t, at, 0, q, o)
    <3>1. 0 \in 0 .. Len(t.attribs)
      BY <1>3, <1>6
    <3> QED BY <1>2, <1>3, <2>1, <2>8, <2>9, <3>1, Started
  <2>11. InTag(f, t, m, at, q, o)
    <3>1. 0 \in 0 .. Len(t.attribs)
      BY <1>3, <1>6
    <3> QED BY <2>10, <3>1 DEF InTag
  <2>12. Spot(f, t, q, o)
    BY <1>2, <2>11, SpotWhen
  <2> QED BY <1>1, <1>2, <2>4, <2>6, <2>8, <2>12, LooksAgain DEF At
<1> QED BY <1>8, <1>9 DEF TagName

\* The next character of the token.
LEMMA NextOne ==
    ASSUME NEW k, NEW off, NEW acc, Context(k, off, acc), Top.state \notin Outside,
           NEW t, NEW o, NEW q, At(k, off, t, o, q), Break(0), UNCHANGED tree,
           NEW f, Changed(frames, frames', f), SameOne(f, Top),
           q + 1 \in 2 .. Len(t.chars), Spot(f, t, q + 1, o)
    PROVE  Follows'
<1>1. q \in Nat /\ o \in Nat /\ t = tokens[k + 1] /\ o = off[k] /\ p = o + q
  BY DEF At
<1>2. PICK j \in Nat : j = 0 /\ q + j + 1 = q + 1
  BY <1>1
<1>3. Break(j) /\ q + j + 1 \in 2 .. Len(t.chars) /\ Spot(f, t, q + j + 1, o)
  BY <1>2
<1> QED BY <1>1, <1>3, GoesOn

\* Where a character of the token is.
LEMMA AtIs ==
    ASSUME NEW k, NEW off, NEW t, NEW o, NEW q, At(k, off, t, o, q)
    PROVE  /\ q \in Nat /\ q >= 2 /\ q <= Len(t.chars) /\ Len(t.chars) \in Nat /\ o \in Nat
           /\ p = o + q /\ c = t.chars[q] /\ q \in 2 .. Len(t.chars)
<1>1. q \in 2 .. Len(t.chars) /\ q \in Nat /\ Len(t.chars) \in Nat
  BY DEF At
<1>2. q >= 2 /\ q <= Len(t.chars)
  BY <1>1
<1> QED BY <1>1, <1>2 DEF At

PartStates == {"ATTRIB_NAME", "EQUALS", "ATTVAL_BEGIN", "ATTRIB_VAL"}

\* The parser is in b, the attribute of t behind i others, which ends before to.
Part(t, o, q, m, at, i, b, x, y, z, v, to) ==
    /\ Tagged(t, m, at) /\ TagFacts(t, m, at, t.chars, Len(t.attribs), Len(t.chars) - Len(TagEnd(t)) + 1)
    /\ i \in Nat /\ i + 1 \in 1 .. Len(t.attribs) /\ Len(t.attribs) \in Nat
    /\ b = t.attribs[i + 1] /\ to = at[i + 1]
    /\ at[i] \in Nat /\ at[i] >= 2 /\ to \in Nat /\ to <= Len(t.chars)
    /\ AttributeFacts(t.chars, b, at[i], x, y, z, v, to)
    /\ Behind(Top, t, at, i, q) /\ InAttrib(Top, t.chars, b, x, y, z, v, to, q, o)
    /\ \A g, r : Behind(g, t, at, i, r) /\ InAttrib(g, t.chars, b, x, y, z, v, to, r, o)
                 => Spot(g, t, r, o)

LEMMA InPart ==
    ASSUME NEW k, NEW off, NEW acc, Context(k, off, acc), Top.state \in PartStates
    PROVE  /\ Top.state \notin Outside /\ Top.nbrackets = 0 /\ Top \in Frame
           /\ \E t, o, q, m, at, i, b, x, y, z, v, to :
                 At(k, off, t, o, q) /\ Part(t, o, q, m, at, i, b, x, y, z, v, to)
<1>1. Top.state \in TagStates /\ Top.state \notin Outside
  BY DEF PartStates, TagStates, Outside
<1>2. PICK t, o, q, m, at :
        /\ At(k, off, t, o, q) /\ Tagged(t, m, at) /\ InTag(Top, t, m, at, q, o)
        /\ TagFacts(t, m, at, t.chars, Len(t.attribs), Len(t.chars) - Len(TagEnd(t)) + 1)
        /\ Top.nbrackets = 0
  BY <1>1, TagSpot
<1>3. PICK i \in 0 .. Len(t.attribs) : InBody(Top, t, at, i, q, o)
  <2>1. Top.state # "TAG_NAME"
    BY DEF PartStates
  <2> QED BY <1>2, <2>1, BodyIs
<1>4. PICK w, n : w = t.chars /\ n = Len(t.attribs)
  OBVIOUS
<1>5. n \in Nat /\ (\A j \in 0 .. n : at[j] \in m .. Len(w)) /\ m \in 2 .. Len(w) /\ Len(w) \in Nat
  BY <1>2, <1>4 DEF TagFacts, Tagged, At
<1>6. i # n
  BY <1>3, <1>4 DEF InBody, Spaced, PartStates
<1>7. i \in Nat /\ i + 1 \in 1 .. n /\ i + 1 \in 0 .. n /\ i \in 0 .. n /\ i < n
  BY <1>4, <1>5, <1>6
<1>8. PICK b, from, to : b = t.attribs[i + 1] /\ from = at[i] /\ to = at[i + 1]
  OBVIOUS
<1>9. from \in Nat /\ to \in Nat /\ to <= Len(w) /\ from >= 2
  BY <1>5, <1>7, <1>8
<1>10. PICK x \in from .. to, y \in from .. to, z \in from .. to, v \in from .. to :
         Attribute(w, b, from, x, y, z, v, to) /\ InAttrib(Top, w, b, x, y, z, v, to, q, o)
  BY <1>3, <1>4, <1>7, <1>8 DEF InBody
<1>11. AttributeFacts(w, b, from, x, y, z, v, to)
  <2>1. from <= to /\ Attribute(w, b, from, x, y, z, v, to)
    BY <1>9, <1>10
  <2> QED BY <1>9, <2>1, AttributeIs
<1>12. ASSUME NEW g, NEW r, Behind(g, t, at, i, r), InAttrib(g, w, b, x, y, z, v, to, r, o)
       PROVE  Spot(g, t, r, o)
  <2>1. InBody(g, t, at, i, r, o)
    BY <1>4, <1>6, <1>8, <1>10, <1>12, BodyWhen
  <2>2. InTag(g, t, m, at, r, o)
    BY <1>4, <1>7, <2>1 DEF InTag
  <2> QED BY <1>2, <2>2, SpotWhen
<1>13. Behind(Top, t, at, i, q)
  BY <1>3, BodyWhen
<1>14. Part(t, o, q, m, at, i, b, x, y, z, v, to)
  BY <1>2, <1>4, <1>7, <1>8, <1>9, <1>10, <1>11, <1>12, <1>13 DEF Part
<1>15. Top \in Frame
  BY Present DEF Context
<1> QED BY <1>1, <1>2, <1>14, <1>15

\* Another character of the same part, or another part of the attribute.
LEMMA PartGoesOn ==
    ASSUME NEW t, NEW o, NEW q, NEW m, NEW at, NEW i, NEW b, NEW x, NEW y, NEW z, NEW v, NEW to,
           Part(t, o, q, m, at, i, b, x, y, z, v, to), q \in Nat,
           NEW g, g.nodename = Top.nodename, g.attribs = Top.attribs,
           NEW r \in Nat, r >= q, InAttrib(g, t.chars, b, x, y, z, v, to, r, o)
    PROVE  Spot(g, t, r, o)
<1>1. Behind(Top, t, at, i, q) /\ at[i] \in Nat
  BY DEF Part
<1>2. Behind(g, t, at, i, r)
  BY <1>1 DEF Behind
<1> QED BY <1>2 DEF Part

LEMMA EqualsFollows ==
    ASSUME NEW k, NEW off, NEW acc, Context(k, off, acc), Equals
    PROVE  Follows'
<1>1. Top.state = "EQUALS" /\ Top.state \in PartStates
  BY DEF Equals, Case, PartStates
<1>2. PICK t, o, q, m, at, i, b, x, y, z, v, to :
        /\ At(k, off, t, o, q) /\ Part(t, o, q, m, at, i, b, x, y, z, v, to)
        /\ Top.state \notin Outside /\ Top.nbrackets = 0 /\ Top \in Frame
  BY <1>1, InPart
<1>3. q = z /\ Top.aname = b.name
  BY <1>1, <1>2 DEF Part, InAttrib, Spaced
<1>4. /\ z \in Nat /\ v \in Nat /\ to \in Nat /\ to <= Len(t.chars) /\ z + 1 <= v /\ v < to - 1
      /\ t.chars[z] = "=" /\ to <= Len(t.chars)
  BY <1>2 DEF Part, AttributeFacts
<1>a. /\ q \in Nat /\ q >= 2 /\ q <= Len(t.chars) /\ Len(t.chars) \in Nat /\ o \in Nat
      /\ p = o + q /\ c = t.chars[q]
  BY <1>2, AtIs
<1>5. c = "="
  BY <1>3, <1>4, <1>a
<1>6. PICK f : f = Skip("ATTVAL_BEGIN") /\ Set(f) /\ Break(0) /\ UNCHANGED tree
  BY <1>5 DEF Equals
<1>7. Spaced(f, "ATTVAL_BEGIN") /\ SameBut(f, Top) /\ Changed(frames, frames', f)
  BY <1>6, FrameIs
<1>8. q + 1 \in z + 1 .. v /\ q + 1 \in Nat /\ q + 1 >= q /\ q + 1 \in 2 .. Len(t.chars)
  BY <1>3, <1>4, <1>a
<1>9. InAttrib(f, t.chars, b, x, y, z, v, to, q + 1, o)
  BY <1>3, <1>7, <1>8 DEF InAttrib, SameBut
<1>10. Spot(f, t, q + 1, o)
  BY <1>2, <1>a, <1>7, <1>8, <1>9, PartGoesOn DEF SameBut
<1>11. SameOne(f, Top)
  BY <1>2, <1>7 DEF SameBut, SameOne
<1> QED BY <1>2, <1>6, <1>7, <1>8, <1>10, <1>11, NextOne

LEMMA AttvalBeginFollows ==
    ASSUME NEW k, NEW off, NEW acc, Context(k, off, acc), AttvalBegin
    PROVE  Follows'
<1>1. Top.state = "ATTVAL_BEGIN" /\ Top.state \in PartStates
  BY DEF AttvalBegin, Case, PartStates
<1>2. PICK t, o, q, m, at, i, b, x, y, z, v, to :
        /\ At(k, off, t, o, q) /\ Part(t, o, q, m, at, i, b, x, y, z, v, to)
        /\ Top.state \notin Outside /\ Top.nbrackets = 0 /\ Top \in Frame
  BY <1>1, InPart
<1>3. q = v /\ Top.aname = b.name
  BY <1>1, <1>2 DEF Part, InAttrib, Spaced
<1>4. /\ v \in Nat /\ to \in Nat /\ v < to - 1 /\ t.chars[v] \in {"\"", "'"} /\ to <= Len(t.chars)
  BY <1>2 DEF Part, AttributeFacts
<1>a. /\ q \in Nat /\ q >= 2 /\ q <= Len(t.chars) /\ Len(t.chars) \in Nat /\ o \in Nat
      /\ p = o + q /\ c = t.chars[q]
  BY <1>2, AtIs
<1>6. PICK f : f = Mark("ATTRIB_VAL", p) /\ Set(f) /\ Break(0) /\ UNCHANGED tree
  BY <1>3, <1>4, <1>a DEF AttvalBegin
<1>b. Changed(frames, frames', f)
  BY <1>6, FrameIs
<1>c. /\ f.state = "ATTRIB_VAL" /\ f.start = p /\ f.nodename = Top.nodename /\ f.attribs = Top.attribs
      /\ f.aname = Top.aname /\ f.nbrackets = Top.nbrackets /\ f.parentname = Top.parentname
      /\ f.nsubs = Top.nsubs
  BY <1>6, FrameIs
<1>7. /\ f.state = "ATTRIB_VAL" /\ f.start = o + v /\ f.nodename = Top.nodename /\
          f.attribs = Top.attribs
      /\ f.aname = Top.aname /\ SameOne(f, Top) /\ Changed(frames, frames', f)
  BY <1>2, <1>3, <1>a, <1>b, <1>c DEF SameOne
<1>8. q + 1 \in v + 1 .. to - 1 /\ q + 1 \in Nat /\ q + 1 >= q /\ q + 1 \in 2 .. Len(t.chars)
  <2>1. q = v /\ v \in Nat /\ to \in Nat /\ v < to - 1 /\ to <= Len(t.chars)
    BY <1>3, <1>4
  <2>2. q >= 2 /\ Len(t.chars) \in Nat
    BY <1>a
  <2> QED BY <2>1, <2>2
<1>9. InAttrib(f, t.chars, b, x, y, z, v, to, q + 1, o)
  BY <1>3, <1>7, <1>8 DEF InAttrib
<1>10. Spot(f, t, q + 1, o)
  BY <1>2, <1>a, <1>7, <1>8, <1>9, PartGoesOn
<1> QED BY <1>2, <1>6, <1>7, <1>8, <1>10, NextOne

LEMMA AttribNameFollows ==
    ASSUME NEW k, NEW off, NEW acc, Context(k, off, acc), AttribName
    PROVE  Follows'
<1>1. Top.state = "ATTRIB_NAME" /\ Top.state \in PartStates
  BY DEF AttribName, Case, PartStates
<1>2. PICK t, o, q, m, at, i, b, x, y, z, v, to :
        /\ At(k, off, t, o, q) /\ Part(t, o, q, m, at, i, b, x, y, z, v, to)
        /\ Top.state \notin Outside /\ Top.nbrackets = 0 /\ Top \in Frame
  BY <1>1, InPart
<1>3. Top.start = o + x /\ q \in x .. y
  BY <1>1, <1>2 DEF Part, InAttrib, Spaced
<1>4. /\ x \in Nat /\ y \in Nat /\ z \in Nat /\ v \in Nat /\ to \in Nat /\ at[i] \in Nat /\ at[i] >= 2
      /\ at[i] <= x /\ x < y /\ y <= z /\ z + 1 <= v /\ v < to - 1 /\ to <= Len(t.chars)
      /\ \A j \in x .. y - 1 : t.chars[j] \in NameChars
      /\ t.chars[y] \notin NameChars /\ b.name = SubSeq(t.chars, x, y - 1)
  BY <1>2 DEF Part, AttributeFacts
<1>a. /\ q \in Nat /\ q >= 2 /\ q <= Len(t.chars) /\ Len(t.chars) \in Nat /\ o \in Nat
      /\ p = o + q /\ c = t.chars[q] /\ q \in 2 .. Len(t.chars)
  BY <1>2, AtIs
<1>5. CASE is_valid_char(c) /\ Break(0) /\ UNCHANGED <<frames, tree>>
  <2>1. q # y
    BY <1>4, <1>5, <1>a DEF is_valid_char
  <2>2. q + 1 \in x .. y /\ q + 1 \in Nat /\ q + 1 >= q /\ q + 1 \in 2 .. Len(t.chars)
    BY <1>3, <1>4, <1>a, <2>1
  <2>3. InAttrib(Top, t.chars, b, x, y, z, v, to, q + 1, o)
    BY <1>1, <1>3, <2>2 DEF InAttrib
  <2>4. Spot(Top, t, q + 1, o)
    BY <1>2, <1>a, <2>2, <2>3, PartGoesOn
  <2>5. Changed(frames, frames', Top) /\ SameOne(Top, Top) /\ UNCHANGED tree
    BY <1>2, <1>5, NothingChanges, Present DEF Context, SameOne
  <2> QED BY <1>2, <1>5, <2>2, <2>4, <2>5, NextOne
<1>6. CASE ~is_valid_char(c)
  <2>1. q = y
    <3>1. q \notin x .. y - 1
      BY <1>4, <1>6, <1>a DEF is_valid_char
    <3> QED BY <1>3, <1>4, <1>a, <3>1
  <2>2. Top.start # p
    BY <1>3, <1>4, <1>a, <2>1
  <2>3. Slice(start, p) = b.name
    <3>1. PICK s : s = Top.start
      OBVIOUS
    <3>2. x \in Nat \ {0} /\ s = o + x
      BY <1>3, <1>4, <3>1
    <3>3. Slice(s, p) = SubSeq(t.chars, x, q - 1)
      BY <1>2, <3>2, MarkedIs
    <3> QED BY <1>4, <2>1, <3>1, <3>3 DEF start
  <2>4. ~Duplicate(b.name)
    <3>1. SUFFICES ASSUME Duplicate(b.name) PROVE FALSE
      OBVIOUS
    <3>2. PICK S : S = Top.attribs /\ S \in Seq(Attrib) /\ DOMAIN S = 1 .. Len(S)
      BY <1>2 DEF Frame
    <3>3. Len(S) = i /\ \A j \in 1 .. i : S[j] = t.attribs[j]
      BY <1>2, <3>2 DEF Part, Behind
    <3>4. PICK j \in 1 .. i : S[j].name = b.name
      BY <3>1, <3>2, <3>3 DEF Duplicate
    <3>5. PICK n : n = Len(t.attribs)
      OBVIOUS
    <3>6. i \in Nat /\ i + 1 \in 1 .. n /\ n \in Nat /\ b = t.attribs[i + 1]
      BY <1>2, <3>5 DEF Part
    <3>7. \A u, r \in 1 .. n : t.attribs[u].name = t.attribs[r].name => u = r
      BY <1>2, <3>5 DEF Part, TagFacts
    <3>8. j \in 1 .. n /\ j # i + 1
      BY <3>6
    <3> QED BY <3>3, <3>4, <3>6, <3>7, <3>8
  <2>5. PICK f : f = [Skip("EQUALS") EXCEPT !.aname = b.name] /\ Set(f) /\ Continue
    BY <1>6, <2>2, <2>3, <2>4 DEF AttribName, start
  <2>6. Spaced(f, "EQUALS") /\ f.aname = b.name /\ f.nodename = Top.nodename /\ f.attribs = Top.attribs
        /\ SameOne(f, Top) /\ Changed(frames, frames', f)
    <3>1. f.state = "IGNORE_SPACES" /\ f.next = "EQUALS" /\ f.aname = b.name /\
           f.nodename = Top.nodename
          /\ f.attribs = Top.attribs /\ f.parentname = Top.parentname /\ f.nsubs = Top.nsubs
          /\ f.nbrackets = Top.nbrackets
      BY <1>2, <2>5 DEF Skip, Frame
    <3>2. Changed(frames, frames', f)
      BY <2>5, FrameIs
    <3> QED BY <1>2, <3>1, <3>2 DEF Spaced, SameOne
  <2>7. InAttrib(f, t.chars, b, x, y, z, v, to, q, o)
    BY <1>4, <2>1, <2>6 DEF InAttrib
  <2>8. Spot(f, t, q, o)
    BY <1>2, <1>a, <2>6, <2>7, PartGoesOn
  <2> QED BY <1>2, <1>a, <2>5, <2>6, <2>8, LooksAgain DEF At
<1> QED BY <1>5, <1>6 DEF AttribName

LEMMA AttribValFollows ==
    ASSUME NEW k, NEW off, NEW acc, Context(k, off, acc), AttribVal
    PROVE  Follows'
<1>1. Top.state = "ATTRIB_VAL" /\ Top.state \in PartStates /\ Break(0) /\ UNCHANGED tree
  BY DEF AttribVal, Case, PartStates
<1>2. PICK t, o, q, m, at, i, b, x, y, z, v, to :
        /\ At(k, off, t, o, q) /\ Part(t, o, q, m, at, i, b, x, y, z, v, to)
        /\ Top.state \notin Outside /\ Top.nbrackets = 0 /\ Top \in Frame
  BY <1>1, InPart
<1>3. Top.start = o + v /\ q \in v + 1 .. to - 1 /\ Top.aname = b.name
  BY <1>1, <1>2 DEF Part, InAttrib, Spaced
<1>4. /\ v \in Nat /\ to \in Nat /\ v < to - 1 /\ to <= Len(t.chars)
      /\ t.chars[to - 1] = t.chars[v]
      /\ \A j \in v + 1 .. to - 2 : t.chars[j] # t.chars[v]
      /\ b.value = SubSeq(t.chars, v + 1, to - 2)
  BY <1>2 DEF Part, AttributeFacts
<1>5. /\ q \in Nat /\ q >= 2 /\ q <= Len(t.chars) /\ Len(t.chars) \in Nat /\ o \in Nat
      /\ p = o + q /\ c = t.chars[q] /\ q \in 2 .. Len(t.chars)
  BY <1>2, AtIs
<1>6. v \in 1 .. Len(t.chars)
  <2>1. v \in Nat /\ v # 0
    <3>1. x \in Nat /\ x < y /\ y <= z /\ z + 1 <= v /\ y \in Nat /\ z \in Nat
      BY <1>2 DEF Part, AttributeFacts
    <3> QED BY <1>4, <3>1
  <2> QED BY <1>4, <1>5, <2>1
<1>7. doc[start] = t.chars[v]
  <2>1. doc[o + v] = t.chars[v]
    BY <1>2, <1>6 DEF At, Lies
  <2> QED BY <1>3, <2>1 DEF start
<1>8. CASE c # doc[start] /\ UNCHANGED frames
  <2>1. q # to - 1
    BY <1>4, <1>5, <1>7, <1>8
  <2>2. q + 1 \in v + 1 .. to - 1 /\ q + 1 \in Nat /\ q + 1 >= q /\ q + 1 \in 2 .. Len(t.chars)
    BY <1>3, <1>4, <1>5, <2>1
  <2>3. InAttrib(Top, t.chars, b, x, y, z, v, to, q + 1, o)
    BY <1>1, <1>3, <2>2 DEF InAttrib
  <2>4. Spot(Top, t, q + 1, o)
    BY <1>2, <1>5, <2>2, <2>3, PartGoesOn
  <2>5. Changed(frames, frames', Top) /\ SameOne(Top, Top)
    BY <1>2, <1>8, NothingChanges, Present DEF Context, SameOne
  <2> QED BY <1>1, <1>2, <2>2, <2>4, <2>5, NextOne
<1>9. CASE c = doc[start]
  <2>1. q = to - 1
    <3>1. q \notin v + 1 .. to - 2
      BY <1>4, <1>5, <1>7, <1>9
    <3> QED BY <1>3, <1>4, <1>5, <3>1
  <2>2. Slice(start + 1, p) = b.value
    <3>1. PICK s, y1 : s = Top.start + 1 /\ y1 = v + 1
      OBVIOUS
    <3>2. y1 \in Nat \ {0} /\ s = o + y1
      BY <1>3, <1>4, <1>5, <3>1
    <3>3. Slice(s, p) = SubSeq(t.chars, y1, q - 1)
      BY <1>2, <3>2, MarkedIs
    <3>4. q - 1 = to - 2
      BY <1>4, <2>1
    <3> QED BY <1>4, <3>1, <3>3, <3>4 DEF start
  <2>3. b \in Attrib
    <3>1. t.attribs \in Seq(Attrib)
      BY <1>2 DEF Part, Tagged, At, Good
    <3>2. i + 1 \in 1 .. Len(t.attribs) /\ b = t.attribs[i + 1]
      BY <1>2 DEF Part
    <3> QED BY <3>1, <3>2, ElementOfSeq
  <2>4. [name |-> Top.aname, value |-> Slice(start + 1, p)] = b
    BY <1>3, <2>2, <2>3 DEF Attrib
  <2>5. PICK S : S = Append(Top.attribs, b)
    OBVIOUS
  <2>6. Set([Skip("BODY") EXCEPT !.attribs = S])
    <3>1. Set([Skip("BODY") EXCEPT
                    !.attribs = Append(@, [name |-> Top.aname, value |-> Slice(start + 1, p)])])
      BY <1>9 DEF AttribVal
    <3>2. Skip("BODY").attribs = Top.attribs
      BY <1>2 DEF Skip, Frame
    <3> QED BY <2>4, <2>5, <3>1, <3>2
  <2>7. PICK f : f = [Skip("BODY") EXCEPT !.attribs = S]
    OBVIOUS
  <2>8. Spaced(f, "BODY") /\ f.attribs = S /\ f.nodename = Top.nodename /\ SameOne(f, Top)
        /\ Changed(frames, frames', f)
    <3>1. f.state = "IGNORE_SPACES" /\ f.next = "BODY" /\ f.nodename = Top.nodename
          /\ f.attribs = S /\ f.parentname = Top.parentname /\ f.nsubs = Top.nsubs
          /\ f.nbrackets = Top.nbrackets
      BY <1>2, <2>7 DEF Skip, Frame
    <3>2. Changed(frames, frames', f)
      BY <2>6, <2>7, FrameIs
    <3> QED BY <1>2, <3>1, <3>2 DEF Spaced, SameOne
  <2>9. Behind(f, t, at, i + 1, at[i + 1])
    <3>1. Top.attribs \in Seq(Attrib) /\ Len(Top.attribs) = i /\ Top.nodename = t.name
          /\ \A j \in 1 .. i : Top.attribs[j] = t.attribs[j]
      BY <1>2 DEF Frame, Part, Behind
    <3>2. i \in Nat /\ b = t.attribs[i + 1]
      BY <1>2 DEF Part
    <3>3. PICK A : A = Top.attribs
      OBVIOUS
    <3>4. /\ Len(Append(A, b)) = i + 1 /\ Append(A, b)[i + 1] = b
          /\ \A j \in 1 .. i : Append(A, b)[j] = A[j]
      BY <2>3, <3>1, <3>3, AppendProperties
    <3>5. Len(S) = i + 1 /\ S[i + 1] = b /\ \A j \in 1 .. i : S[j] = t.attribs[j]
      BY <2>5, <3>1, <3>3, <3>4
    <3>6. \A j \in 1 .. i + 1 : S[j] = t.attribs[j]
      BY <3>2, <3>5
    <3>7. at[i + 1] >= at[i + 1]
      BY <1>2 DEF Part
    <3> QED BY <2>8, <3>1, <3>5, <3>6, <3>7 DEF Behind
  <2>10. q + 1 = to /\ to = at[i + 1] /\ i + 1 \in 0 .. Len(t.attribs) /\ q + 1 \in 2 .. Len(t.chars)
    <3>1. i \in Nat /\ i + 1 \in 1 .. Len(t.attribs) /\ to = at[i + 1]
      BY <1>2 DEF Part
    <3>2. q + 1 = to /\ q + 1 \in 2 .. Len(t.chars)
      BY <1>4, <1>5, <2>1
    <3> QED BY <3>1, <3>2
  <2>11. InBody(f, t, at, i + 1, q + 1, o)
    <3>1. PICK i1 : i1 = i + 1 /\ i1 \in 0 .. Len(t.attribs)
      BY <2>10
    <3>2. Behind(f, t, at, i1, at[i1])
      BY <2>9, <3>1
    <3>3. InBody(f, t, at, i1, at[i1], o)
      BY <1>2, <2>8, <3>1, <3>2, Started DEF Part
    <3> QED BY <2>10, <3>1, <3>3
  <2>12. Spot(f, t, q + 1, o)
    <3>1. InTag(f, t, m, at, q + 1, o)
      BY <2>10, <2>11 DEF InTag
    <3> QED BY <1>2, <3>1, SpotWhen DEF Part
  <2> QED BY <1>1, <1>2, <2>8, <2>10, <2>12, NextOne
<1> QED BY <1>8, <1>9 DEF AttribVal
-----------------------------------------------------------------------------
(* NativeXml: behind "<" and the spaces *)

\* The call and the tree while the parser is inside of the token.
Inner(k, acc, t, a, b, e, exact) ==
    /\ a = acc[k] /\ b = acc[k + 1] /\ e = Flushed(a)
    /\ exact \in BOOLEAN /\ exact = (endtags = 0)
    /\ AccOK(a) /\ a.ok /\ AccOK(e) /\ e.ok /\ e.text = << >> /\ AccOK(b) /\ b = Understand(a, t)
    /\ Calls(frames, e.open) /\ Alike(nodes, cur, e, exact) /\ Grown(e, b)
    /\ Len(e.open) = Len(a.open)

LEMMA InsideIs ==
    ASSUME NEW k, NEW off, NEW acc, Context(k, off, acc), Top.state \notin Outside,
           NEW t, NEW o, NEW q, At(k, off, t, o, q)
    PROVE  \E a, b, e, exact : Inner(k, acc, t, a, b, e, exact)
<1>1. PICK a, b, e : a = acc[k] /\ b = acc[k + 1] /\ e = Flushed(a)
  OBVIOUS
<1>2. k < Len(tokens) /\ t = tokens[k + 1] /\ o = off[k] /\ t.kind # "text"
  BY DEF At
<1>3. AccOK(a) /\ a.ok /\ AccOK(b) /\ b = Understand(a, t) /\ Good(t)
  BY <1>1, <1>2, TheToken
<1>4. PICK exact \in BOOLEAN :
         exact = (endtags = 0) /\ Within(a, t, o, p, frames, nodes, cur, exact)
  BY <1>1, <1>2, Inside
<1>5. Calls(frames, e.open) /\ Alike(nodes, cur, e, exact)
  BY <1>1, <1>4 DEF Within
<1>6. AccOK(e) /\ e.text = << >> /\ e.ok = a.ok
  BY <1>1, <1>3, FlushedIs
<1>7. Grown(e, b)
  BY <1>1, <1>2, <1>3, UnderstandGrows
<1>8. Len(e.open) = Len(a.open)
  <2>1. a.text = << >> => e = a
    BY <1>1, <1>3, FlushedIs
  <2>2. a.text # << >> => Adds(a, e, "PCData", a.text, << >>, 1)
    BY <1>1, <1>3, FlushedIs
  <2> QED BY <2>1, <2>2 DEF Adds
<1>9. e.ok
  BY <1>3, <1>6, AccountIs
<1>10. Inner(k, acc, t, a, b, e, exact)
  BY <1>1, <1>3, <1>4, <1>5, <1>6, <1>7, <1>8, <1>9 DEF Inner
<1> QED BY <1>10

\* The document is wrong from here on, whatever follows.
LEMMA RejectInside ==
    ASSUME NEW k, NEW off, NEW acc, Context(k, off, acc), Top.state \notin Outside, ERROR,
           NEW t, NEW o, NEW q, At(k, off, t, o, q), ~acc[k + 1].ok
    PROVE  Follows'
<1>1. PICK a, b, e, exact :
         /\ a = acc[k] /\ b = acc[k + 1] /\ e = Flushed(a) /\ exact = (endtags = 0)
         /\ AccOK(e) /\ AccOK(b) /\ Alike(nodes, cur, e, exact) /\ Grown(e, b)
  BY InsideIs DEF Inner
<1>2. k + 1 \in 0 .. Len(tokens)
  BY DEF At, Context
<1>3. Grown(b, Understood) /\ Len(Understood.nodes) \in Nat
  BY <1>1, <1>2, ReachesTheEnd
<1>4. Len(e.nodes) \in Nat /\ Len(b.nodes) \in Nat
  BY <1>1, AccountIs
<1>5. Grown(e, Understood)
  BY <1>1, <1>3, <1>4, GrownOn
<1>6. ~Understood.ok
  BY <1>1, <1>3 DEF Grown
<1> QED BY <1>1, <1>4, <1>5, <1>6, Reject

\* What IsOther says.
OtherFacts(t, m, w) ==
    /\ t.type = "CData" =>
         /\ w[m] = "!" /\ w[m + 1] = "[" /\ m + 8 <= Len(w) - 2
         /\ \A x \in 1 .. 6 : w[m + 1 + x] \in CDATA_OPEN[x]
         /\ \A i \in m + 8 .. Len(w) - 2 :
                w[i] = "]" /\ w[i + 1] = "]" /\ w[i + 2] = ">" <=> i = Len(w) - 2
         /\ t.name = SubSeq(w, m + 8, Len(w) - 3)
    /\ t.type = "Comment" =>
         /\ w[m] = "!" /\ w[m + 1] = "-" /\ w[m + 2] = "-" /\ m + 3 <= Len(w) - 2
         /\ \A i \in m + 3 .. Len(w) - 2 :
                w[i] = "-" /\ w[i + 1] = "-" /\ w[i + 2] = ">" <=> i = Len(w) - 2
         /\ t.name = SubSeq(w, m + 3, Len(w) - 3)
         /\ Len(t.name) > 1 => Head(t.name) # "?"
    /\ t.type = "ProcessingInstruction" =>
         /\ w[m] = "?" /\ m + 1 <= Len(w) - 1
         /\ \A i \in m + 1 .. Len(w) - 1 : w[i] = "?" /\ w[i + 1] = ">" <=> i = Len(w) - 1
         /\ t.name = SubSeq(w, m + 1, Len(w) - 2)
    /\ t.type = "DocType" =>
         /\ w[m] = "!" /\ \A x \in 1 .. 7 : w[m + x] \in DOCTYPE_OPEN[x]
         /\ m + 8 <= Len(w) /\ w[Len(w)] = ">"
         /\ \A i \in m + 8 .. Len(w) : w[i] = ">" => (Brackets(w, m + 8, i) = 0 <=> i = Len(w))
         /\ t.name = SubSeq(w, m + 9, Len(w) - 1)

LEMMA EndsWithTwo ==
    ASSUME NEW w, Len(w) \in Nat, NEW from \in Nat, NEW x, NEW y, EndsWith(w, from, <<x, y>>)
    PROVE  /\ from <= Len(w) - 1
           /\ \A i \in from .. Len(w) - 1 : w[i] = x /\ w[i + 1] = y <=> i = Len(w) - 1
<1>1. PICK end : end = <<x, y>> /\ Len(end) = 2 /\ DOMAIN end = 1 .. 2 /\ end[1] = x /\ end[2] = y
  OBVIOUS
<1>2. PICK last \in Int : last = Len(w) - 1 /\ last = Len(w) - 2 + 1
  OBVIOUS
<1>3. from <= last /\ \A i \in from .. last : Spells(w, i, end) <=> i = last
  <2>1. EndsWith(w, from, end) /\ last = Len(w) - Len(end) + 1
    BY <1>1, <1>2
  <2> QED BY <2>1 DEF EndsWith
<1>4. ASSUME NEW i \in from .. last PROVE Spells(w, i, end) <=> w[i] = x /\ w[i + 1] = y
  <2>1. i + 1 - 1 = i /\ i + 2 - 1 = i + 1
    OBVIOUS
  <2>2. 1 \in 1 .. 2 /\ 2 \in 1 .. 2 /\ \A j \in 1 .. 2 : j = 1 \/ j = 2
    OBVIOUS
  <2> QED BY <1>1, <2>1, <2>2 DEF Spells
<1> QED BY <1>2, <1>3, <1>4

EndsByThree(w, from, x, y, z) ==
    /\ from <= Len(w) - 2
    /\ \A i \in from .. Len(w) - 2 : w[i] = x /\ w[i + 1] = y /\ w[i + 2] = z <=> i = Len(w) - 2

LEMMA EndsWithThree ==
    ASSUME NEW w, Len(w) \in Nat, NEW from \in Nat, NEW x, NEW y, NEW z,
           EndsWith(w, from, <<x, y, z>>)
    PROVE  EndsByThree(w, from, x, y, z)
<1>1. PICK end : /\ end = <<x, y, z>> /\ Len(end) = 3 /\ DOMAIN end = 1 .. 3
                 /\ end[1] = x /\ end[2] = y /\ end[3] = z
  OBVIOUS
<1>2. PICK last \in Int : last = Len(w) - 2 /\ last = Len(w) - 3 + 1
  <2>1. \A l \in Nat : l - 2 \in Int /\ l - 3 + 1 = l - 2
    OBVIOUS
  <2> QED BY <2>1
<1>3. from <= last /\ \A i \in from .. last : Spells(w, i, end) <=> i = last
  <2>1. EndsWith(w, from, end) /\ last = Len(w) - Len(end) + 1
    BY <1>1, <1>2
  <2> QED BY <2>1 DEF EndsWith
<1>4. ASSUME NEW i \in from .. last PROVE Spells(w, i, end) <=> w[i] = x /\ w[i + 1] = y /\ w[i + 2] = z
  <2>1. i + 1 - 1 = i /\ i + 2 - 1 = i + 1 /\ i + 3 - 1 = i + 2
    OBVIOUS
  <2>2. 1 \in 1 .. 3 /\ 2 \in 1 .. 3 /\ 3 \in 1 .. 3 /\ \A j \in 1 .. 3 : j = 1 \/ j = 2 \/ j = 3
    OBVIOUS
  <2> QED BY <1>1, <2>1, <2>2 DEF Spells
<1> QED BY <1>2, <1>3, <1>4 DEF EndsByThree

LEMMA OtherIs ==
    ASSUME NEW t, Good(t), NEW m, Sectioned(t, m), NEW w, w = t.chars
    PROVE  OtherFacts(t, m, w) /\ t.type \in {"CData", "Comment", "ProcessingInstruction", "DocType"}
           /\ m \in Nat /\ m >= 2 /\ Len(w) \in Nat /\ w \in Texts /\ m <= Len(w)
<1>1. m \in 2 .. Len(w) /\ IsOther(t, m) /\ t.kind = "other"
  BY DEF Sectioned
<1>2. w \in Texts /\ Len(w) \in Nat /\
       t.type \in {"CData", "Comment", "ProcessingInstruction", "DocType"}
  BY <1>1, TextFacts DEF Good
<1>3. m \in Nat /\ m >= 2 /\ m <= Len(w)
  BY <1>1, <1>2
<1>4. CASE t.type = "CData"
  <2>1. /\ w[m] = "!" /\ w[m + 1] = "[" /\ EndsWith(w, m + 8, <<"]", "]", ">">>)
        /\ \A x \in 1 .. 6 : w[m + 1 + x] \in CDATA_OPEN[x]
        /\ t.name = SubSeq(w, m + 8, Len(w) - 3)
    BY <1>1, <1>4 DEF IsOther
  <2>2. PICK from : from = m + 8 /\ from \in Nat
    BY <1>3
  <2>3. from <= Len(w) - 2
        /\ \A i \in from .. Len(w) - 2 :
              w[i] = "]" /\ w[i + 1] = "]" /\ w[i + 2] = ">" <=> i = Len(w) - 2
    <3>1. PICK x, y : x = "]" /\ y = ">"
      OBVIOUS
    <3>2. EndsWith(w, from, <<x, x, y>>) /\ Len(w) \in Nat
      BY <1>2, <2>1, <2>2, <3>1
    <3>3. EndsByThree(w, from, x, x, y)
      BY <2>2, <3>2, EndsWithThree
    <3> QED BY <3>1, <3>3 DEF EndsByThree
  <2> QED BY <1>2, <1>3, <1>4, <2>1, <2>2, <2>3 DEF OtherFacts
<1>5. CASE t.type = "Comment"
  <2>1. /\ w[m] = "!" /\ w[m + 1] = "-" /\ w[m + 2] = "-" /\ EndsWith(w, m + 3, <<"-", "-", ">">>)
        /\ t.name = SubSeq(w, m + 3, Len(w) - 3) /\ (Len(t.name) > 1 => Head(t.name) # "?")
    BY <1>1, <1>5 DEF IsOther
  <2>2. PICK from : from = m + 3 /\ from \in Nat
    BY <1>3
  <2>3. from <= Len(w) - 2
        /\ \A i \in from .. Len(w) - 2 :
              w[i] = "-" /\ w[i + 1] = "-" /\ w[i + 2] = ">" <=> i = Len(w) - 2
    <3>1. PICK x, y : x = "-" /\ y = ">"
      OBVIOUS
    <3>2. EndsWith(w, from, <<x, x, y>>) /\ Len(w) \in Nat
      BY <1>2, <2>1, <2>2, <3>1
    <3>3. EndsByThree(w, from, x, x, y)
      BY <2>2, <3>2, EndsWithThree
    <3> QED BY <3>1, <3>3 DEF EndsByThree
  <2> QED BY <1>2, <1>3, <1>5, <2>1, <2>2, <2>3 DEF OtherFacts
<1>6. CASE t.type = "ProcessingInstruction"
  <2>1. /\ w[m] = "?" /\ EndsWith(w, m + 1, <<"?", ">">>) /\ t.name = SubSeq(w, m + 1, Len(w) - 2)
    BY <1>1, <1>6 DEF IsOther
  <2>2. PICK from : from = m + 1 /\ from \in Nat
    BY <1>3
  <2>3. from <= Len(w) - 1
        /\ \A i \in from .. Len(w) - 1 : w[i] = "?" /\ w[i + 1] = ">" <=> i = Len(w) - 1
    <3>1. PICK x, y : x = "?" /\ y = ">"
      OBVIOUS
    <3>2. EndsWith(w, from, <<x, y>>) /\ Len(w) \in Nat
      BY <1>2, <2>1, <2>2, <3>1
    <3>3. from <= Len(w) - 1
          /\ \A i \in from .. Len(w) - 1 : w[i] = x /\ w[i + 1] = y <=> i = Len(w) - 1
      BY <2>2, <3>2, EndsWithTwo
    <3> QED BY <3>1, <3>3
  <2> QED BY <1>2, <1>3, <1>6, <2>1, <2>2, <2>3 DEF OtherFacts
<1>7. CASE t.type = "DocType"
  <2>1. /\ w[m] = "!" /\ \A x \in 1 .. 7 : w[m + x] \in DOCTYPE_OPEN[x]
        /\ m + 8 <= Len(w) /\ w[Len(w)] = ">"
        /\ \A i \in m + 8 .. Len(w) : w[i] = ">" => (Brackets(w, m + 8, i) = 0 <=> i = Len(w))
        /\ t.name = SubSeq(w, m + 9, Len(w) - 1)
    BY <1>1, <1>7 DEF IsOther
  <2> QED BY <1>2, <1>3, <1>7, <2>1 DEF OtherFacts
<1> QED BY <1>2, <1>3, <1>4, <1>5, <1>6, <1>7

\* At the first character of the markup.
LEMMA MarkupSpot ==
    ASSUME NEW k, NEW off, NEW acc, Context(k, off, acc), Top.state = "BEGIN_NODE"
    PROVE  /\ Top.state \notin Outside /\ Top.nbrackets = 0 /\ Top \in Frame
           /\ \E t, o, m : /\ At(k, off, t, o, m) /\ m \in 2 .. Len(t.chars)
                           /\ Blank(t.chars, 2, m) /\ Markup(t, m)
                           /\ t.kind \in {"open", "empty", "close", "other"}
<1>1. Top.state \notin Outside /\ Top.state # "DOCTYPE" /\ ToBe(Top) = "BEGIN_NODE"
  BY DEF Outside, ToBe
<1>2. PICK t, o, q : At(k, off, t, o, q) /\ Spot(Top, t, q, o) /\ Top.nbrackets = 0
  BY <1>1, HereAt
<1>3. PICK m : StartSpot(Top, t, m, q)
  BY <1>1, <1>2, SpotIs
<1>4. q = m /\ m \in 2 .. Len(t.chars) /\ Blank(t.chars, 2, m) /\ Markup(t, m)
  BY <1>3 DEF StartSpot, Spaced
<1>5. t.kind \in {"open", "empty", "close", "other"}
  BY <1>2 DEF At, Good
<1>6. Top \in Frame
  BY Present DEF Context
<1> QED BY <1>1, <1>2, <1>4, <1>5, <1>6

\* Which markup the first character tells.
LEMMA MarkupTells ==
    ASSUME NEW t, Good(t), NEW m \in 2 .. Len(t.chars), Blank(t.chars, 2, m), Markup(t, m),
           t.kind \in {"open", "empty", "close", "other"}, NEW ch, ch = t.chars[m]
    PROVE  /\ ch = "/" => \E e : Ended(t, m, e)
           /\ ch \notin {"!", "?", "/"} => \E at : Tagged(t, m, at)
           /\ ch = "?" => Sectioned(t, m) /\ t.type = "ProcessingInstruction"
           /\ ch = "!" => Sectioned(t, m) /\ t.type \in {"CData", "Comment", "DocType"}
<1>1. CASE t.kind \in {"open", "empty"}
  <2>1. PICK at \in [0 .. Len(t.attribs) -> m .. Len(t.chars)] : IsTag(t, m, at, TagEnd(t))
    BY <1>1, MarkupIs
  <2>2. Tagged(t, m, at)
    BY <1>1, <2>1 DEF Tagged
  <2>3. ch \in NameChars
    <3>1. TagFacts(t, m, at, t.chars, Len(t.attribs), Len(t.chars) - Len(TagEnd(t)) + 1)
      BY <1>1, <2>1, TagIs
    <3>2. Named(t.chars, m, at[0]) /\ at[0] \in m .. Len(t.chars)
      BY <3>1 DEF TagFacts
    <3>3. m \in m .. at[0] - 1
      BY <3>2 DEF Named
    <3> QED BY <3>2, <3>3 DEF Named, is_valid_char
  <2> QED BY <2>2, <2>3, CharsDiffer DEF Markups
<1>2. CASE t.kind = "close"
  <2>1. PICK e \in m .. Len(t.chars) : IsEndTag(t, m, e)
    BY <1>2, MarkupIs
  <2> QED BY <1>2, <2>1 DEF Ended, IsEndTag
<1>3. CASE t.kind = "other"
  <2>1. Sectioned(t, m)
    BY <1>3, MarkupIs DEF Sectioned
  <2>2. OtherFacts(t, m, t.chars) /\ t.type \in {"CData", "Comment", "ProcessingInstruction", "DocType"}
    BY <2>1, OtherIs
  <2>3. ch \in {"!", "?"} /\ (ch = "?" <=> t.type = "ProcessingInstruction")
    BY <2>2 DEF OtherFacts
  <2> QED BY <2>1, <2>2, <2>3
<1> QED BY <1>1, <1>2, <1>3

LEMMA BeginTagFollows ==
    ASSUME NEW k, NEW off, NEW acc, Context(k, off, acc), BeginTag
    PROVE  Follows'
<1>1. Top.state = "BEGIN_NODE" /\ c \notin {"!", "?", "/"}
  BY DEF BeginTag, Case
<1>2. PICK t, o, m : /\ At(k, off, t, o, m) /\ m \in 2 .. Len(t.chars)
                     /\ Blank(t.chars, 2, m) /\ Markup(t, m)
                     /\ t.kind \in {"open", "empty", "close", "other"}
  BY <1>1, MarkupSpot
<1>3. c = t.chars[m] /\ p = o + m /\ o \in Nat /\ m \in Nat /\ Good(t)
  BY <1>2, AtIs DEF At
<1>4. PICK at : Tagged(t, m, at)
  BY <1>1, <1>2, <1>3, MarkupTells
<1>5. m \in m .. at[0]
  <2>1. TagFacts(t, m, at, t.chars, Len(t.attribs), Len(t.chars) - Len(TagEnd(t)) + 1)
    BY <1>3, <1>4, TagIs DEF Tagged
  <2>2. m < at[0] /\ at[0] \in m .. Len(t.chars)
    BY <2>1 DEF TagFacts, Named
  <2> QED BY <1>3, <2>2
<1>6. PICK f : f = Mark("TAG_NAME", p) /\ Set(f) /\ Continue
  BY DEF BeginTag
<1>7. f.state = "TAG_NAME" /\ f.start = o + m /\ SameOne(f, Top) /\ Changed(frames, frames', f)
      /\ Top.state \notin Outside
  BY <1>1, <1>3, <1>6, FrameIs, MarkupSpot DEF SameOne
<1>8. Spot(f, t, m, o)
  <2>1. InTag(f, t, m, at, m, o)
    BY <1>5, <1>7 DEF InTag
  <2> QED BY <1>4, <2>1, SpotWhen
<1> QED BY <1>2, <1>3, <1>6, <1>7, <1>8, LooksAgain DEF At

LEMMA BeginHeaderFollows ==
    ASSUME NEW k, NEW off, NEW acc, Context(k, off, acc), BeginHeader
    PROVE  Follows'
<1>1. Top.state = "BEGIN_NODE" /\ c = "?"
  BY DEF BeginHeader, Case
<1>2. PICK t, o, m : /\ At(k, off, t, o, m) /\ m \in 2 .. Len(t.chars)
                     /\ Blank(t.chars, 2, m) /\ Markup(t, m)
                     /\ t.kind \in {"open", "empty", "close", "other"}
  BY <1>1, MarkupSpot
<1>3. c = t.chars[m] /\ p = o + m /\ o \in Nat /\ m \in Nat /\ m >= 2 /\ Len(t.chars) \in Nat /\ Good(t)
  BY <1>2, AtIs DEF At
<1>4. Sectioned(t, m) /\ t.type = "ProcessingInstruction"
  BY <1>1, <1>2, <1>3, MarkupTells
<1>5. m + 1 <= Len(t.chars) - 1
  BY <1>3, <1>4, OtherIs DEF OtherFacts
<1>6. PICK f : f = Mark("HEADER", p) /\ Set(f) /\ Break(0) /\ UNCHANGED tree
  BY DEF BeginHeader
<1>7. f.state = "HEADER" /\ f.start = o + m /\ SameOne(f, Top) /\ Changed(frames, frames', f)
      /\ Top.state \notin Outside
  BY <1>1, <1>3, <1>6, FrameIs, MarkupSpot DEF SameOne
<1>8. m + 1 \in m + 1 .. Len(t.chars) - 1 /\ m + 1 \in 2 .. Len(t.chars)
  BY <1>3, <1>5
<1>9. Spot(f, t, m + 1, o)
  <2>1. InOther(f, t, m, m + 1, o)
    BY <1>4, <1>7, <1>8 DEF InOther
  <2> QED BY <1>4, <2>1, SpotWhen
<1> QED BY <1>2, <1>6, <1>7, <1>8, <1>9, NextOne

LEMMA BeginCloseFollows ==
    ASSUME NEW k, NEW off, NEW acc, Context(k, off, acc), BeginClose
    PROVE  Follows'
<1>1. Top.state = "BEGIN_NODE" /\ c = "/"
  BY DEF BeginClose, Case
<1>2. PICK t, o, m : /\ At(k, off, t, o, m) /\ m \in 2 .. Len(t.chars)
                     /\ Blank(t.chars, 2, m) /\ Markup(t, m)
                     /\ t.kind \in {"open", "empty", "close", "other"}
  BY <1>1, MarkupSpot
<1>3. c = t.chars[m] /\ p = o + m /\ o \in Nat /\ m \in Nat /\ m >= 2 /\ Len(t.chars) \in Nat /\ Good(t)
      /\ Top.state \notin Outside /\ Top \in Frame /\ Top.nbrackets = 0
  BY <1>1, <1>2, AtIs, MarkupSpot DEF At
<1>4. PICK e : Ended(t, m, e)
  BY <1>1, <1>2, <1>3, MarkupTells
<1>5. e \in m .. Len(t.chars) /\ m + 1 < e /\ t.kind = "close"
  BY <1>4 DEF Ended, IsEndTag, Named
<1>6. CASE Top.parentname = NoName /\ ERROR
  <2>1. PICK a, b, h, exact : Inner(k, acc, t, a, b, h, exact)
    BY <1>2, <1>3, InsideIs
  <2>2. AccOK(h) /\ Calls(frames, h.open) /\ Len(h.open) = Len(a.open) /\ AccOK(a) /\ a.ok
        /\ b = acc[k + 1] /\ b = Understand(a, t)
    BY <2>1 DEF Inner
  <2>3. PICK L : L = Len(h.open) /\ L \in Nat \ {0} /\ L \in 1 .. L /\ L = Len(frames)
    BY <2>2, AccountIs DEF Calls
  <2>4. Top.parentname = h.open[L].name
    BY <2>2, <2>3 DEF Calls, Top
  <2>5. L = 1
    BY <1>6, <2>2, <2>3, <2>4 DEF AccOK
  <2>6. ~(Len(a.open) > 1)
    BY <2>2, <2>3, <2>5
  <2>7. ~b.ok
    BY <1>3, <1>5, <2>2, <2>6, CloseUnderstood
  <2> QED BY <1>2, <1>3, <1>6, <2>2, <2>7, RejectInside
<1>7. CASE Top.parentname # NoName
  <2>1. PICK f : f = [Skip("CLOSE") EXCEPT !.start = p + 1] /\ Set(f) /\ Break(0) /\ UNCHANGED tree
    BY <1>7 DEF BeginClose
  <2>2. Spaced(f, "CLOSE") /\ f.start = o + m + 1 /\ SameOne(f, Top) /\ Changed(frames, frames', f)
    <3>1. f.state = "IGNORE_SPACES" /\ f.next = "CLOSE" /\ f.start = p + 1
          /\ f.parentname = Top.parentname /\ f.nsubs = Top.nsubs /\ f.nbrackets = Top.nbrackets
      BY <1>3, <2>1 DEF Skip, Frame
    <3>2. Changed(frames, frames', f)
      BY <2>1, FrameIs
    <3> QED BY <1>3, <3>1, <3>2 DEF Spaced, SameOne
  <2>3. m + 1 \in 2 .. Len(t.chars)
    BY <1>3, <1>5
  <2>4. Spot(f, t, m + 1, o)
    <3>1. InEndTag(f, t, m, e, m + 1, o)
      BY <2>2 DEF InEndTag
    <3> QED BY <1>4, <3>1, SpotWhen
  <2> QED BY <1>2, <1>3, <2>1, <2>2, <2>3, <2>4, NextOne
<1> QED BY <1>6, <1>7 DEF BeginClose

\* The section begins behind its keyword.
LEMMA SectionFollows ==
    ASSUME NEW k, NEW off, NEW acc, Context(k, off, acc), Top.state = "BEGIN_NODE",
           NEW t, NEW o, NEW m, At(k, off, t, o, m), Sectioned(t, m),
           NEW n \in Nat, NEW st, st \notin {"IGNORE_SPACES"}, Section(TRUE, n, st),
           m + n + 1 \in 2 .. Len(t.chars),
           \A f : /\ f.state = st /\ f.start = o + (m + n + 1) /\ f.nbrackets = 0
                  => InOther(f, t, m, m + n + 1, o)
    PROVE  Follows'
<1>1. Top.state \notin Outside /\ Top \in Frame /\ Top.nbrackets = 0
  BY MarkupSpot
<1>2. m \in Nat /\ o \in Nat /\ p = o + m /\ t = tokens[k + 1] /\ o = off[k]
  BY DEF At
<1>3. PICK f : f = Mark(st, p + n + 1) /\ Set(f) /\ Break(n) /\ UNCHANGED tree
  BY DEF Section
<1>4. f.state = st /\ f.start = p + n + 1 /\ f.nbrackets = 0 /\ SameOne(f, Top) /\
       Changed(frames, frames', f)
  BY <1>1, <1>3, FrameIs DEF SameOne
<1>5. p + n + 1 = o + (m + n + 1)
  BY <1>2, Shifted
<1>6. InOther(f, t, m, m + n + 1, o)
  BY <1>4, <1>5
<1>7. Spot(f, t, m + n + 1, o)
  BY <1>6, SpotWhen
<1> QED BY <1>1, <1>2, <1>3, <1>4, <1>7, GoesOn

\* A character of the token beyond the present one.
LEMMA PeekIs ==
    ASSUME NEW k, NEW off, NEW t, NEW o, NEW q, At(k, off, t, o, q), NEW j \in Nat,
           q + j <= Len(t.chars)
    PROVE  Peek(j) = t.chars[q + j]
<1>1. q \in Nat /\ q >= 2 /\ o \in Nat /\ p = o + q /\ Len(t.chars) \in Nat
  BY AtIs
<1>2. PICK r : r = q + j
  OBVIOUS
<1>3. r \in 1 .. Len(t.chars)
  BY <1>1, <1>2
<1>4. CharAt(o + r) = t.chars[r]
  BY <1>3, CharIs DEF At
<1>5. p + j = o + r
  BY <1>1, <1>2
<1> QED BY <1>2, <1>4, <1>5 DEF Peek

\* A word that ends in the token.
LEMMA WordIs ==
    ASSUME NEW k, NEW off, NEW t, NEW o, NEW q, At(k, off, t, o, q), NEW j \in Nat, NEW n \in Nat,
           q + j + n - 1 <= Len(t.chars), NEW word, DOMAIN word = 1 .. n, NEW at, at = p + j
    PROVE  Reads(at, word) <=> \A x \in 1 .. n : t.chars[q + j + (x - 1)] \in word[x]
<1>1. q \in Nat /\ q >= 2 /\ o \in Nat /\ p = o + q /\ Len(t.chars) \in Nat /\ Lies(t, doc, o) /\
       t.chars \in Texts
  BY AtIs DEF At
<1>2. PICK m \in Nat \ {0} : m = q + j
  BY <1>1
<1>3. m + n - 1 <= Len(t.chars) /\ at = o + m
  BY <1>1, <1>2
<1>4. Reads(at, word) <=> \A x \in 1 .. n : t.chars[m + x - 1] \in word[x]
  BY <1>1, <1>3, ReadsIs
<1>5. \A x \in 1 .. n : m + x - 1 = q + j + (x - 1)
  BY <1>1, <1>2
<1> QED BY <1>4, <1>5

LEMMA DeclarationFollows ==
    ASSUME NEW k, NEW off, NEW acc, Context(k, off, acc), Declaration
    PROVE  Follows'
<1>1. Top.state = "BEGIN_NODE" /\ c = "!"
  BY DEF Declaration, Case
<1>2. PICK t, o, m : /\ At(k, off, t, o, m) /\ m \in 2 .. Len(t.chars)
                     /\ Blank(t.chars, 2, m) /\ Markup(t, m)
                     /\ t.kind \in {"open", "empty", "close", "other"}
  BY <1>1, MarkupSpot
<1>3. PICK w : w = t.chars
  OBVIOUS
<1>4. c = w[m] /\ p = o + m /\ o \in Nat /\ m \in Nat /\ m >= 2 /\ Len(w) \in Nat /\ Good(t)
  BY <1>2, <1>3, AtIs DEF At
<1>5. Sectioned(t, m) /\ t.type \in {"CData", "Comment", "DocType"}
  BY <1>1, <1>2, <1>3, <1>4, MarkupTells
<1>6. OtherFacts(t, m, w)
  BY <1>3, <1>4, <1>5, OtherIs
<1>7. CASE t.type = "CData"
  <2>1. /\ w[m + 1] = "[" /\ m + 8 <= Len(w) - 2 /\ \A x \in 1 .. 6 : w[m + 1 + x] \in CDATA_OPEN[x]
    BY <1>6, <1>7 DEF OtherFacts
  <2>2. Peek(1) = "["
    <3>1. m + 1 <= Len(t.chars)
      BY <1>3, <1>4, <2>1
    <3>2. Peek(1) = t.chars[m + 1]
      BY <1>2, <3>1, PeekIs
    <3> QED BY <1>3, <2>1, <3>2
  <2>3. Reads(p + 2, CDATA_OPEN)
    <3>1. PICK at, j, n : at = p + 2 /\ j = 2 /\ n = 6
      OBVIOUS
    <3>2. DOMAIN CDATA_OPEN = 1 .. n /\ j \in Nat /\ n \in Nat
      BY <3>1 DEF CDATA_OPEN
    <3>3. m + j + n - 1 <= Len(t.chars) /\ at = p + j
      BY <1>3, <1>4, <2>1, <3>1
    <3>4. PICK word : word = CDATA_OPEN
      OBVIOUS
    <3>5. Reads(at, word) <=> \A x \in 1 .. n : t.chars[m + j + (x - 1)] \in word[x]
      BY <1>2, <3>2, <3>3, <3>4, WordIs
    <3>6. \A x \in 1 .. 6 : m + 2 + (x - 1) = m + 1 + x
      BY <1>4
    <3> QED BY <1>3, <2>1, <3>1, <3>4, <3>5, <3>6
  <2>4. Section(TRUE, 7, "CDATA")
    BY <1>1, <2>2, <2>3 DEF Declaration
  <2>5. PICK n : n = 7 /\ n \in Nat /\ m + n + 1 = m + 8
    BY <1>4
  <2>6. m + n + 1 \in 2 .. Len(t.chars) /\ m + n + 1 \in m + 8 .. Len(w) - 2
    <3>1. m + 8 <= Len(w) - 2
      BY <2>1
    <3> QED BY <1>3, <1>4, <2>5, <3>1
  <2>7. ASSUME NEW f, f.state = "CDATA", f.start = o + (m + n + 1), f.nbrackets = 0
        PROVE  InOther(f, t, m, m + n + 1, o)
    <3>1. f.start = o + m + 8
      BY <1>4, <2>5, <2>7
    <3> QED BY <1>3, <1>7, <2>6, <2>7, <3>1 DEF InOther
  <2>8. Section(TRUE, n, "CDATA")
    BY <2>4, <2>5
  <2> QED BY <1>1, <1>2, <1>5, <2>5, <2>6, <2>7, <2>8, SectionFollows
<1>8. CASE t.type = "Comment"
  <2>1. w[m + 1] = "-" /\ w[m + 2] = "-" /\ m + 3 <= Len(w) - 2
    BY <1>6, <1>8 DEF OtherFacts
  <2>2. Peek(1) = "-"
    <3>1. m + 1 <= Len(t.chars)
      BY <1>3, <1>4, <2>1
    <3>2. Peek(1) = t.chars[m + 1]
      BY <1>2, <3>1, PeekIs
    <3> QED BY <1>3, <2>1, <3>2
  <2>3. Reads(p + 1, <<{"-"}, {"-"}>>)
    <3>1. PICK at, j, n : at = p + 1 /\ j = 1 /\ n = 2
      OBVIOUS
    <3>2. PICK word, d : d = {"-"} /\ word = <<d, d>> /\ DOMAIN word = 1 .. 2 /\ word[1] = d /\
           word[2] = d
      <4>1. \A d : DOMAIN <<d, d>> = 1 .. 2 /\ <<d, d>>[1] = d /\ <<d, d>>[2] = d
        OBVIOUS
      <4> QED BY <4>1
    <3>3. m + j + n - 1 <= Len(t.chars) /\ at = p + j /\ j \in Nat /\ n \in Nat /\ DOMAIN word = 1 .. n
      BY <1>3, <1>4, <2>1, <3>1, <3>2
    <3>5. Reads(at, word) <=> \A x \in 1 .. n : t.chars[m + j + (x - 1)] \in word[x]
      BY <1>2, <3>3, WordIs
    <3>6. \A x \in 1 .. 2 : x = 1 \/ x = 2
      OBVIOUS
    <3>7. m + 1 + (1 - 1) = m + 1 /\ m + 1 + (2 - 1) = m + 2
      BY <1>4
    <3>8. \A x \in 1 .. 2 : w[m + 1 + (x - 1)] \in word[x]
      BY <2>1, <3>2, <3>6, <3>7
    <3> QED BY <1>3, <3>1, <3>2, <3>5, <3>8
  <2>4. Section(TRUE, 2, "COMMENT")
    BY <1>1, <2>2, <2>3 DEF Declaration
  <2>5. PICK n : n = 2 /\ n \in Nat /\ m + n + 1 = m + 3
    BY <1>4
  <2>6. m + n + 1 \in 2 .. Len(t.chars) /\ m + n + 1 \in m + 3 .. Len(w) - 2
    BY <1>3, <1>4, <2>1, <2>5
  <2>7. ASSUME NEW f, f.state = "COMMENT", f.start = o + (m + n + 1), f.nbrackets = 0
        PROVE  InOther(f, t, m, m + n + 1, o)
    <3>1. f.start = o + m + 3
      BY <1>4, <2>5, <2>7
    <3> QED BY <1>3, <1>8, <2>6, <2>7, <3>1 DEF InOther
  <2>8. Section(TRUE, n, "COMMENT")
    BY <2>4, <2>5
  <2> QED BY <1>1, <1>2, <1>5, <2>5, <2>6, <2>7, <2>8, SectionFollows
<1>9. CASE t.type = "DocType"
  <2>1. m + 8 <= Len(w) /\ \A x \in 1 .. 7 : w[m + x] \in DOCTYPE_OPEN[x]
    BY <1>6, <1>9 DEF OtherFacts
  <2>2. Peek(1) \in {"D", "d"}
    <3>1. Peek(1) = w[m + 1]
      <4>1. m + 1 <= Len(t.chars)
        BY <1>3, <1>4, <2>1
      <4>2. Peek(1) = t.chars[m + 1]
        BY <1>2, <4>1, PeekIs
      <4> QED BY <1>3, <4>2
    <3>2. 1 \in 1 .. 7 /\ DOCTYPE_OPEN[1] = {"D", "d"}
      BY DEF DOCTYPE_OPEN
    <3> QED BY <2>1, <3>1, <3>2
  <2>3. Reads(p + 1, DOCTYPE_OPEN)
    <3>1. PICK at, j, n : at = p + 1 /\ j = 1 /\ n = 7
      OBVIOUS
    <3>2. DOMAIN DOCTYPE_OPEN = 1 .. n /\ j \in Nat /\ n \in Nat
      BY <3>1 DEF DOCTYPE_OPEN
    <3>3. m + j + n - 1 <= Len(t.chars) /\ at = p + j
      BY <1>3, <1>4, <2>1, <3>1
    <3>4. PICK word : word = DOCTYPE_OPEN
      OBVIOUS
    <3>5. Reads(at, word) <=> \A x \in 1 .. n : t.chars[m + j + (x - 1)] \in word[x]
      BY <1>2, <3>2, <3>3, <3>4, WordIs
    <3>6. \A x \in 1 .. 7 : m + 1 + (x - 1) = m + x
      BY <1>4
    <3> QED BY <1>3, <2>1, <3>1, <3>4, <3>5, <3>6
  <2>4. Section(TRUE, 7, "DOCTYPE")
    BY <1>1, <2>2, <2>3 DEF Declaration
  <2>5. PICK n : n = 7 /\ n \in Nat /\ m + n + 1 = m + 8
    BY <1>4
  <2>6. m + n + 1 \in 2 .. Len(t.chars) /\ m + n + 1 \in m + 8 .. Len(w)
    BY <1>3, <1>4, <2>1, <2>5
  <2>7. ASSUME NEW f, f.state = "DOCTYPE", f.start = o + (m + n + 1), f.nbrackets = 0
        PROVE  InOther(f, t, m, m + n + 1, o)
    <3>1. f.start = o + m + 8
      BY <1>4, <2>5, <2>7
    <3>2. Brackets(w, m + 8, m + 8 - 1) = 0
      <4>1. PICK none : none = m + 8 .. m + 8 - 1 /\ none = {}
        BY <1>4
      <4>2. {i \in none : w[i] = "["} = {} /\ {i \in none : w[i] = "]"} = {}
        BY <4>1
      <4>3. Cardinality({i \in none : w[i] = "["}) = 0 /\ Cardinality({i \in none : w[i] = "]"}) = 0
        BY <4>2, FS_EmptySet
      <4>4. Brackets(w, m + 8, m + 8 - 1) = 0 - 0
        BY <4>1, <4>3 DEF Brackets
      <4> QED BY <4>4
    <3>3. PICK r : r = m + n + 1 /\ r = m + 8
      BY <2>5
    <3>6. m + 8 - 1 = r - 1
      BY <1>4, <3>3
    <3>7. Brackets(w, m + 8, r - 1) = 0
      BY <3>2, <3>6
    <3>4. f.nbrackets = Brackets(w, m + 8, r - 1) /\ f.start = o + m + 8 /\ f.state = "DOCTYPE"
          /\ r \in m + 8 .. Len(w)
      BY <2>6, <2>7, <3>1, <3>3, <3>7
    <3>5. InOther(f, t, m, r, o)
      BY <1>3, <1>9, <3>4 DEF InOther
    <3> QED BY <3>3, <3>5
  <2>8. Section(TRUE, n, "DOCTYPE")
    BY <2>4, <2>5
  <2> QED BY <1>1, <1>2, <1>5, <2>5, <2>6, <2>7, <2>8, SectionFollows
<1> QED BY <1>5, <1>7, <1>8, <1>9
-----------------------------------------------------------------------------
(* NativeXml: sections *)

\* The last round of a token that has one node.
LEMMA TokenEnds ==
    ASSUME NEW k, NEW off, NEW acc, Context(k, off, acc),
           NEW t, NEW o, NEW q, At(k, off, t, o, q),
           NEW a, NEW b, NEW e, NEW exact, Inner(k, acc, t, a, b, e, exact), b.ok, b.text = << >>,
           NEW type, NEW value, NEW attribs, NEW n, Adds(e, b, type, value, attribs, n),
           nodes' = Append(nodes, [type |-> type, value |-> value, attribs |-> attribs, parent |-> cur]),
           cur' = cur, UNCHANGED inputs, result' = result, endtags' = endtags,
           p' = o + Len(t.chars) + 1,
           NEW f, Changed(frames, frames', f), f.state = "BEGIN", f.nbrackets = 0, SameCall(f, Top, n)
    PROVE  Follows'
<1>0. k < Len(tokens) /\ t = tokens[k + 1] /\ o = off[k] /\ a = acc[k] /\ b = acc[k + 1]
  BY DEF At, Inner
<1>1. k < Len(tokens) /\ off[k + 1] = o + Len(t.chars)
  BY <1>0, TheToken
<1>2. /\ b = acc[k + 1] /\ exact \in BOOLEAN /\ exact = (endtags = 0) /\ AccOK(e)
      /\ Calls(frames, e.open) /\ Alike(nodes, cur, e, exact)
  BY DEF Inner
<1>3. PICK fr, fr2, ns, ns2, cu : fr = frames /\ fr2 = frames' /\ ns = nodes /\ ns2 = nodes' /\ cu = cur
  OBVIOUS
<1>4. ns \in Seq(XmlNode)
  BY <1>3 DEF Context, XmlInv, NodesOK
<1>5. Alike(ns2, cu, b, exact)
  BY <1>2, <1>3, <1>4, AlikeAdd
<1>6. Calls(fr2, b.open) /\ LastOf(fr2) = f
  <2>1. LastOf(fr) = Top
    BY <1>3 DEF LastOf, Top
  <2> QED BY <1>2, <1>3, <2>1, CallsAdd
<1>7. exact = (endtags' = 0) /\ p' = off[k + 1] + 1
  BY <1>1, <1>2
<1> QED BY <1>1, <1>2, <1>3, <1>5, <1>6, <1>7, StayBehind

LEMMA SectionEnds ==
    ASSUME NEW k, NEW off, NEW acc, Context(k, off, acc), Top.state \notin Outside,
           NEW t, NEW o, NEW q, At(k, off, t, o, q), t.kind = "other",
           Add(t.type, t.name), NEW j \in Nat, Break(j), q + j = Len(t.chars),
           NEW f, Changed(frames, frames', f), f.state = "BEGIN", f.nbrackets = 0,
           NEW n, n = (IF t.type = "CData" THEN 1 ELSE 0), SameCall(f, Top, n)
    PROVE  Follows'
<1>1. PICK a, b, e, exact : Inner(k, acc, t, a, b, e, exact)
  BY InsideIs
<1>2. AccOK(a) /\ a.ok /\ b = Understand(a, t) /\ e = Flushed(a)
  BY <1>1 DEF Inner
<1>3. b.ok /\ b.text = << >> /\ Adds(e, b, t.type, t.name, << >>, n)
  BY <1>2, OtherUnderstood DEF At
<1>4. PICK none : none = << >>
  OBVIOUS
<1>5. nodes' = Append(nodes, [type |-> t.type, value |-> t.name, attribs |-> none, parent |-> cur])
      /\ cur' = cur
  BY <1>4 DEF Add, Node
<1>6. UNCHANGED inputs /\ result' = result /\ endtags' = endtags /\ p' = p + j + 1
  BY DEF Break
<1>7. p' = o + Len(t.chars) + 1
  <2>1. p = o + q /\ o \in Nat /\ q \in Nat
    BY AtIs
  <2> QED BY <1>6, <2>1
<1>8. Adds(e, b, t.type, t.name, none, n)
  BY <1>3, <1>4
<1> QED BY <1>1, <1>3, <1>5, <1>6, <1>7, <1>8, TokenEnds

LEMMA OtherSpot ==
    ASSUME NEW k, NEW off, NEW acc, Context(k, off, acc), Top.state \in OtherStates
    PROVE  /\ Top.state \notin Outside /\ Top \in Frame /\ (Top.state # "DOCTYPE" => Top.nbrackets = 0)
           /\ \E t, o, q, m :
                /\ At(k, off, t, o, q) /\ Sectioned(t, m) /\ OtherFacts(t, m, t.chars)
                /\ m \in Nat /\ m >= 2 /\ t.kind = "other"
                /\ InOther(Top, t, m, q, o)
<1>1. Top.state \notin Outside /\ ToBe(Top) = Top.state
  BY DEF OtherStates, Outside, ToBe
<1>2. PICK t, o, q : At(k, off, t, o, q) /\ Spot(Top, t, q, o) /\
       (Top.nbrackets = 0 \/ Top.state = "DOCTYPE")
  BY <1>1, HereAt
<1>3. PICK m : Sectioned(t, m) /\ InOther(Top, t, m, q, o)
  BY <1>1, <1>2, SpotIs
<1>4. OtherFacts(t, m, t.chars) /\ m \in Nat /\ m >= 2 /\ t.kind = "other"
  BY <1>2, <1>3, OtherIs DEF At, Sectioned
<1>5. Top \in Frame
  BY Present DEF Context
<1> QED BY <1>1, <1>2, <1>3, <1>4, <1>5

IsWord2(words, x, y) == words = <<{x}, {y}>>
IsWord3(words, x, y, z) == words = <<{x}, {y}, {z}>>

\* Two or three characters from the present one on.
LEMMA ReadsThree ==
    ASSUME NEW k, NEW off, NEW t, NEW o, NEW q, At(k, off, t, o, q), q <= Len(t.chars) - 2,
           NEW x, NEW y, NEW z, NEW words, IsWord3(words, x, y, z)
    PROVE  Reads(p, words) <=> t.chars[q] = x /\ t.chars[q + 1] = y /\ t.chars[q + 2] = z
<1>1. q \in Nat /\ Len(t.chars) \in Nat /\ p \in Nat /\ o \in Nat
  <2>1. p = o + q /\ q \in Nat /\ o \in Nat /\ Len(t.chars) \in Nat
    BY AtIs
  <2> QED BY <2>1
<1>2. PICK u, v, w, word :
        /\ u = {x} /\ v = {y} /\ w = {z} /\ word = <<u, v, w>> /\ DOMAIN word = 1 .. 3
        /\ word[1] = u /\ word[2] = v /\ word[3] = w
  <2>1. PICK u, v, w : u = {x} /\ v = {y} /\ w = {z}
    OBVIOUS
  <2>2. PICK word : word = <<u, v, w>>
    OBVIOUS
  <2>3. DOMAIN word = 1 .. 3 /\ word[1] = u /\ word[2] = v /\ word[3] = w
    BY <2>2
  <2> QED BY <2>1, <2>2, <2>3
<1>3. PICK j, n, at : j = 0 /\ n = 3 /\ at = p
  OBVIOUS
<1>4. j \in Nat /\ n \in Nat /\ q + j + n - 1 <= Len(t.chars) /\ at = p + j /\ DOMAIN word = 1 .. n
  BY <1>1, <1>2, <1>3
<1>5. Reads(at, word) <=> \A i \in 1 .. n : t.chars[q + j + (i - 1)] \in word[i]
  BY <1>4, WordIs
<1>6. /\ q + 0 + (1 - 1) = q /\ q + 0 + (2 - 1) = q + 1 /\ q + 0 + (3 - 1) = q + 2
      /\ 1 \in 1 .. 3 /\ 2 \in 1 .. 3 /\ 3 \in 1 .. 3 /\ \A i \in 1 .. 3 : i = 1 \/ i = 2 \/ i = 3
  BY <1>1
<1>7. Reads(p, word) <=> t.chars[q] \in word[1] /\ t.chars[q + 1] \in word[2] /\ t.chars[q + 2] \in word[3]
  BY <1>3, <1>5, <1>6
<1> QED BY <1>2, <1>7 DEF IsWord3

LEMMA ReadsTwo ==
    ASSUME NEW k, NEW off, NEW t, NEW o, NEW q, At(k, off, t, o, q), q <= Len(t.chars) - 1,
           NEW x, NEW y, NEW words, IsWord2(words, x, y)
    PROVE  Reads(p, words) <=> t.chars[q] = x /\ t.chars[q + 1] = y
<1>1. q \in Nat /\ Len(t.chars) \in Nat /\ p \in Nat /\ o \in Nat
  <2>1. p = o + q /\ q \in Nat /\ o \in Nat /\ Len(t.chars) \in Nat
    BY AtIs
  <2> QED BY <2>1
<1>2. PICK u, v, word :
        u = {x} /\ v = {y} /\ word = <<u, v>> /\ DOMAIN word = 1 .. 2 /\ word[1] = u /\ word[2] = v
  <2>1. PICK u, v : u = {x} /\ v = {y}
    OBVIOUS
  <2>2. PICK word : word = <<u, v>>
    OBVIOUS
  <2>3. DOMAIN word = 1 .. 2 /\ word[1] = u /\ word[2] = v
    BY <2>2
  <2> QED BY <2>1, <2>2, <2>3
<1>3. PICK j, n, at : j = 0 /\ n = 2 /\ at = p
  OBVIOUS
<1>4. j \in Nat /\ n \in Nat /\ q + j + n - 1 <= Len(t.chars) /\ at = p + j /\ DOMAIN word = 1 .. n
  BY <1>1, <1>2, <1>3
<1>5. Reads(at, word) <=> \A i \in 1 .. n : t.chars[q + j + (i - 1)] \in word[i]
  BY <1>4, WordIs
<1>6. /\ q + 0 + (1 - 1) = q /\ q + 0 + (2 - 1) = q + 1
      /\ 1 \in 1 .. 2 /\ 2 \in 1 .. 2 /\ \A i \in 1 .. 2 : i = 1 \/ i = 2
  BY <1>1
<1>7. Reads(p, word) <=> t.chars[q] \in word[1] /\ t.chars[q + 1] \in word[2]
  BY <1>3, <1>5, <1>6
<1> QED BY <1>2, <1>7 DEF IsWord2

LEMMA CdataFollows ==
    ASSUME NEW k, NEW off, NEW acc, Context(k, off, acc), Cdata
    PROVE  Follows'
<1>1. Top.state = "CDATA" /\ Top.state \in OtherStates
  BY DEF Cdata, Case, OtherStates
<1>2. PICK t, o, q, m :
        /\ At(k, off, t, o, q) /\ Sectioned(t, m) /\ OtherFacts(t, m, t.chars)
        /\ m \in Nat /\ m >= 2 /\ t.kind = "other" /\ InOther(Top, t, m, q, o)
        /\ Top.state \notin Outside /\ Top \in Frame /\ Top.nbrackets = 0
  BY <1>1, OtherSpot
<1>3. PICK w, L : w = t.chars /\ L = Len(w)
  OBVIOUS
<1>4. q \in Nat /\ q >= 2 /\ L \in Nat /\ p = o + q /\ o \in Nat
  BY <1>2, <1>3, AtIs
<1>5. t.type = "CData" /\ Top.start = o + m + 8 /\ q \in m + 8 .. L - 2
  BY <1>1, <1>2, <1>3 DEF InOther
<1>6. /\ \A i \in m + 8 .. L - 2 : w[i] = "]" /\ w[i + 1] = "]" /\ w[i + 2] = ">" <=> i = L - 2
      /\ t.name = SubSeq(w, m + 8, L - 3)
  BY <1>2, <1>3, <1>5 DEF OtherFacts
<1>7. Reads(p, <<{"]"}, {"]"}, {">"}>>) <=> q = L - 2
  <2>1. PICK x, y : x = "]" /\ y = ">"
    OBVIOUS
  <2>2. q <= Len(t.chars) - 2
    BY <1>2, <1>3, <1>4, <1>5
  <2>3. PICK words : words = <<{x}, {x}, {y}>> /\ IsWord3(words, x, x, y)
    BY DEF IsWord3
  <2>4. Reads(p, words) <=> t.chars[q] = x /\ t.chars[q + 1] = x /\ t.chars[q + 2] = y
    BY <1>2, <2>2, <2>3, ReadsThree
  <2> QED BY <1>3, <1>5, <1>6, <2>1, <2>3, <2>4
<1>8. CASE q = L - 2
  <2>1. cdata(Slice(start, p)) /\ Set([Goto("BEGIN") EXCEPT !.nsubs = @ + 1]) /\ Break(2)
    BY <1>7, <1>8 DEF Cdata
  <2>2. Slice(start, p) = t.name
    <3>1. PICK s, x : s = Top.start /\ x = m + 8
      OBVIOUS
    <3>2. x \in Nat \ {0} /\ s = o + x
      BY <1>2, <1>4, <1>5, <3>1
    <3>3. Slice(s, p) = SubSeq(t.chars, x, q - 1)
      BY <1>2, <3>2, MarkedIs
    <3>4. q - 1 = L - 3
      BY <1>4, <1>8
    <3> QED BY <1>3, <1>6, <3>1, <3>3, <3>4 DEF start
  <2>3. Add(t.type, t.name)
    BY <1>5, <2>1, <2>2 DEF cdata
  <2>4. PICK f : f = [Goto("BEGIN") EXCEPT !.nsubs = @ + 1] /\ Set(f)
    BY <2>1
  <2>5. f.state = "BEGIN" /\ f.nbrackets = 0 /\ SameCall(f, Top, 1) /\ Changed(frames, frames', f)
    <3>1. f.state = "BEGIN" /\ f.nbrackets = 0 /\ f.parentname = Top.parentname /\
           f.nsubs = Top.nsubs + 1
      BY <1>2, <2>4 DEF Goto, Frame
    <3>2. Changed(frames, frames', f)
      BY <2>4, FrameIs
    <3> QED BY <3>1, <3>2 DEF SameCall
  <2>6. PICK j, n : j = 2 /\ n = 1 /\ j \in Nat
    OBVIOUS
  <2>7. q + j = Len(t.chars) /\ n = (IF t.type = "CData" THEN 1 ELSE 0) /\ Break(j) /\
         SameCall(f, Top, n)
    BY <1>3, <1>4, <1>5, <1>8, <2>1, <2>5, <2>6
  <2> QED BY <1>2, <2>3, <2>5, <2>6, <2>7, SectionEnds
<1>9. CASE q # L - 2
  <2>1. Break(0) /\ UNCHANGED <<frames, tree>>
    BY <1>7, <1>9 DEF Cdata
  <2>2. q + 1 \in m + 8 .. L - 2 /\ q + 1 \in 2 .. Len(t.chars)
    BY <1>2, <1>3, <1>4, <1>5, <1>9
  <2>3. InOther(Top, t, m, q + 1, o)
    BY <1>1, <1>3, <1>5, <2>2 DEF InOther
  <2>4. Spot(Top, t, q + 1, o)
    BY <1>2, <2>3, SpotWhen
  <2> QED BY <1>2, <1>4, <2>1, <2>2, <2>4, ReadsMore DEF At
<1> QED BY <1>8, <1>9

LEMMA CommentFollows ==
    ASSUME NEW k, NEW off, NEW acc, Context(k, off, acc), Comment
    PROVE  Follows'
<1>1. Top.state = "COMMENT" /\ Top.state \in OtherStates
  BY DEF Comment, Case, OtherStates
<1>2. PICK t, o, q, m :
        /\ At(k, off, t, o, q) /\ Sectioned(t, m) /\ OtherFacts(t, m, t.chars)
        /\ m \in Nat /\ m >= 2 /\ t.kind = "other" /\ InOther(Top, t, m, q, o)
        /\ Top.state \notin Outside /\ Top \in Frame /\ Top.nbrackets = 0
  BY <1>1, OtherSpot
<1>3. PICK w, L : w = t.chars /\ L = Len(w)
  OBVIOUS
<1>4. q \in Nat /\ q >= 2 /\ L \in Nat /\ p = o + q /\ o \in Nat
  BY <1>2, <1>3, AtIs
<1>5. t.type = "Comment" /\ Top.start = o + m + 3 /\ q \in m + 3 .. L - 2
  BY <1>1, <1>2, <1>3 DEF InOther
<1>6. /\ \A i \in m + 3 .. L - 2 : w[i] = "-" /\ w[i + 1] = "-" /\ w[i + 2] = ">" <=> i = L - 2
      /\ t.name = SubSeq(w, m + 3, L - 3) /\ (Len(t.name) > 1 => Head(t.name) # "?")
  BY <1>2, <1>3, <1>5 DEF OtherFacts
<1>7. Reads(p, <<{"-"}, {"-"}, {">"}>>) <=> q = L - 2
  <2>1. PICK x, y : x = "-" /\ y = ">"
    OBVIOUS
  <2>2. q <= Len(t.chars) - 2
    BY <1>2, <1>3, <1>4, <1>5
  <2>3. PICK words : words = <<{x}, {x}, {y}>> /\ IsWord3(words, x, x, y)
    BY DEF IsWord3
  <2>4. Reads(p, words) <=> t.chars[q] = x /\ t.chars[q + 1] = x /\ t.chars[q + 2] = y
    BY <1>2, <2>2, <2>3, ReadsThree
  <2> QED BY <1>3, <1>5, <1>6, <2>1, <2>3, <2>4
<1>8. CASE q = L - 2
  <2>1. comment(Slice(start, p)) /\ Set(Goto("BEGIN")) /\ Break(2)
    BY <1>7, <1>8 DEF Comment
  <2>2. Slice(start, p) = t.name
    <3>1. PICK s, x : s = Top.start /\ x = m + 3
      OBVIOUS
    <3>2. x \in Nat \ {0} /\ s = o + x
      BY <1>2, <1>4, <1>5, <3>1
    <3>3. Slice(s, p) = SubSeq(t.chars, x, q - 1)
      BY <1>2, <3>2, MarkedIs
    <3>4. q - 1 = L - 3
      BY <1>4, <1>8
    <3> QED BY <1>3, <1>6, <3>1, <3>3, <3>4 DEF start
  <2>3. Add(t.type, t.name)
    BY <1>5, <1>6, <2>1, <2>2 DEF comment
  <2>4. PICK f : f = Goto("BEGIN") /\ Set(f)
    BY <2>1
  <2>5. f.state = "BEGIN" /\ f.nbrackets = 0 /\ SameCall(f, Top, 0) /\ Changed(frames, frames', f)
    <3>1. f.state = "BEGIN" /\ f.nbrackets = 0 /\ f.parentname = Top.parentname /\ f.nsubs = Top.nsubs
          /\ Top.nsubs \in Nat
      BY <1>2, <2>4 DEF Goto, Frame
    <3>2. Changed(frames, frames', f)
      BY <2>4, FrameIs
    <3> QED BY <3>1, <3>2 DEF SameCall
  <2>6. PICK j, n : j = 2 /\ n = 0 /\ j \in Nat
    OBVIOUS
  <2>7. q + j = Len(t.chars) /\ n = (IF t.type = "CData" THEN 1 ELSE 0) /\ Break(j) /\
         SameCall(f, Top, n)
    BY <1>3, <1>4, <1>5, <1>8, <2>1, <2>5, <2>6
  <2> QED BY <1>2, <2>3, <2>5, <2>6, <2>7, SectionEnds
<1>9. CASE q # L - 2
  <2>1. Break(0) /\ UNCHANGED <<frames, tree>>
    BY <1>7, <1>9 DEF Comment
  <2>2. q + 1 \in m + 3 .. L - 2 /\ q + 1 \in 2 .. Len(t.chars)
    BY <1>2, <1>3, <1>4, <1>5, <1>9
  <2>3. InOther(Top, t, m, q + 1, o)
    BY <1>1, <1>3, <1>5, <2>2 DEF InOther
  <2>4. Spot(Top, t, q + 1, o)
    BY <1>2, <2>3, SpotWhen
  <2> QED BY <1>2, <1>4, <2>1, <2>2, <2>4, ReadsMore DEF At
<1> QED BY <1>8, <1>9

\* s is a piece of w, and from y to z is what s has behind its first up to x.
Rest(s, h, x, w, m, n, y, z) ==
    /\ w \in Texts /\ m \in Nat \ {0} /\ n \in Int /\ n <= Len(w) /\ m - 1 <= n
    /\ s = SubSeq(w, m, n) /\ x \in Int /\ x <= n - m + 1 /\ y = m + 1 /\ z = (m + x) - 1 /\ h = 2

PieceOf(s, w, m, n) == Len(s) = n - m + 1 /\ (m <= n => s[1] = w[m])

LEMMA RestOfPiece ==
    ASSUME NEW s, NEW h, NEW x, NEW w, NEW m, NEW n, NEW y, NEW z, Rest(s, h, x, w, m, n, y, z)
    PROVE  PieceOf(s, w, m, n) /\ SamePiece(s, h, x, w, y, z)
<1>0. /\ w \in Texts /\ m \in Nat \ {0} /\ n \in Int /\ n <= Len(w) /\ m - 1 <= n
      /\ s = SubSeq(w, m, n) /\ x \in Int /\ x <= n - m + 1 /\ y = m + 1 /\ z = (m + x) - 1 /\ h = 2
  BY DEF Rest
<1>1. w \in Seq(Character) /\ Len(w) \in Nat
  BY <1>0, TextFacts DEF Texts
<1>2. \A i \in m .. n : w[i] \in Character
  BY <1>0, <1>1, ElementOfSeq
<1>3. /\ s \in Seq(Character) /\ Len(s) = IF m <= n THEN n - m + 1 ELSE 0
      /\ \A i \in 1 .. n - m + 1 : s[i] = w[m + i - 1]
  BY <1>0, <1>2, SubSeqProperties
<1>4. Len(s) = n - m + 1
  BY <1>0, <1>3
<1>5. ASSUME m <= n PROVE s[1] = w[m]
  <2>1. 1 \in 1 .. n - m + 1 /\ m + 1 - 1 = m
    BY <1>0, <1>5
  <2> QED BY <1>3, <2>1
<1>6. PICK t, o : t = [chars |-> s] /\ o = m - 1
  OBVIOUS
<1>7. t.chars = s /\ o \in Nat /\ t.chars \in Texts
  BY <1>0, <1>3, <1>6 DEF Texts
<1>8. Lies(t, w, o)
  <2>1. o + Len(t.chars) <= Len(w)
    BY <1>0, <1>1, <1>4, <1>6, <1>7
  <2>2. ASSUME NEW j \in 1 .. Len(t.chars) PROVE w[o + j] = t.chars[j]
    <3>1. j \in 1 .. n - m + 1 /\ o + j = m + j - 1
      BY <1>0, <1>4, <1>6, <1>7, <2>2
    <3> QED BY <1>3, <1>7, <3>1
  <2> QED BY <1>7, <2>1, <2>2 DEF Lies
<1>9. w \in Texts
  BY <1>0
<1>10. h \in Nat \ {0} /\ x \in Int /\ x <= Len(t.chars)
  BY <1>0, <1>4, <1>7
<1>11. y = o + h /\ z = o + x
  BY <1>0, <1>6
<1>12. SamePiece(t.chars, h, x, w, y, z)
  <2>1. x \in Int /\ x <= Len(t.chars)
    BY <1>10
  <2>2. h \in Nat \ {0}
    BY <1>10
  <2> QED BY <1>7, <1>8, <1>9, <1>11, <2>1, <2>2, PieceAgain
<1> QED BY <1>4, <1>5, <1>7, <1>12 DEF PieceOf

LEMMA HeaderFollows ==
    ASSUME NEW k, NEW off, NEW acc, Context(k, off, acc), Header
    PROVE  Follows'
<1>1. Top.state = "HEADER" /\ Top.state \in OtherStates
  BY DEF Header, Case, OtherStates
<1>2. PICK t, o, q, m :
        /\ At(k, off, t, o, q) /\ Sectioned(t, m) /\ OtherFacts(t, m, t.chars)
        /\ m \in Nat /\ m >= 2 /\ t.kind = "other" /\ InOther(Top, t, m, q, o)
        /\ Top.state \notin Outside /\ Top \in Frame /\ Top.nbrackets = 0
  BY <1>1, OtherSpot
<1>3. PICK w, L : w = t.chars /\ L = Len(w)
  OBVIOUS
<1>4. q \in Nat /\ q >= 2 /\ L \in Nat /\ p = o + q /\ o \in Nat /\ w \in Texts
  BY <1>2, <1>3, AtIs DEF At
<1>5. t.type = "ProcessingInstruction" /\ Top.start = o + m /\ q \in m + 1 .. L - 1
  BY <1>1, <1>2, <1>3 DEF InOther
<1>6. /\ \A i \in m + 1 .. L - 1 : w[i] = "?" /\ w[i + 1] = ">" <=> i = L - 1
      /\ t.name = SubSeq(w, m + 1, L - 2) /\ w[m] = "?"
  BY <1>2, <1>3, <1>5 DEF OtherFacts
<1>7. Reads(p, <<{"?"}, {">"}>>) <=> q = L - 1
  <2>1. PICK x, y : x = "?" /\ y = ">"
    OBVIOUS
  <2>2. q <= Len(t.chars) - 1
    BY <1>2, <1>3, <1>4, <1>5
  <2>3. PICK words : words = <<{x}, {y}>> /\ IsWord2(words, x, y)
    BY DEF IsWord2
  <2>4. Reads(p, words) <=> t.chars[q] = x /\ t.chars[q + 1] = y
    BY <1>2, <2>2, <2>3, ReadsTwo
  <2> QED BY <1>3, <1>5, <1>6, <2>1, <2>3, <2>4
<1>8. CASE q = L - 1
  <2>1. comment(Slice(start, p + 1)) /\ Set(Goto("BEGIN")) /\ Break(1)
    BY <1>7, <1>8 DEF Header
  <2>2. PICK s : s = SubSeq(w, m, q)
    OBVIOUS
  <2>3. Slice(start, p + 1) = s
    <3>1. PICK st, at, n : st = Top.start /\ at = p + 1 /\ n = q
      OBVIOUS
    <3>2. m \in Nat \ {0} /\ st = o + m /\ n \in Int /\ n <= Len(t.chars) /\ at - 1 = o + n
      BY <1>2, <1>3, <1>4, <1>5, <1>8, <3>1
    <3>3. Slice(st, at) = SubSeq(t.chars, m, n)
      BY <1>2, <3>2, SliceIs
    <3> QED BY <1>3, <2>2, <3>1, <3>3 DEF start
  <2>4. /\ Len(s) = q - m + 1 /\ s[1] = w[m] /\ Len(s) > 1
        /\ SubSeq(s, 2, Len(s) - 1) = SubSeq(w, m + 1, L - 2)
    <3>1. PICK x, y, z : x = q - m /\ y = m + 1 /\ z = (m + x) - 1
      OBVIOUS
    <3>2. m \in Nat \ {0} /\ q \in Int /\ q <= Len(w) /\ m - 1 <= q /\ x \in Int /\
           x <= q - m + 1 /\ m <= q
      BY <1>2, <1>3, <1>4, <1>5, <1>8, <3>1
    <3>3. /\ Len(s) = q - m + 1 /\ (m <= q => s[1] = w[m])
          /\ SubSeq(s, 2, x) = SubSeq(w, y, z)
      <4>1. PICK h : h = 2
        OBVIOUS
      <4>2. Rest(s, h, x, w, m, q, y, z)
        BY <1>4, <2>2, <3>1, <3>2, <4>1 DEF Rest
      <4>3. PieceOf(s, w, m, q) /\ SamePiece(s, h, x, w, y, z)
        BY <4>2, RestOfPiece
      <4> QED BY <4>1, <4>3 DEF PieceOf, SamePiece
    <3>4. Len(s) - 1 = x /\ z = L - 2 /\ Len(s) > 1
      <4>1. m + x = q
        BY <1>2, <1>4, <3>1
      <4>2. m + 1 <= q
        BY <1>2, <1>4, <1>5
      <4>3. Len(s) = q - m + 1 /\ x \in Int
        BY <3>2, <3>3
      <4>4. q - m + 1 - 1 = q - m /\ q - m + 1 > 1
        BY <1>2, <1>4, <4>2
      <4>5. z = L - 2
        BY <1>2, <1>4, <1>8, <3>1
      <4> QED BY <3>1, <4>3, <4>4, <4>5
    <3> QED BY <3>1, <3>2, <3>3, <3>4
  <2>5. Add(t.type, t.name)
    <3>1. Head(s) = "?"
      <4>1. Head(s) = s[1]
        BY <2>4
      <4> QED BY <1>6, <2>4, <4>1
    <3> QED BY <1>5, <1>6, <2>1, <2>3, <2>4, <3>1 DEF comment
  <2>6. PICK f : f = Goto("BEGIN") /\ Set(f)
    BY <2>1
  <2>7. f.state = "BEGIN" /\ f.nbrackets = 0 /\ SameCall(f, Top, 0) /\ Changed(frames, frames', f)
    <3>1. f.state = "BEGIN" /\ f.nbrackets = 0 /\ f.parentname = Top.parentname /\ f.nsubs = Top.nsubs
          /\ Top.nsubs \in Nat
      BY <1>2, <2>6 DEF Goto, Frame
    <3>2. Changed(frames, frames', f)
      BY <2>6, FrameIs
    <3> QED BY <3>1, <3>2 DEF SameCall
  <2>8. PICK j, n : j = 1 /\ n = 0 /\ j \in Nat
    OBVIOUS
  <2>9. q + j = Len(t.chars) /\ n = (IF t.type = "CData" THEN 1 ELSE 0) /\ Break(j) /\
         SameCall(f, Top, n)
    BY <1>3, <1>4, <1>5, <1>8, <2>1, <2>7, <2>8
  <2> QED BY <1>2, <2>5, <2>7, <2>8, <2>9, SectionEnds
<1>9. CASE q # L - 1
  <2>1. Break(0) /\ UNCHANGED <<frames, tree>>
    BY <1>7, <1>9 DEF Header
  <2>2. q + 1 \in m + 1 .. L - 1 /\ q + 1 \in 2 .. Len(t.chars)
    BY <1>2, <1>3, <1>4, <1>5, <1>9
  <2>3. InOther(Top, t, m, q + 1, o)
    BY <1>1, <1>3, <1>5, <2>2 DEF InOther
  <2>4. Spot(Top, t, q + 1, o)
    BY <1>2, <2>3, SpotWhen
  <2> QED BY <1>2, <1>4, <2>1, <2>2, <2>4, ReadsMore DEF At
<1> QED BY <1>8, <1>9
-----------------------------------------------------------------------------
(* NativeXml: the brackets of a document type *)

Places(w, x, from, to) == {i \in from .. to : w[i] = x}

LEMMA CountsOn ==
    ASSUME NEW w, NEW x, NEW from \in Nat, NEW q \in Nat, from <= q, NEW before, before = q - 1
    PROVE  /\ Cardinality(Places(w, x, from, before)) \in Nat
           /\ Cardinality(Places(w, x, from, q)) =
                 IF w[q] = x THEN Cardinality(Places(w, x, from, before)) + 1
                 ELSE Cardinality(Places(w, x, from, before))
<1>0. PICK S, T : /\ S = Places(w, x, from, before) /\ T = Places(w, x, from, q)
                  /\ S = {i \in from .. q - 1 : w[i] = x} /\ T = {i \in from .. q : w[i] = x}
  BY DEF Places
<1>1. IsFiniteSet(S) /\ Cardinality(S) \in Nat
  <2>1. IsFiniteSet(from .. q - 1)
    BY FS_Interval
  <2>2. S \subseteq from .. q - 1
    BY <1>0
  <2>3. IsFiniteSet(S)
    BY <2>1, <2>2, FS_Subset
  <2> QED BY <2>3, FS_CardinalityType
<1>2. CASE w[q] = x
  <2>1. T = S \union {q} /\ q \notin S
    BY <1>0, <1>2
  <2>2. Cardinality(S \union {q}) = Cardinality(S) + 1
    BY <1>1, <2>1, FS_AddElement
  <2> QED BY <1>0, <1>1, <1>2, <2>1, <2>2
<1>3. CASE w[q] # x
  <2>1. T = S
    BY <1>0, <1>3
  <2> QED BY <1>0, <1>1, <1>3, <2>1
<1> QED BY <1>2, <1>3

\* What a character does to the brackets that are open.
LEMMA BracketsOn ==
    ASSUME NEW w, NEW from \in Nat, NEW q \in Nat, from <= q
    PROVE  /\ Brackets(w, from, q - 1) \in Int
           /\ w[q] = "[" => Brackets(w, from, q) = Brackets(w, from, q - 1) + 1
           /\ w[q] = "]" => Brackets(w, from, q) = Brackets(w, from, q - 1) - 1
           /\ w[q] \notin {"[", "]"} => Brackets(w, from, q) = Brackets(w, from, q - 1)
<1>1. PICK x, y, before : x = "[" /\ y = "]" /\ x # y /\ before = q - 1
  OBVIOUS
<1>2. PICK i, n : i = Cardinality(Places(w, x, from, before)) /\ n = Cardinality(Places(w, x, from, q))
  OBVIOUS
<1>3. PICK j, r : j = Cardinality(Places(w, y, from, before)) /\ r = Cardinality(Places(w, y, from, q))
  OBVIOUS
<1>4. before = q - 1
  BY <1>1
<1>5. i \in Nat /\ n = IF w[q] = x THEN i + 1 ELSE i
  BY <1>2, <1>4, CountsOn
<1>6. j \in Nat /\ r = IF w[q] = y THEN j + 1 ELSE j
  BY <1>3, <1>4, CountsOn
<1>7. Brackets(w, from, before) = i - j /\ Brackets(w, from, q) = n - r
  BY <1>1, <1>2, <1>3 DEF Brackets, Places
<1>8. PICK b, g : b = Brackets(w, from, before) /\ g = Brackets(w, from, q)
  OBVIOUS
<1>9. /\ b \in Int /\ (w[q] = x => g = b + 1) /\ (w[q] = y => g = b - 1)
      /\ (w[q] # x /\ w[q] # y => g = b)
  BY <1>1, <1>5, <1>6, <1>7, <1>8
<1> QED BY <1>1, <1>8, <1>9

LEMMA DoctypeFollows ==
    ASSUME NEW k, NEW off, NEW acc, Context(k, off, acc), Doctype
    PROVE  Follows'
<1>1. Top.state = "DOCTYPE" /\ Top.state \in OtherStates /\ Break(0)
  BY DEF Doctype, Case, OtherStates
<1>2. PICK t, o, q, m :
        /\ At(k, off, t, o, q) /\ Sectioned(t, m) /\ OtherFacts(t, m, t.chars)
        /\ m \in Nat /\ m >= 2 /\ t.kind = "other" /\ InOther(Top, t, m, q, o)
        /\ Top.state \notin Outside /\ Top \in Frame
  BY <1>1, OtherSpot
<1>3. PICK w, L, r : w = t.chars /\ L = Len(w) /\ r = m + 8
  OBVIOUS
<1>4. /\ q \in Nat /\ q >= 2 /\ L \in Nat /\ p = o + q /\ o \in Nat /\ w \in Texts /\ c = w[q]
      /\ r \in Nat /\ r >= 10
  BY <1>2, <1>3, AtIs DEF At
<1>5. /\ t.type = "DocType" /\ Top.start = o + m + 8 /\ q \in r .. L
      /\ Top.nbrackets = Brackets(w, r, q - 1)
  BY <1>1, <1>2, <1>3 DEF InOther
<1>6. /\ w[L] = ">" /\ \A i \in r .. L : w[i] = ">" => (Brackets(w, r, i) = 0 <=> i = L)
      /\ t.name = SubSeq(w, m + 9, L - 1) /\ r <= L
  BY <1>2, <1>3, <1>5 DEF OtherFacts
<1>7. /\ Brackets(w, r, q - 1) \in Int
      /\ w[q] = "[" => Brackets(w, r, q) = Brackets(w, r, q - 1) + 1
      /\ w[q] = "]" => Brackets(w, r, q) = Brackets(w, r, q - 1) - 1
      /\ w[q] \notin {"[", "]"} => Brackets(w, r, q) = Brackets(w, r, q - 1)
  BY <1>4, <1>5, BracketsOn
<1>8. ASSUME q # L, NEW f, Changed(frames, frames', f), f.state = "DOCTYPE", f.start = Top.start,
             f.parentname = Top.parentname, f.nsubs = Top.nsubs, f.nbrackets = Brackets(w, r, q),
             UNCHANGED tree
      PROVE  Follows'
  <2>1. q + 1 \in r .. L /\ q + 1 \in 2 .. Len(t.chars) /\ (q + 1) - 1 = q
    BY <1>2, <1>3, <1>4, <1>5, <1>8
  <2>2. InOther(f, t, m, q + 1, o)
    BY <1>3, <1>5, <1>8, <2>1 DEF InOther
  <2>3. Spot(f, t, q + 1, o)
    BY <1>2, <2>2, SpotWhen
  <2>4. SameOne(f, Top)
    BY <1>8 DEF SameOne
  <2> QED BY <1>1, <1>2, <1>8, <2>1, <2>3, <2>4, NextOne
<1>9. CASE c = "["
  <2>1. Set([Top EXCEPT !.nbrackets = @ + 1]) /\ UNCHANGED tree
    BY <1>9 DEF Doctype
  <2>2. PICK f : f = [Top EXCEPT !.nbrackets = @ + 1] /\ Set(f)
    BY <2>1
  <2>3. Changed(frames, frames', f)
    BY <2>2, FrameIs
  <2>4. /\ f.state = Top.state /\ f.start = Top.start /\ f.parentname = Top.parentname
        /\ f.nsubs = Top.nsubs /\ f.nbrackets = Top.nbrackets + 1
    BY <1>2, <2>2 DEF Frame
  <2>5. f.nbrackets = Brackets(w, r, q) /\ q # L
    BY <1>4, <1>5, <1>6, <1>7, <1>9, <2>4
  <2> QED BY <1>1, <1>8, <2>1, <2>3, <2>4, <2>5
<1>10. CASE c = "]"
  <2>1. Set([Top EXCEPT !.nbrackets = @ - 1]) /\ UNCHANGED tree
    BY <1>10 DEF Doctype
  <2>2. PICK f : f = [Top EXCEPT !.nbrackets = @ - 1] /\ Set(f)
    BY <2>1
  <2>3. Changed(frames, frames', f)
    BY <2>2, FrameIs
  <2>4. /\ f.state = Top.state /\ f.start = Top.start /\ f.parentname = Top.parentname
        /\ f.nsubs = Top.nsubs /\ f.nbrackets = Top.nbrackets - 1
    BY <1>2, <2>2 DEF Frame
  <2>5. f.nbrackets = Brackets(w, r, q) /\ q # L
    BY <1>4, <1>5, <1>6, <1>7, <1>10, <2>4
  <2> QED BY <1>1, <1>8, <2>1, <2>3, <2>4, <2>5
<1>11. CASE c \notin {"[", "]"} /\ ~(c = ">" /\ Top.nbrackets = 0)
  <2>1. UNCHANGED <<frames, tree>>
    BY <1>11 DEF Doctype
  <2>2. Top.nbrackets = Brackets(w, r, q)
    BY <1>4, <1>5, <1>7, <1>11
  <2>3. q # L
    BY <1>4, <1>5, <1>6, <1>11, <2>2
  <2>4. Changed(frames, frames', Top)
    BY <2>1, NothingChanges DEF Context, XmlInv
  <2>5. PICK f : f = Top
    OBVIOUS
  <2>6. f.state = Top.state /\ f.start = Top.start /\ f.parentname = Top.parentname
        /\ f.nsubs = Top.nsubs /\ f.nbrackets = Brackets(w, r, q) /\ Changed(frames, frames', f)
    BY <2>2, <2>4, <2>5
  <2> QED BY <1>1, <1>8, <2>1, <2>3, <2>6
<1>12. CASE c = ">" /\ Top.nbrackets = 0
  <2>1. doctype(Slice(start, p)) /\ Set(Goto("BEGIN"))
    BY <1>12 DEF Doctype
  <2>2. q = L
    BY <1>4, <1>5, <1>6, <1>7, <1>12
  <2>3. PICK s : s = SubSeq(w, r, q - 1)
    OBVIOUS
  <2>4. Slice(start, p) = s
    <3>1. PICK st, x : st = Top.start /\ x = r
      OBVIOUS
    <3>2. x \in Nat \ {0} /\ st = o + x
      <4>1. m \in Nat /\ o \in Nat /\ r = m + 8
        BY <1>2, <1>3, <1>4
      <4>2. o + m + 8 = o + (m + 8) /\ m + 8 \in Nat \ {0}
        BY <4>1
      <4> QED BY <1>5, <3>1, <4>1, <4>2
    <3>3. Slice(st, p) = SubSeq(t.chars, x, q - 1)
      BY <1>2, <3>2, MarkedIs
    <3> QED BY <1>3, <2>3, <3>1, <3>3 DEF start
  <2>5. SubSeq(s, 2, Len(s)) = t.name
    <3>1. PICK h, n, x, y, z : h = 2 /\ n = q - 1 /\ x = n - r + 1 /\ y = r + 1 /\ z = (r + x) - 1
      OBVIOUS
    <3>2. /\ r \in Nat \ {0} /\ n \in Int /\ n <= Len(w) /\ r - 1 <= n /\ x \in Int /\ x <= n - r + 1
          /\ y = m + 9 /\ z = L - 1
      <4>1. m \in Nat /\ r = m + 8 /\ r \in Nat /\ r >= 10 /\ L \in Nat /\ r <= L /\ Len(w) = L /\ q = L
        BY <1>2, <1>3, <1>4, <1>6, <2>2
      <4> QED BY <3>1, <4>1
    <3>3. Rest(s, h, x, w, r, n, y, z)
      BY <1>4, <2>3, <3>1, <3>2 DEF Rest
    <3>4. PieceOf(s, w, r, n) /\ SamePiece(s, h, x, w, y, z)
      BY <3>3, RestOfPiece
    <3> QED BY <1>6, <3>1, <3>2, <3>4 DEF PieceOf, SamePiece
  <2>6. Add(t.type, t.name)
    BY <1>5, <2>1, <2>4, <2>5 DEF doctype
  <2>7. PICK f : f = Goto("BEGIN") /\ Set(f)
    BY <2>1
  <2>8. f.state = "BEGIN" /\ f.nbrackets = 0 /\ SameCall(f, Top, 0) /\ Changed(frames, frames', f)
    <3>1. f.state = "BEGIN" /\ f.nbrackets = 0 /\ f.parentname = Top.parentname /\ f.nsubs = Top.nsubs
          /\ Top.nsubs \in Nat
      BY <1>2, <1>12, <2>7 DEF Goto, Frame
    <3>2. Changed(frames, frames', f)
      BY <2>7, FrameIs
    <3> QED BY <3>1, <3>2 DEF SameCall
  <2>9. PICK j, n : j = 0 /\ n = 0 /\ j \in Nat
    OBVIOUS
  <2>10. q + j = Len(t.chars) /\ n = (IF t.type = "CData" THEN 1 ELSE 0) /\ Break(j) /\
          SameCall(f, Top, n)
    BY <1>1, <1>3, <1>4, <1>5, <2>2, <2>8, <2>9
  <2> QED BY <1>2, <2>6, <2>8, <2>9, <2>10, SectionEnds
<1> QED BY <1>9, <1>10, <1>11, <1>12
-----------------------------------------------------------------------------
(* NativeXml: what is behind the attributes of a tag *)

\* The parser is behind i attributes of t, and at the next or at the end of the tag.
InFront(t, o, q, m, at, i, n, last) ==
    /\ Tagged(t, m, at) /\ TagFacts(t, m, at, t.chars, n, last)
    /\ n = Len(t.attribs) /\ last = Len(t.chars) - Len(TagEnd(t)) + 1
    /\ i \in Nat /\ i \in 0 .. n /\ Behind(Top, t, at, i, q)
    /\ i = n => q = last
    /\ i # n => \E x, y, z, v \in at[i] .. at[i + 1] :
                   /\ Attribute(t.chars, t.attribs[i + 1], at[i], x, y, z, v, at[i + 1])
                   /\ q = x

LEMMA BodySpot ==
    ASSUME NEW k, NEW off, NEW acc, Context(k, off, acc), Top.state = "BODY"
    PROVE  /\ Top.state \notin Outside /\ Top.nbrackets = 0 /\ Top \in Frame
           /\ \E t, o, q, m, at, i, n, last : At(k, off, t, o, q) /\ InFront(t, o, q, m, at, i, n, last)
<1>1. Top.state \in TagStates /\ Top.state \notin Outside /\ Top.state # "TAG_NAME"
  BY DEF TagStates, Outside
<1>2. PICK t, o, q, m, at :
        /\ At(k, off, t, o, q) /\ Tagged(t, m, at) /\ InTag(Top, t, m, at, q, o)
        /\ TagFacts(t, m, at, t.chars, Len(t.attribs), Len(t.chars) - Len(TagEnd(t)) + 1)
        /\ Top.nbrackets = 0
  BY <1>1, TagSpot
<1>3. PICK i \in 0 .. Len(t.attribs) : InBody(Top, t, at, i, q, o)
  BY <1>1, <1>2, BodyIs
<1>4. PICK n, last : n = Len(t.attribs) /\ last = Len(t.chars) - Len(TagEnd(t)) + 1
  OBVIOUS
<1>5. n \in Nat /\ TagFacts(t, m, at, t.chars, n, last)
  BY <1>2, <1>4 DEF TagFacts
<1>6. i \in Nat /\ i \in 0 .. n
  BY <1>3, <1>4, <1>5
<1>7. Behind(Top, t, at, i, q)
  BY <1>3, BodyWhen
<1>8. i = n => q = last
  BY <1>3, <1>4 DEF InBody, Spaced
<1>9. ASSUME i # n
      PROVE \E x, y, z, v \in at[i] .. at[i + 1] :
                   /\ Attribute(t.chars, t.attribs[i + 1], at[i], x, y, z, v, at[i + 1])
                   /\ q = x
  <2>1. i < n
    BY <1>5, <1>6, <1>9
  <2>2. PICK x \in at[i] .. at[i + 1], y \in at[i] .. at[i + 1], z \in at[i] .. at[i + 1],
             v \in at[i] .. at[i + 1] :
          /\ Attribute(t.chars, t.attribs[i + 1], at[i], x, y, z, v, at[i + 1])
          /\ InAttrib(Top, t.chars, t.attribs[i + 1], x, y, z, v, at[i + 1], q, o)
    BY <1>3, <1>4, <2>1 DEF InBody
  <2>3. q = x
    BY <2>2 DEF InAttrib, Spaced
  <2> QED BY <2>2, <2>3
<1>10. InFront(t, o, q, m, at, i, n, last)
  BY <1>2, <1>4, <1>5, <1>6, <1>7, <1>8, <1>9 DEF InFront
<1>11. Top \in Frame
  BY Present DEF Context
<1> QED BY <1>1, <1>2, <1>10, <1>11

\* All attributes are read: the tag is complete.
LEMMA TagComplete ==
    ASSUME NEW t, NEW o, NEW q, NEW m, NEW at, NEW i, NEW n, NEW last,
           InFront(t, o, q, m, at, i, n, last), i = n, Good(t), Top \in Frame, Len(t.chars) \in Nat,
           NEW w, w = t.chars
    PROVE  /\ Top.nodename = t.name /\ Top.attribs = t.attribs /\ t.name \in Texts /\ q = last
           /\ t.kind = "open" => w[q] = ">" /\ q = Len(w)
           /\ t.kind = "empty" => w[q] = "/" /\ q = Len(w) - 1
           /\ t.kind \in {"open", "empty"} /\ w[Len(w)] = ">"
<1>1. /\ TagFacts(t, m, at, w, n, last) /\ Behind(Top, t, at, i, q) /\ q = last /\ n = Len(t.attribs)
      /\ t.kind \in {"open", "empty"} /\ n \in Nat
  BY DEF InFront, Tagged, TagFacts
<1>2. t.attribs \in Seq(Attrib) /\ t.name \in Texts
  BY <1>1 DEF Good
<1>3. Top.attribs \in Seq(Attrib)
  BY DEF Frame
<1>4. Top.nodename = t.name /\ Len(Top.attribs) = Len(t.attribs)
      /\ \A j \in 1 .. Len(t.attribs) : Top.attribs[j] = t.attribs[j]
  BY <1>1 DEF Behind
<1>5. Top.attribs = t.attribs
  BY <1>2, <1>3, <1>4, SeqEqual
<1>6. /\ last = IF t.kind = "open" THEN Len(w) ELSE Len(w) - 1
      /\ w[last] = IF t.kind = "open" THEN ">" ELSE "/"
      /\ w[Len(w)] = ">"
  BY <1>1 DEF TagFacts
<1> QED BY <1>1, <1>2, <1>4, <1>5, <1>6

\* The element comes to the tree.
LEMMA ElementAdded ==
    ASSUME NEW ns \in Seq(XmlNode), NEW cu, NEW e, NEW exact, Alike(ns, cu, e, exact), AccOK(e),
           NEW b, NEW name, NEW attribs, NEW n, Adds(e, b, "Element", name, attribs, n),
           nodes = ns, cur = cu, xml(name, attribs)
    PROVE  /\ Alike(nodes', cu, b, exact) /\ nodes'[cur'].parent = cu /\ cur' = Len(b.nodes)
<1>1. PICK type, ns2 : type = "Element" /\ ns2 = nodes'
  OBVIOUS
<1>2. ns2 = Append(ns, [type |-> type, value |-> name, attribs |-> attribs, parent |-> cu])
  BY <1>1 DEF xml, Node
<1>3. cur' = Len(ns) + 1
  BY DEF xml
<1>4. Adds(e, b, type, name, attribs, n)
  BY <1>1
<1>5. Alike(ns2, cu, b, exact)
  BY <1>2, <1>4, AlikeAdd
<1>6. PICK new : new = [type |-> type, value |-> name, attribs |-> attribs, parent |-> cu]
  OBVIOUS
<1>7. PICK S : S = XmlNode \union {new}
  OBVIOUS
<1>8. ns \in Seq(S) /\ new \in S
  BY <1>7
<1>9. Len(ns2) = Len(ns) + 1 /\ ns2[Len(ns) + 1] = new
  <2>1. ns2 = Append(ns, new)
    BY <1>2, <1>6
  <2>2. Len(Append(ns, new)) = Len(ns) + 1 /\ Append(ns, new)[Len(ns) + 1] = new
    BY <1>8, AppendProperties
  <2> QED BY <2>1, <2>2
<1>10. Len(b.nodes) = Len(ns2)
  BY <1>5 DEF Alike
<1> QED BY <1>1, <1>3, <1>5, <1>6, <1>9, <1>10

\* A call more, for the element that was opened.
LEMMA CallsPush ==
    ASSUME NEW fr \in Seq(Frame), NEW new, NEW g, AccOK(g), NEW b, NEW name, Opens(b, g, name),
           Calls(fr, g.open), LastOf(fr).nbrackets = 0, new.parentname = name, new.nsubs = 0
    PROVE  Calls(Append(fr, new), b.open)
<1>1. PICK M, S : M = Len(fr) /\ S = Frame \union {new}
  OBVIOUS
<1>2. fr \in Seq(S) /\ new \in S
  BY <1>1
<1>3. PICK fr2 : fr2 = Append(fr, new)
  OBVIOUS
<1>4. Len(fr2) = M + 1 /\ fr2[M + 1] = new /\ \A i \in 1 .. M : fr2[i] = fr[i]
  <2>1. /\ Len(Append(fr, new)) = M + 1 /\ Append(fr, new)[M + 1] = new
        /\ \A i \in 1 .. M : Append(fr, new)[i] = fr[i]
    BY <1>1, <1>2, AppendProperties
  <2> QED BY <1>3, <2>1
<1>5. /\ M \in Nat \ {0} /\ Len(g.open) = M /\ Len(b.open) = M + 1
      /\ \A i \in 1 .. M : b.open[i] = g.open[i]
  <2>1. Len(g.open) = M /\ Len(g.open) \in Nat \ {0}
    BY <1>1, AccountIs DEF Calls
  <2> QED BY <2>1 DEF Opens
<1>6. b.open[M + 1].name = name /\ b.open[M + 1].subs = 0
  BY <1>5 DEF Opens, TheOpen
<1>7. ASSUME NEW i \in 1 .. Len(b.open)
      PROVE  /\ fr2[i].parentname = b.open[i].name /\ fr2[i].nsubs = b.open[i].subs
             /\ i < Len(b.open) => fr2[i].nbrackets = 0
  <2>1. CASE i = M + 1
    BY <1>4, <1>5, <1>6, <2>1
  <2>2. CASE i # M + 1
    <3>1. i \in 1 .. M
      BY <1>5, <2>2
    <3>2. fr[i].parentname = g.open[i].name /\ fr[i].nsubs = g.open[i].subs
          /\ (i < M => fr[i].nbrackets = 0)
      BY <1>5, <3>1 DEF Calls
    <3>3. i = M => fr[i].nbrackets = 0
      BY <1>1 DEF LastOf
    <3>4. i < M \/ i = M
      BY <1>5, <3>1
    <3> QED BY <1>4, <1>5, <3>1, <3>2, <3>3, <3>4
  <2> QED BY <2>1, <2>2
<1> QED BY <1>3, <1>4, <1>5, <1>7 DEF Calls

\* The end of an element without an end tag is waited for.
LEMMA EmptyWaits ==
    ASSUME NEW k, NEW off, NEW acc, Context(k, off, acc), Top.state \notin Outside,
           NEW t, NEW o, NEW q, At(k, off, t, o, q), t.kind = "empty", q = Len(t.chars) - 1,
           t.chars[Len(t.chars)] = ">", xml(t.name, t.attribs), Break(0),
           NEW f, Changed(frames, frames', f), f.state = "WAIT_END", f.nbrackets = 0, SameCall(f, Top, 1)
    PROVE  Follows'
<1>1. PICK a, b, e, exact : Inner(k, acc, t, a, b, e, exact)
  BY InsideIs
<1>2. /\ AccOK(a) /\ a.ok /\ b = Understand(a, t) /\ e = Flushed(a) /\ AccOK(e) /\ b = acc[k + 1]
      /\ exact = (endtags = 0) /\ Calls(frames, e.open) /\ Alike(nodes, cur, e, exact) /\ a = acc[k]
  BY <1>1 DEF Inner
<1>3. b.ok /\ b.text = << >> /\ Adds(e, b, "Element", t.name, t.attribs, 1)
  <2>1. Good(t)
    BY DEF At
  <2>2. b.ok /\ b.text = << >> /\ Adds(Flushed(a), b, "Element", t.name, t.attribs, 1)
    BY <1>2, <2>1, EmptyUnderstood
  <2> QED BY <1>2, <2>2
<1>4. PICK fr, fr2, ns, cu : fr = frames /\ fr2 = frames' /\ ns = nodes /\ cu = cur
  OBVIOUS
<1>5. ns \in Seq(XmlNode)
  BY <1>4 DEF Context, XmlInv, NodesOK
<1>6. Alike(nodes', cu, b, exact) /\ nodes'[cur'].parent = cu
  BY <1>2, <1>3, <1>4, <1>5, ElementAdded
<1>7. Calls(fr2, b.open) /\ LastOf(fr2) = f
  <2>1. LastOf(fr) = Top
    BY <1>4 DEF LastOf, Top
  <2> QED BY <1>2, <1>3, <1>4, <2>1, CallsAdd
<1>8. /\ UNCHANGED inputs /\ result' = "parsing" /\ endtags' = endtags /\ p' = o + Len(t.chars)
      /\ k < Len(tokens) /\ t = tokens[k + 1] /\ o = off[k] /\ k \in 0 .. Len(tokens)
  <2>1. p = o + q /\ o \in Nat /\ q \in Nat /\ Len(t.chars) \in Nat
    BY AtIs
  <2>2. k < Len(tokens) /\ t = tokens[k + 1] /\ o = off[k] /\ k \in 0 .. Len(tokens)
    BY DEF At, Context
  <2>3. p' = p + 0 + 1 /\ UNCHANGED inputs /\ result' = "parsing" /\ endtags' = endtags
    BY DEF Break, Context
  <2>4. PICK L : L = Len(t.chars)
    OBVIOUS
  <2>5. q + 0 + 1 = L /\ o + q + 0 + 1 = o + L
    BY <2>1, <2>4
  <2>6. p' = o + L
    BY <2>1, <2>3, <2>5
  <2> QED BY <2>2, <2>3, <2>4, <2>6
<1>9. PICK ns2, cu2, pos : ns2 = nodes' /\ cu2 = cur' /\ pos = p'
  OBVIOUS
<1>10. Waiting(b, t, o, pos, fr2, ns2, cu2, exact)
  BY <1>6, <1>7, <1>8, <1>9 DEF Waiting
<1>11. Stands(k, tokens, doc, off, acc, pos, fr2, ns2, cu2, exact)
  BY <1>2, <1>8, <1>10 DEF Stands
<1> QED BY <1>2, <1>4, <1>8, <1>9, <1>11, Stay

\* A call that goes through the children of the element is due.
LEMMA ElementOpens ==
    ASSUME NEW k, NEW off, NEW acc, Context(k, off, acc), Top.state \notin Outside,
           NEW t, NEW o, NEW q, At(k, off, t, o, q), t.kind = "open", q = Len(t.chars),
           xml(t.name, t.attribs), Break(0),
           NEW f, Changed(frames, frames', f), f.state = "CHILDS", f.nbrackets = 0, f.nodename = t.name,
           SameCall(f, Top, 1), frames' \in Seq(Frame)
    PROVE  Follows'
<1>1. PICK a, b, e, exact : Inner(k, acc, t, a, b, e, exact)
  BY InsideIs
<1>2. /\ AccOK(a) /\ a.ok /\ b = Understand(a, t) /\ e = Flushed(a) /\ AccOK(e) /\ b = acc[k + 1]
      /\ exact = (endtags = 0) /\ Calls(frames, e.open) /\ Alike(nodes, cur, e, exact) /\ a = acc[k]
  BY <1>1 DEF Inner
<1>3. /\ b.ok /\ b.text = << >>
      /\ \E g : Adds(e, g, "Element", t.name, t.attribs, 1) /\ Opens(b, g, t.name) /\ AccOK(g)
  <2>1. Good(t) /\ t.name # NoName
    BY TagHasName DEF At
  <2> QED BY <1>2, <2>1, OpenUnderstood
<1>4. PICK g : Adds(e, g, "Element", t.name, t.attribs, 1) /\ Opens(b, g, t.name) /\ AccOK(g)
  BY <1>3
<1>5. PICK fr, fr2, ns, cu : fr = frames /\ fr2 = frames' /\ ns = nodes /\ cu = cur
  OBVIOUS
<1>6. ns \in Seq(XmlNode)
  BY <1>5 DEF Context, XmlInv, NodesOK
<1>7. Alike(nodes', cu, g, exact) /\ cur' = Len(g.nodes)
  BY <1>2, <1>4, <1>5, <1>6, ElementAdded
<1>8. Calls(fr2, g.open) /\ LastOf(fr2) = f
  <2>1. LastOf(fr) = Top
    BY <1>5 DEF LastOf, Top
  <2> QED BY <1>2, <1>4, <1>5, <2>1, CallsAdd
<1>9. PICK ns2, cu2, pos : ns2 = nodes' /\ cu2 = cur' /\ pos = p'
  OBVIOUS
<1>10. Alike(ns2, cu2, b, exact)
  <2>1. b.nodes = g.nodes /\ TheOpen(b).node = Len(g.nodes)
    BY <1>4 DEF Opens
  <2> QED BY <1>7, <1>9, <2>1 DEF Alike
<1>11. Calls(Append(fr2, do_parse_xml(f.nodename)), b.open)
  <2>1. PICK new : new = do_parse_xml(f.nodename) /\ new.parentname = t.name /\ new.nsubs = 0
    <3>1. PICK name : name = f.nodename
      OBVIOUS
    <3>2. do_parse_xml(name).parentname = name /\ do_parse_xml(name).nsubs = 0
      BY DEF do_parse_xml
    <3> QED BY <3>1, <3>2
  <2>2. LastOf(fr2).nbrackets = 0 /\ fr2 \in Seq(Frame)
    BY <1>5, <1>8
  <2>3. PICK name : name = t.name
    OBVIOUS
  <2>4. Opens(b, g, name) /\ new.parentname = name /\ new.nsubs = 0
    BY <1>4, <2>1, <2>3
  <2>5. Calls(Append(fr2, new), b.open)
    BY <1>4, <1>8, <2>2, <2>4, CallsPush
  <2> QED BY <2>1, <2>5
<1>12. /\ UNCHANGED inputs /\ result' = "parsing" /\ endtags' = endtags /\ k < Len(tokens)
       /\ k + 1 \in 0 .. Len(tokens) /\ p' = off[k + 1] + 1
  <2>1. p = o + q /\ o \in Nat /\ q \in Nat /\ Len(t.chars) \in Nat
    BY AtIs
  <2>2. k < Len(tokens) /\ t = tokens[k + 1] /\ o = off[k] /\ k \in 0 .. Len(tokens) /\
         Len(tokens) \in Nat
    BY DEF At, Context
  <2>3. off[k + 1] = o + Len(t.chars)
    BY <2>2, TheToken
  <2>4. p' = p + 0 + 1 /\ UNCHANGED inputs /\ result' = "parsing" /\ endtags' = endtags
    BY DEF Break, Context
  <2>5. p' = off[k + 1] + 1
    BY <2>1, <2>3, <2>4
  <2>6. k + 1 \in 0 .. Len(tokens)
    BY <2>2
  <2> QED BY <2>2, <2>4, <2>5, <2>6
<1>13. PICK at : at = off[k + 1]
  OBVIOUS
<1>14. Between(b, at, pos, fr2, ns2, cu2, exact)
  BY <1>3, <1>8, <1>9, <1>10, <1>11, <1>12, <1>13 DEF Between
<1>15. PICK j : j = k + 1
  OBVIOUS
<1>16. Stands(j, tokens, doc, off, acc, pos, fr2, ns2, cu2, exact)
  BY <1>2, <1>3, <1>13, <1>14, <1>15 DEF Stands
<1>17. exact = (endtags' = 0) /\ j \in 0 .. Len(tokens) /\
        Stands(j, tokens, doc, off, acc, p', frames', nodes', cur', exact)
  BY <1>2, <1>5, <1>9, <1>12, <1>15, <1>16
<1> QED BY <1>12, <1>17, Stay

LEMMA BodyFollows ==
    ASSUME NEW k, NEW off, NEW acc, Context(k, off, acc), Body
    PROVE  Follows'
<1>1. Top.state = "BODY"
  BY DEF Body, Case
<1>2. PICK t, o, q, m, at, i, n, last : At(k, off, t, o, q) /\ InFront(t, o, q, m, at, i, n, last)
  BY <1>1, BodySpot
<1>3. Top.state \notin Outside /\ Top.nbrackets = 0 /\ Top \in Frame
  BY <1>1, BodySpot
<1>4. /\ q \in Nat /\ q >= 2 /\ q <= Len(t.chars) /\ Len(t.chars) \in Nat /\ o \in Nat
      /\ p = o + q /\ c = t.chars[q] /\ q \in 2 .. Len(t.chars) /\ Good(t)
  BY <1>2, AtIs DEF At
<1>5. frames' \in Seq(Frame)
  BY BodyStep DEF Context, XmlInv, FramesOK
<1>6. CASE i = n
  <2>1. /\ Top.nodename = t.name /\ Top.attribs = t.attribs /\ t.name \in Texts /\ q = last
        /\ t.kind = "open" => t.chars[q] = ">" /\ q = Len(t.chars)
        /\ t.kind = "empty" => t.chars[q] = "/" /\ q = Len(t.chars) - 1
        /\ t.kind \in {"open", "empty"} /\ t.chars[Len(t.chars)] = ">"
    <3>1. PICK w : w = t.chars
      OBVIOUS
    <3>2. /\ Top.nodename = t.name /\ Top.attribs = t.attribs /\ t.name \in Texts /\ q = last
          /\ t.kind = "open" => w[q] = ">" /\ q = Len(w)
          /\ t.kind = "empty" => w[q] = "/" /\ q = Len(w) - 1
          /\ t.kind \in {"open", "empty"} /\ w[Len(w)] = ">"
      BY <1>2, <1>3, <1>4, <1>6, <3>1, TagComplete
    <3> QED BY <3>1, <3>2
  <2>2. c \in {"/", ">"}
    BY <1>4, <2>1
  <2>3. xml(Top.nodename, Top.attribs) /\ Break(0)
        /\ Set([Goto(IF c = "/" THEN "WAIT_END" ELSE "CHILDS") EXCEPT !.nsubs = @ + 1])
    BY <2>2 DEF Body
  <2>4. xml(t.name, t.attribs)
    BY <2>1, <2>3
  <2>5. PICK st : st = IF c = "/" THEN "WAIT_END" ELSE "CHILDS"
    OBVIOUS
  <2>6. PICK f : f = [Goto(st) EXCEPT !.nsubs = @ + 1] /\ Set(f)
    BY <2>3, <2>5
  <2>7. /\ f.state = st /\ f.nbrackets = 0 /\ f.nodename = t.name /\ f.parentname = Top.parentname
        /\ f.nsubs = Top.nsubs + 1
    BY <1>3, <2>1, <2>6 DEF Goto, Frame
  <2>8. Changed(frames, frames', f) /\ SameCall(f, Top, 1)
    BY <2>6, <2>7, FrameIs DEF SameCall
  <2>9. CASE t.kind = "empty"
    <3>1. st = "WAIT_END"
      BY <1>4, <2>1, <2>5, <2>9
    <3> QED BY <1>2, <1>3, <2>1, <2>3, <2>4, <2>7, <2>8, <2>9, <3>1, EmptyWaits
  <2>10. CASE t.kind = "open"
    <3>1. st = "CHILDS"
      BY <1>4, <2>1, <2>5, <2>10
    <3> QED BY <1>2, <1>3, <1>5, <2>1, <2>3, <2>4, <2>7, <2>8, <2>10, <3>1, ElementOpens
  <2> QED BY <2>1, <2>9, <2>10
<1>7. CASE i # n
  <2>1. /\ Tagged(t, m, at) /\ TagFacts(t, m, at, t.chars, n, last) /\ n = Len(t.attribs)
        /\ i \in Nat /\ i \in 0 .. n /\ Behind(Top, t, at, i, q)
    BY <1>2 DEF InFront
  <2>2. n \in Nat /\ (\A j \in 0 .. n : at[j] \in m .. Len(t.chars)) /\ m \in 2 .. Len(t.chars)
    BY <2>1 DEF TagFacts, Tagged
  <2>3. i + 1 \in 0 .. n
    BY <1>7, <2>1, <2>2
  <2>4. PICK from, to, b : from = at[i] /\ to = at[i + 1] /\ b = t.attribs[i + 1]
    OBVIOUS
  <2>5. PICK x \in from .. to, y \in from .. to, z \in from .. to, v \in from .. to :
          Attribute(t.chars, b, from, x, y, z, v, to) /\ q = x
    BY <1>2, <1>7, <2>4 DEF InFront
  <2>6. from \in Nat /\ to \in Nat
    BY <1>4, <2>1, <2>2, <2>3, <2>4
  <2>7. AttributeFacts(t.chars, b, from, x, y, z, v, to)
    <3>1. from <= to /\ Attribute(t.chars, b, from, x, y, z, v, to)
      BY <2>5, <2>6
    <3> QED BY <2>5, <2>6, <3>1, AttributeIs
  <2>8. x \in Nat /\ y \in Nat /\ x < y /\ t.chars[x] \in NameChars
    BY <2>7 DEF AttributeFacts
  <2>9. c \notin {"/", ">"}
    BY <1>4, <2>5, <2>8, CharsDiffer DEF Markups
  <2>10. Set(Mark("ATTRIB_NAME", p)) /\ Continue
    BY <2>9 DEF Body
  <2>11. PICK st, pos : st = "ATTRIB_NAME" /\ pos = p
    OBVIOUS
  <2>12. PICK f : f = Mark(st, pos) /\ Set(f)
    BY <2>10, <2>11
  <2>13. /\ f.state = st /\ f.start = pos /\ f.nodename = Top.nodename
         /\ f.attribs = Top.attribs /\ f.nbrackets = Top.nbrackets
         /\ f.parentname = Top.parentname /\ f.nsubs = Top.nsubs /\ Changed(frames, frames', f)
    BY <2>12, FrameIs
  <2>14. SameOne(f, Top)
    BY <1>3, <2>13 DEF SameOne
  <2>15. InAttrib(f, t.chars, b, x, y, z, v, to, q, o)
    BY <1>4, <2>5, <2>8, <2>11, <2>13 DEF InAttrib
  <2>16. Behind(f, t, at, i, q)
    BY <2>1, <2>13 DEF Behind
  <2>17. InBody(f, t, at, i, q, o)
    BY <1>7, <2>1, <2>4, <2>5, <2>15, <2>16, BodyWhen
  <2>18. InTag(f, t, m, at, q, o)
    BY <2>1, <2>17 DEF InTag
  <2>19. Spot(f, t, q, o)
    BY <2>1, <2>18, SpotWhen
  <2> QED BY <1>2, <1>3, <1>4, <2>10, <2>13, <2>14, <2>19, LooksAgain DEF At
<1> QED BY <1>6, <1>7
-----------------------------------------------------------------------------
(* NativeXml: end tags *)

\* What IsEndTag says.
EndFacts(t, m, e, w) ==
    /\ m \in Nat /\ m >= 2 /\ e \in Nat /\ m + 1 < e /\ e <= Len(w)
    /\ \A i \in m + 1 .. e - 1 : w[i] \in NameChars
    /\ w[e] \notin NameChars /\ w[Len(w)] = ">" /\ t.name = SubSeq(w, m + 1, e - 1)

LEMMA EndIs ==
    ASSUME NEW t, NEW m, NEW e, Ended(t, m, e), NEW w, w = t.chars, Len(w) \in Nat
    PROVE  EndFacts(t, m, e, w)
<1>1. /\ m \in 2 .. Len(w) /\ e \in m .. Len(w) /\ m + 1 < e
      /\ \A i \in m + 1 .. e - 1 : w[i] \in NameChars
      /\ \A i \in e .. Len(w) - 1 : w[i] \in Spaces
      /\ w[Len(w)] = ">" /\ t.name = SubSeq(w, m + 1, e - 1)
  BY DEF Ended, IsEndTag, Named, Blank, is_valid_char
<1>2. w[e] \notin NameChars
  <2>1. CASE e = Len(w)
    BY <1>1, <2>1, CharsDiffer DEF Markups
  <2>2. CASE e # Len(w)
    <3>1. e \in e .. Len(w) - 1
      BY <1>1, <2>2
    <3> QED BY <1>1, <3>1, CharsDiffer
  <2> QED BY <2>1, <2>2
<1> QED BY <1>1, <1>2 DEF EndFacts

LEMMA EndSpot ==
    ASSUME NEW k, NEW off, NEW acc, Context(k, off, acc), Top.state \in EndStates
    PROVE  /\ Top.state \notin Outside /\ Top \in Frame /\ Top.nbrackets = 0 /\ Top.parentname # NoName
           /\ \E t, o, q, m, e :
                /\ At(k, off, t, o, q) /\ Ended(t, m, e) /\ EndFacts(t, m, e, t.chars)
                /\ t.kind = "close" /\ InEndTag(Top, t, m, e, q, o)
<1>1. Top.state \notin Outside /\ ToBe(Top) = Top.state /\ Top.state # "DOCTYPE"
  BY DEF EndStates, Outside, ToBe
<1>2. PICK t, o, q : At(k, off, t, o, q) /\ Spot(Top, t, q, o) /\
       (Top.nbrackets = 0 \/ Top.state = "DOCTYPE")
  BY <1>1, HereAt
<1>3. PICK m, e : Ended(t, m, e) /\ InEndTag(Top, t, m, e, q, o)
  BY <1>1, <1>2, SpotIs
<1>4. EndFacts(t, m, e, t.chars) /\ t.kind = "close"
  <2>1. PICK w : w = t.chars /\ Len(w) \in Nat
    BY <1>2, AtIs
  <2>2. EndFacts(t, m, e, w)
    BY <1>3, <2>1, EndIs
  <2> QED BY <1>3, <2>1, <2>2 DEF Ended
<1>5. Top \in Frame /\ Placed(Top, p)
  BY Present DEF Context
<1>6. Top.parentname # NoName
  BY <1>1, <1>5 DEF Placed, EndStates
<1> QED BY <1>1, <1>2, <1>3, <1>4, <1>5, <1>6

LEMMA SameNameBack ==
    ASSUME NEW x \in Texts, NEW y \in Texts
    PROVE  SameName(x, y) <=> SameName(y, x)
<1>1. DOMAIN x = 1 .. Len(x) /\ DOMAIN y = 1 .. Len(y)
  BY DEF Texts
<1> QED BY <1>1 DEF SameName

\* The call on top is the one of the open element.
LEMMA TopIsOpen ==
    ASSUME NEW k, NEW acc, NEW t, NEW a, NEW b, NEW e, NEW exact, Inner(k, acc, t, a, b, e, exact)
    PROVE  /\ Top.parentname = TheOpen(a).name /\ Top.parentname = TheOpen(e).name
           /\ Top.nsubs = TheOpen(e).subs /\ Len(frames) = Len(e.open)
           /\ Len(e.open) \in Nat \ {0}
           /\ Top.parentname # NoName => Len(a.open) > 1 /\ Len(e.open) > 1
<1>1. AccOK(a) /\ AccOK(e) /\ e = Flushed(a) /\ Calls(frames, e.open) /\ Len(e.open) = Len(a.open)
  BY DEF Inner
<1>2. PICK L : L = Len(e.open) /\ L \in Nat \ {0} /\ L \in 1 .. L /\ L = Len(frames)
  BY <1>1, AccountIs DEF Calls
<1>3. Top.parentname = e.open[L].name /\ Top.nsubs = e.open[L].subs
  BY <1>1, <1>2 DEF Calls, Top
<1>4. e.open[L].name = a.open[L].name
  <2>1. e = a \/ Adds(a, e, "PCData", a.text, << >>, 1)
    BY <1>1, FlushedIs
  <2> QED BY <1>1, <1>2, <2>1 DEF Adds
<1>5. Top.parentname # NoName => L > 1
  <2>1. e.open[L].name = NoName <=> L = 1
    BY <1>1, <1>2 DEF AccOK
  <2> QED BY <1>2, <1>3, <2>1
<1> QED BY <1>1, <1>2, <1>3, <1>4, <1>5 DEF TheOpen

LEMMA CloseFollows ==
    ASSUME NEW k, NEW off, NEW acc, Context(k, off, acc), Close
    PROVE  Follows'
<1>1. Top.state = "CLOSE" /\ Top.state \in EndStates
  BY DEF Close, Case, EndStates
<1>2. PICK t, o, q, m, e :
        /\ At(k, off, t, o, q) /\ Ended(t, m, e) /\ EndFacts(t, m, e, t.chars)
        /\ t.kind = "close" /\ InEndTag(Top, t, m, e, q, o)
  BY <1>1, EndSpot
<1>3. Top.state \notin Outside /\ Top \in Frame /\ Top.nbrackets = 0 /\ Top.parentname # NoName
  BY <1>1, EndSpot
<1>4. PICK w, L : w = t.chars /\ L = Len(w)
  OBVIOUS
<1>5. /\ q \in Nat /\ q >= 2 /\ L \in Nat /\ p = o + q /\ o \in Nat /\ c = w[q] /\ Good(t)
      /\ t.chars \in Texts
  BY <1>2, <1>4, AtIs DEF At
<1>6. /\ m \in Nat /\ m >= 2 /\ e \in Nat /\ m + 1 < e /\ e <= L
      /\ \A i \in m + 1 .. e - 1 : w[i] \in NameChars
      /\ w[e] \notin NameChars /\ t.name = SubSeq(w, m + 1, e - 1)
  BY <1>2, <1>4 DEF EndFacts
<1>7. Top.start = o + m + 1 /\ q \in m + 1 .. e
  BY <1>1, <1>2 DEF InEndTag, Spaced
<1>8. CASE is_valid_char(c)
  <2>1. Break(0) /\ UNCHANGED <<frames, tree>>
    BY <1>8 DEF Close
  <2>2. q # e
    BY <1>5, <1>6, <1>8 DEF is_valid_char
  <2>3. q + 1 \in m + 1 .. e /\ q + 1 \in 2 .. Len(t.chars)
    BY <1>4, <1>5, <1>6, <1>7, <2>2
  <2>4. InEndTag(Top, t, m, e, q + 1, o)
    BY <1>1, <1>7, <2>3 DEF InEndTag
  <2>5. Spot(Top, t, q + 1, o)
    BY <1>2, <2>4, SpotWhen
  <2> QED BY <1>2, <1>3, <1>5, <2>1, <2>3, <2>5, ReadsMore DEF At
<1>9. CASE ~is_valid_char(c)
  <2>1. q = e /\ p # Top.start
    <3>1. q = e
      BY <1>5, <1>6, <1>7, <1>9 DEF is_valid_char
    <3> QED BY <1>5, <1>6, <1>7, <3>1
  <2>2. Slice(start, p) = t.name
    <3>1. PICK s, x : s = Top.start /\ x = m + 1
      OBVIOUS
    <3>2. x \in Nat \ {0} /\ s = o + x
      BY <1>5, <1>6, <1>7, <3>1
    <3>3. Slice(s, p) = SubSeq(t.chars, x, q - 1)
      BY <1>2, <3>2, MarkedIs
    <3> QED BY <1>4, <1>6, <2>1, <3>1, <3>3 DEF start
  <2>3. t.name \in Texts
    <3>1. PICK x, n : x = m + 1 /\ n = e - 1
      OBVIOUS
    <3>2. x \in Nat \ {0} /\ n \in Int /\ n <= Len(t.chars)
      BY <1>4, <1>5, <1>6, <3>1
    <3>3. SubSeq(t.chars, x, n) \in Texts
      BY <1>5, <3>2, Piece
    <3> QED BY <1>4, <1>6, <3>1, <3>3
  <2>4. PICK same : same = SameName(t.name, Top.parentname)
    OBVIOUS
  <2>5. /\ ~same => ERROR
        /\ same => Set(Skip("WAIT_END_RET")) /\ Continue
    BY <1>9, <2>1, <2>2, <2>4 DEF Close, SameName, start
  <2>6. CASE same
    <3>1. PICK f : f = Skip("WAIT_END_RET") /\ Set(f)
      BY <2>5, <2>6
    <3>2. Spaced(f, "WAIT_END_RET") /\ SameBut(f, Top) /\ Changed(frames, frames', f)
      BY <3>1, FrameIs
    <3>3. SameOne(f, Top) /\ f.parentname = Top.parentname
      BY <1>3, <3>2 DEF SameOne, SameBut
    <3>4. InEndTag(f, t, m, e, q, o)
      <4>1. q \in e .. Len(t.chars)
        BY <1>4, <1>5, <1>6, <2>1
      <4> QED BY <1>3, <2>4, <2>6, <3>2, <3>3, <4>1 DEF InEndTag
    <3>5. Spot(f, t, q, o)
      BY <1>2, <3>4, SpotWhen
    <3> QED BY <1>2, <1>3, <2>5, <2>6, <3>2, <3>3, <3>5, LooksAgain DEF At
  <2>7. CASE ~same
    <3>1. PICK a, b, h, exact : Inner(k, acc, t, a, b, h, exact)
      BY <1>2, <1>3, InsideIs
    <3>2. AccOK(a) /\ a.ok /\ b = acc[k + 1] /\ b = Understand(a, t)
      BY <3>1 DEF Inner
    <3>3. Top.parentname = TheOpen(a).name
      BY <3>1, TopIsOpen
    <3>4. ~SameName(TheOpen(a).name, t.name)
      <4>1. Top.parentname \in Texts
        BY <1>3 DEF Frame
      <4> QED BY <2>3, <2>4, <2>7, <3>3, <4>1, SameNameBack
    <3>5. ~b.ok
      BY <1>2, <1>5, <3>2, <3>4, CloseUnderstood
    <3> QED BY <1>2, <1>3, <2>5, <2>7, <3>2, <3>5, RejectInside
  <2> QED BY <2>6, <2>7
<1> QED BY <1>8, <1>9
-----------------------------------------------------------------------------
(* NativeXml: a call returns *)

\* fr2 is what is left of the calls fr, the last of which has returned.
Returned(fr, fr2, n) ==
    /\ n \in Nat /\ n >= 2 /\ Len(fr) = n /\ Len(fr2) = n - 1
    /\ \A i \in 1 .. n - 2 : fr2[i] = fr[i]
    /\ fr2[n - 1].state = "BEGIN" /\ fr2[n - 1].parentname = fr[n - 1].parentname
    /\ fr2[n - 1].nsubs = fr[n - 1].nsubs /\ fr2[n - 1].nbrackets = fr[n - 1].nbrackets

LEMMA CallReturns ==
    ASSUME NEW fr \in Seq(Frame), NEW n \in Nat, n >= 2, Len(fr) = n, NEW at \in Nat,
           NEW fr2, fr2 = Append(SubSeq(fr, 1, n - 2), [fr[n - 1] EXCEPT !.state = "BEGIN", !.start = at])
    PROVE  Returned(fr, fr2, n)
<1>1. PICK g : g = fr[n - 1]
  OBVIOUS
<1>2. g \in Frame
  <2>1. n - 1 \in 1 .. n
    OBVIOUS
  <2> QED BY <1>1, <2>1, ElementOfSeq
<1>3. PICK h : h = [g EXCEPT !.state = "BEGIN", !.start = at]
  OBVIOUS
<1>4. /\ h \in Frame /\ h.state = "BEGIN" /\ h.parentname = g.parentname /\ h.nsubs = g.nsubs
      /\ h.nbrackets = g.nbrackets
  <2>1. "BEGIN" \in States
    BY DEF States, Nexts
  <2> QED BY <1>2, <1>3, <2>1 DEF Frame
<1>5. PICK low : low = SubSeq(fr, 1, n - 2)
  OBVIOUS
<1>6. low \in Seq(Frame) /\ Len(low) = n - 2 /\ \A i \in 1 .. n - 2 : low[i] = fr[i]
  <2>1. PICK m \in Nat : m = n - 2
    OBVIOUS
  <2>2. m <= Len(fr)
    BY <2>1
  <2>3. low \in Seq(Frame)
    BY <1>5, <2>1, <2>2, PartOfSeq
  <2>4. \A i \in 1 .. m : fr[i] \in Frame
    BY <2>1, ElementOfSeq
  <2>5. /\ Len(SubSeq(fr, 1, m)) = m /\ \A i \in 1 .. m : SubSeq(fr, 1, m)[i] = fr[i]
    BY <2>4
  <2> QED BY <1>5, <2>1, <2>3, <2>5
<1>7. fr2 = Append(low, h)
  BY <1>1, <1>3, <1>5
<1>8. /\ Len(fr2) = n - 1 /\ \A i \in 1 .. n - 2 : fr2[i] = fr[i]
      /\ fr2[n - 1] = h
  <2>1. /\ Len(Append(low, h)) = Len(low) + 1
        /\ \A i \in 1 .. Len(low) : Append(low, h)[i] = low[i]
        /\ Append(low, h)[Len(low) + 1] = h
    BY <1>4, <1>6, AppendProperties
  <2>2. Len(low) + 1 = n - 1 /\ 1 .. Len(low) = 1 .. (n - 2)
    BY <1>6
  <2> QED BY <1>6, <1>7, <2>1, <2>2
<1> QED BY <1>1, <1>4, <1>8 DEF Returned

\* What is left of the calls are the elements that are still open.
LEMMA CallsLeft ==
    ASSUME NEW fr, NEW fr2, NEW n, Returned(fr, fr2, n), NEW e, AccOK(e), Calls(fr, e.open),
           NEW g, NEW type, NEW value, NEW attribs, NEW counts,
           g = e \/ Adds(e, g, type, value, attribs, counts), NEW b, Shuts(b, g)
    PROVE  Calls(fr2, b.open) /\ LastOf(fr2).state = "BEGIN" /\ LastOf(fr2).nbrackets = 0
<1>1. /\ n \in Nat /\ n >= 2 /\ Len(fr) = n /\ Len(fr2) = n - 1
      /\ \A i \in 1 .. n - 2 : fr2[i] = fr[i]
      /\ fr2[n - 1].state = "BEGIN" /\ fr2[n - 1].parentname = fr[n - 1].parentname
      /\ fr2[n - 1].nsubs = fr[n - 1].nsubs /\ fr2[n - 1].nbrackets = fr[n - 1].nbrackets
  BY DEF Returned
<1>2. Len(e.open) = n /\ \A i \in 1 .. n - 1 : /\ fr[i].parentname = e.open[i].name
                                               /\ fr[i].nsubs = e.open[i].subs /\ fr[i].nbrackets = 0
  <2>1. Len(e.open) = n
    BY <1>1 DEF Calls
  <2>2. ASSUME NEW i \in 1 .. n - 1
        PROVE  fr[i].parentname = e.open[i].name /\ fr[i].nsubs = e.open[i].subs /\ fr[i].nbrackets = 0
    <3>1. i \in 1 .. Len(e.open) /\ i < Len(e.open)
      BY <1>1, <2>1
    <3> QED BY <3>1 DEF Calls
  <2> QED BY <2>1, <2>2
<1>3. Len(g.open) = n /\ \A i \in 1 .. n - 1 : /\ g.open[i].name = e.open[i].name
                                               /\ g.open[i].subs = e.open[i].subs
  <2>1. CASE g = e
    BY <1>2, <2>1
  <2>2. CASE Adds(e, g, type, value, attribs, counts)
    <3>1. \A i \in 1 .. n - 1 : i \in 1 .. n /\ i # n
      BY <1>1
    <3> QED BY <1>2, <2>2, <3>1 DEF Adds
  <2> QED BY <2>1, <2>2
<1>4. Len(b.open) = n - 1 /\ \A i \in 1 .. n - 1 : b.open[i] = g.open[i]
  BY <1>3 DEF Shuts
<1>5. \A i \in 1 .. n - 1 : i = n - 1 \/ i \in 1 .. n - 2
  BY <1>1
<1>6. ASSUME NEW i \in 1 .. n - 1
      PROVE  fr2[i].parentname = b.open[i].name /\ fr2[i].nsubs = b.open[i].subs /\ fr2[i].nbrackets = 0
  <2>1. CASE i = n - 1
    BY <1>1, <1>2, <1>3, <1>4, <2>1
  <2>2. CASE i \in 1 .. n - 2
    BY <1>1, <1>2, <1>3, <1>4, <2>2
  <2> QED BY <1>5, <2>1, <2>2
<1>7. Calls(fr2, b.open)
  BY <1>1, <1>4, <1>6 DEF Calls
<1>8. n - 1 \in 1 .. n - 1
  BY <1>1
<1> QED BY <1>1, <1>6, <1>7, <1>8 DEF LastOf

LEMMA WaitEndRetFollows ==
    ASSUME NEW k, NEW off, NEW acc, Context(k, off, acc), WaitEndRet
    PROVE  Follows'
<1>1. Top.state = "WAIT_END_RET" /\ Top.state \in EndStates
  BY DEF WaitEndRet, Case, EndStates
<1>2. PICK t, o, q, m, e :
        /\ At(k, off, t, o, q) /\ Ended(t, m, e) /\ EndFacts(t, m, e, t.chars)
        /\ t.kind = "close" /\ InEndTag(Top, t, m, e, q, o)
  BY <1>1, EndSpot
<1>3. Top.state \notin Outside /\ Top \in Frame /\ Top.nbrackets = 0 /\ Top.parentname # NoName
  BY <1>1, EndSpot
<1>4. /\ q \in Nat /\ q >= 2 /\ Len(t.chars) \in Nat /\ p = o + q /\ o \in Nat /\
          c = t.chars[q] /\ Good(t)
      /\ t.chars \in Texts
  BY <1>2, AtIs DEF At
<1>5. q = Len(t.chars) /\ SameName(t.name, Top.parentname)
  BY <1>1, <1>2 DEF InEndTag, Spaced
<1>6. c = ">"
  BY <1>2, <1>4, <1>5 DEF EndFacts
<1>7. PICK n, fr, fr2, ns, cu, ns2 :
        /\ n = Len(frames) /\ fr = frames /\ fr2 = frames' /\ ns = nodes /\ cu = cur /\ ns2 = nodes'
  OBVIOUS
<1>8. /\ IF Top.nsubs = 0 THEN pcdata(<< >>) ELSE UNCHANGED tree
      /\ fr2 = Append(SubSeq(fr, 1, n - 2), [fr[n - 1] EXCEPT !.state = "BEGIN", !.start = p])
      /\ p' = p + 1 /\ endtags' = endtags + 1 /\ UNCHANGED <<inputs, result>>
  BY <1>6, <1>7 DEF WaitEndRet
<1>9. PICK a, b, h, exact : Inner(k, acc, t, a, b, h, exact)
  BY <1>2, <1>3, InsideIs
<1>10. /\ AccOK(a) /\ a.ok /\ b = acc[k + 1] /\ b = Understand(a, t) /\ h = Flushed(a) /\ AccOK(h)
       /\ Calls(fr, h.open) /\ Alike(ns, cu, h, exact)
  BY <1>7, <1>9 DEF Inner
<1>11. Top.parentname = TheOpen(a).name /\ Top.nsubs = TheOpen(h).subs /\ n \in Nat /\ n >= 2
       /\ Len(a.open) > 1
  <2>1. Top.parentname = TheOpen(a).name /\ Top.nsubs = TheOpen(h).subs /\ Len(frames) = Len(h.open)
        /\ Len(h.open) \in Nat \ {0} /\ Len(a.open) > 1 /\ Len(h.open) > 1
    BY <1>3, <1>9, TopIsOpen
  <2> QED BY <1>7, <2>1
<1>12. SameName(TheOpen(a).name, t.name)
  <2>1. /\ m \in Nat /\ m >= 2 /\ e \in Nat /\ m + 1 < e /\ e <= Len(t.chars)
        /\ t.name = SubSeq(t.chars, m + 1, e - 1)
    BY <1>2 DEF EndFacts
  <2>2. PICK x, y : x = m + 1 /\ y = e - 1
    OBVIOUS
  <2>3. x \in Nat \ {0} /\ y \in Int /\ y <= Len(t.chars)
    BY <1>4, <2>1, <2>2
  <2>4. SubSeq(t.chars, x, y) \in Texts
    BY <1>4, <2>3, Piece
  <2>5. t.name \in Texts /\ Top.parentname \in Texts
    BY <1>3, <2>1, <2>2, <2>4 DEF Frame
  <2> QED BY <1>5, <1>11, <2>5, SameNameBack
<1>13. PICK g : g = Filled(h)
  OBVIOUS
<1>14. b.ok /\ b.text = << >> /\ Shuts(b, g)
  BY <1>2, <1>4, <1>10, <1>11, <1>12, <1>13, CloseUnderstood
<1>15. PICK none, type, one : none = << >> /\ type = "PCData" /\ one = 1
  OBVIOUS
<1>16. (TheOpen(h).subs # 0 => g = h) /\ (TheOpen(h).subs = 0 => Adds(h, g, type, none, none, one))
  BY <1>10, <1>13, <1>15, FilledIs
<1>17. ns \in Seq(XmlNode) /\ fr \in Seq(Frame) /\ p \in Nat /\ endtags \in Nat
  BY <1>4, <1>7 DEF Context, XmlInv, NodesOK, FramesOK
<1>18. \E cu2 : Alike(ns2, cu2, g, exact)
  <2>1. CASE Top.nsubs = 0
    <3>1. ns2 = Append(ns, [type |-> type, value |-> none, attribs |-> none, parent |-> cu])
      BY <1>7, <1>8, <1>15, <2>1 DEF pcdata, Add, Node
    <3>2. Adds(h, g, type, none, none, one)
      BY <1>11, <1>16, <2>1
    <3>3. Alike(ns2, cu, g, exact)
      BY <1>10, <1>17, <3>1, <3>2, AlikeAdd
    <3> QED BY <3>3
  <2>2. CASE Top.nsubs # 0
    <3>1. ns2 = ns /\ g = h
      BY <1>7, <1>8, <1>11, <1>16, <2>2 DEF tree
    <3> QED BY <1>10, <3>1
  <2> QED BY <2>1, <2>2
<1>19. Alike(nodes', cur', b, FALSE)
  <2>1. b.nodes = g.nodes
    BY <1>14 DEF Shuts
  <2> QED BY <1>7, <1>18, <2>1 DEF Alike
<1>20. Returned(fr, fr2, n)
  <2>1. PICK at : at = p
    OBVIOUS
  <2>2. at \in Nat /\ n = Len(fr)
        /\ fr2 = Append(SubSeq(fr, 1, n - 2), [fr[n - 1] EXCEPT !.state = "BEGIN", !.start = at])
    BY <1>7, <1>8, <1>17, <2>1
  <2> QED BY <1>11, <1>17, <2>2, CallReturns
<1>21. Calls(fr2, b.open) /\ LastOf(fr2).state = "BEGIN" /\ LastOf(fr2).nbrackets = 0
  <2>1. g = h \/ Adds(h, g, type, none, none, one)
    BY <1>16
  <2> QED BY <1>10, <1>14, <1>20, <2>1, CallsLeft
<1>22. /\ k < Len(tokens) /\ UNCHANGED inputs /\ result' = result /\ p' = off[k + 1] + 1
       /\ FALSE = (endtags' = 0) /\ FALSE \in BOOLEAN
  <2>1. k < Len(tokens) /\ t = tokens[k + 1] /\ o = off[k]
    BY <1>2 DEF At
  <2>2. off[k + 1] = o + Len(t.chars)
    BY <2>1, TheToken
  <2>3. p' = o + Len(t.chars) + 1
    BY <1>4, <1>5, <1>8
  <2>4. endtags' # 0
    BY <1>8, <1>17
  <2> QED BY <1>8, <2>1, <2>2, <2>3, <2>4
<1>23. PICK f, no : f = LastOf(frames') /\ no = FALSE
  OBVIOUS
<1>24. /\ f.state = "BEGIN" /\ f.nbrackets = 0 /\ Calls(frames', b.open) /\ no \in BOOLEAN
       /\ no = (endtags' = 0) /\ Alike(nodes', cur', b, no) /\ b = acc[k + 1] /\ b.ok /\ b.text = << >>
  BY <1>7, <1>10, <1>14, <1>19, <1>21, <1>22, <1>23
<1> QED BY <1>22, <1>23, <1>24, StayBehind
-----------------------------------------------------------------------------
(* NativeXml: between the tokens *)

\* In which of the places a call is, its state tells.
LEMMA OutsideIs ==
    ASSUME NEW k, NEW off, NEW acc, Context(k, off, acc), Top.state \in Outside
    PROVE  \E exact \in BOOLEAN :
             /\ exact = (endtags = 0)
             /\ Top.state \in {"BEGIN", "CHILDS"} =>
                  Between(acc[k], off[k], p, frames, nodes, cur, exact)
             /\ Top.state = "PCDATA" =>
                  /\ InText(acc[k], doc, off[k], k < Len(tokens) /\ tokens[k + 1].kind = "text",
                            p, frames, nodes, cur, exact)
                  /\ k < Len(tokens) => p <= off[k + 1]
             /\ Top.state = "WAIT_END" =>
                  k < Len(tokens) /\
                      Waiting(acc[k + 1], tokens[k + 1], off[k], p, frames, nodes, cur, exact)
<1>1. PICK exact \in BOOLEAN :
             /\ exact = (endtags = 0)
             /\ \/ Between(acc[k], off[k], p, frames, nodes, cur, exact)
                \/ /\ InText(acc[k], doc, off[k], k < Len(tokens) /\ tokens[k + 1].kind = "text",
                             p, frames, nodes, cur, exact)
                   /\ k < Len(tokens) => p <= off[k + 1]
                \/ k < Len(tokens) /\
                    Within(acc[k], tokens[k + 1], off[k], p, frames, nodes, cur, exact)
                \/ k < Len(tokens) /\
                    Waiting(acc[k + 1], tokens[k + 1], off[k], p, frames, nodes, cur, exact)
  BY Standing
<1>2. LastOf(frames) = Top
  BY DEF LastOf, Top
<1>3. Between(acc[k], off[k], p, frames, nodes, cur, exact) => Top.state \in {"BEGIN", "CHILDS"}
  BY <1>2 DEF Between
<1>4. \A more : InText(acc[k], doc, off[k], more, p, frames, nodes, cur, exact) => Top.state = "PCDATA"
  BY <1>2 DEF InText
<1>5. Waiting(acc[k + 1], tokens[k + 1], off[k], p, frames, nodes, cur, exact) => Top.state = "WAIT_END"
  BY <1>2 DEF Waiting
<1>6. ~Within(acc[k], tokens[k + 1], off[k], p, frames, nodes, cur, exact)
  <2>1. ASSUME NEW t, NEW q, NEW o, Spot(Top, t, q, o) PROVE FALSE
    <3>1. ToBe(Top) \in {"BEGIN_NODE"} \union TagStates \union EndStates \union OtherStates
      BY <2>1, SpotIs
    <3>2. ToBe(Top) = Top.state
      BY DEF ToBe, Outside
    <3> QED BY <3>1, <3>2 DEF TagStates, EndStates, OtherStates, Outside
  <2> QED BY <1>2, <2>1 DEF Within
<1> QED BY <1>1, <1>3, <1>4, <1>5, <1>6

\* There is no empty token.
LEMMA TokenAhead ==
    ASSUME NEW k, NEW off, NEW acc, Context(k, off, acc), k < Len(tokens)
    PROVE  /\ off[k] \in Nat /\ off[k + 1] \in Nat /\ off[k] < off[k + 1] /\ off[k + 1] <= Len(doc)
           /\ k + 1 \in 0 .. Len(tokens)
<1>1. Len(tokens) \in Nat /\ k \in 0 .. Len(tokens) /\ Cut(tokens, doc, off)
      /\ \A i \in 1 .. Len(tokens) : Good(tokens[i])
  BY DEF Context
<1>2. k + 1 \in 1 .. Len(tokens) /\ k + 1 \in 0 .. Len(tokens)
  BY <1>1
<1>3. tokens[k + 1].chars \in Texts /\ tokens[k + 1].chars # << >>
  BY <1>1, <1>2 DEF Good, IsToken
<1>4. \A i \in 1 .. Len(tokens) : tokens[i].chars \in Texts
  BY <1>1 DEF Good
<1>5. \A i \in 0 .. Len(tokens) : off[i] \in Nat /\ off[i] <= Len(doc)
  BY <1>1, <1>4, OffsetsRise
<1>6. PICK w : w = tokens[k + 1].chars
  OBVIOUS
<1>7. off[k + 1] = off[k] + Len(w)
  BY <1>1, <1>2, <1>4, <1>6, CutLies
<1>8. Len(w) \in Nat \ {0}
  BY <1>3, <1>6, EmptySeq, LenProperties DEF Texts
<1> QED BY <1>1, <1>2, <1>5, <1>7, <1>8

\* Behind the last token there is no character.
LEMMA TokenFollows ==
    ASSUME NEW k, NEW off, NEW acc, Context(k, off, acc), c # NUL, p > off[k]
    PROVE  k < Len(tokens)
<1>1. p \in 1 .. Len(doc) /\ Len(doc) \in Nat
  BY Present DEF Context, Reading
<1>2. k \in 0 .. Len(tokens) /\ Len(tokens) \in Nat /\ off[Len(tokens)] = Len(doc)
  BY DEF Context, Cut
<1>3. k # Len(tokens)
  BY <1>1, <1>2
<1> QED BY <1>2, <1>3

LEMMA WaitEndFollows ==
    ASSUME NEW k, NEW off, NEW acc, Context(k, off, acc), WaitEnd
    PROVE  Follows'
<1>1. Top.state = "WAIT_END" /\ Top.state \in Outside /\ c # NUL
  BY DEF WaitEnd, Case, Outside
<1>2. PICK exact \in BOOLEAN : exact = (endtags = 0) /\ k < Len(tokens)
        /\ Waiting(acc[k + 1], tokens[k + 1], off[k], p, frames, nodes, cur, exact)
  BY <1>1, OutsideIs
<1>3. PICK t, o, a, b : t = tokens[k + 1] /\ o = off[k] /\ a = acc[k] /\ b = acc[k + 1]
  OBVIOUS
<1>4. /\ AccOK(a) /\ a.ok /\ AccOK(b) /\ b = Understand(a, t) /\ Good(t)
      /\ Lies(t, doc, o) /\ o \in Nat /\ off[k + 1] = o + Len(t.chars) /\ Len(t.chars) \in Nat
      /\ doc \in Texts /\ t.chars \in Texts
  BY <1>2, <1>3, TheToken
<1>5. PICK fr, ns, cu, at, f : fr = frames /\ ns = nodes /\ cu = cur /\ at = p /\ f = LastOf(fr)
  OBVIOUS
<1>6. Waiting(b, t, o, at, fr, ns, cu, exact)
  BY <1>2, <1>3, <1>5
<1>7. /\ at = o + Len(t.chars) /\ t.kind = "empty" /\ t.chars[Len(t.chars)] = ">"
      /\ f.state = "WAIT_END" /\ f.nbrackets = 0
      /\ Calls(fr, b.open) /\ Alike(ns, ns[cu].parent, b, exact)
  BY <1>5, <1>6 DEF Waiting
<1>8. Len(t.chars) \in 1 .. Len(t.chars)
  <2>1. t.chars # << >>
    BY <1>4, <1>7 DEF Good, IsToken
  <2>2. Len(t.chars) # 0
    BY <1>4, <2>1, EmptySeq DEF Texts
  <2> QED BY <1>4, <2>2
<1>9. c = ">"
  <2>1. PICK q : q = Len(t.chars)
    OBVIOUS
  <2>2. CharAt(o + q) = t.chars[q]
    BY <1>4, <1>8, <2>1, CharIs
  <2> QED BY <1>5, <1>7, <2>1, <2>2 DEF c
<1>10. done /\ Set(Goto("BEGIN")) /\ Break(0)
  BY <1>9 DEF WaitEnd
<1>11. PICK g : g = Goto("BEGIN") /\ Set(g)
  BY <1>10
<1>12. g.state = "BEGIN" /\ SameBut(g, Top) /\ Changed(frames, frames', g) /\ LastOf(frames) = Top
  BY <1>11, FrameIs DEF LastOf, Top
<1>13. PICK fr2 : fr2 = frames'
  OBVIOUS
<1>14. Calls(fr2, b.open) /\ LastOf(fr2) = g
  <2>1. Changed(fr, fr2, g) /\ g.parentname = LastOf(fr).parentname /\ g.nsubs = LastOf(fr).nsubs
    BY <1>5, <1>12, <1>13 DEF SameBut
  <2> QED BY <1>7, <2>1, CallsChange
<1>15. nodes' = ns /\ cur' = ns[cu].parent
  BY <1>5, <1>10 DEF done
<1>16. b.ok /\ b.text = << >>
  BY <1>4, <1>7, EmptyUnderstood
<1>17. /\ UNCHANGED inputs /\ result' = result /\ endtags' = endtags /\ p' = off[k + 1] + 1
  <2>1. UNCHANGED inputs /\ result' = result /\ endtags' = endtags /\ p' = p + 0 + 1
    BY <1>10 DEF Break
  <2>2. PICK L : L = Len(t.chars)
    OBVIOUS
  <2>3. off[k + 1] = o + L /\ p = o + L /\ o \in Nat /\ L \in Nat
    BY <1>4, <1>5, <1>7, <2>2
  <2>4. p' = off[k + 1] + 1
    BY <2>1, <2>3
  <2> QED BY <2>1, <2>4
<1>18. g.nbrackets = 0
  BY <1>5, <1>7, <1>12 DEF SameBut
<1>19. /\ b = acc[k + 1] /\ b.ok /\ b.text = << >> /\ exact = (endtags' = 0)
       /\ g = LastOf(frames') /\ Calls(frames', b.open) /\ Alike(nodes', cur', b, exact)
  BY <1>2, <1>3, <1>7, <1>13, <1>14, <1>15, <1>16, <1>17
<1> QED BY <1>2, <1>12, <1>17, <1>18, <1>19, StayBehind

LEMMA ChildsFollows ==
    ASSUME NEW k, NEW off, NEW acc, Context(k, off, acc), Childs
    PROVE  Follows'
<1>1. /\ Top.state = "CHILDS" /\ Top.state \in Outside
      /\ frames' = Append(frames, do_parse_xml(Top.nodename)) /\ Continue
  BY DEF Childs, Case, Outside
<1>2. PICK exact \in BOOLEAN : exact = (endtags = 0)
        /\ Between(acc[k], off[k], p, frames, nodes, cur, exact)
  BY <1>1, OutsideIs
<1>3. PICK a, o, at, fr, ns, cu, f :
        /\ a = acc[k] /\ o = off[k] /\ at = p /\ fr = frames /\ ns = nodes /\ cu = cur /\ f = LastOf(fr)
  OBVIOUS
<1>4. /\ at = o + 1 /\ a.text = << >> /\ Calls(Append(fr, do_parse_xml(f.nodename)), a.open)
      /\ Alike(ns, cu, a, exact)
  <2>1. f.state = "CHILDS"
    BY <1>1, <1>3 DEF LastOf, Top
  <2> QED BY <1>2, <1>3, <2>1 DEF Between
<1>5. PICK new : new = do_parse_xml(f.nodename) /\ new.state = "BEGIN" /\ new.nbrackets = 0
  <2>1. PICK name : name = f.nodename
    OBVIOUS
  <2>2. do_parse_xml(name).state = "BEGIN" /\ do_parse_xml(name).nbrackets = 0
    BY DEF do_parse_xml
  <2> QED BY <2>1, <2>2
<1>6. PICK fr2 : fr2 = frames'
  OBVIOUS
<1>7. fr2 = Append(fr, new)
  BY <1>1, <1>3, <1>5, <1>6 DEF LastOf, Top
<1>8. LastOf(fr2) = new
  <2>1. PICK S : S = Frame \union {new}
    OBVIOUS
  <2>2. fr \in Seq(S) /\ new \in S
    BY <1>3, <2>1 DEF Context, XmlInv, FramesOK
  <2>3. Len(Append(fr, new)) = Len(fr) + 1 /\ Append(fr, new)[Len(fr) + 1] = new
    BY <2>2, AppendProperties
  <2> QED BY <1>7, <2>3 DEF LastOf
<1>9. Between(a, o, at, fr2, ns, cu, exact)
  BY <1>4, <1>5, <1>7, <1>8 DEF Between
<1>10. /\ UNCHANGED inputs /\ result' = "parsing" /\ endtags' = endtags /\ p' = at /\
           nodes' = ns /\ cur' = cu
       /\ k \in 0 .. Len(tokens) /\ a.ok
  BY <1>1, <1>3 DEF Continue, tree, Context, Stands
<1>11. Stands(k, tokens, doc, off, acc, at, fr2, ns, cu, exact)
  BY <1>3, <1>9, <1>10 DEF Stands
<1>12. exact = (endtags' = 0) /\ Stands(k, tokens, doc, off, acc, p', frames', nodes', cur', exact)
  BY <1>2, <1>6, <1>10, <1>11
<1> QED BY <1>10, <1>12, Stay
-----------------------------------------------------------------------------
(* NativeXml: texts *)

\* Markup begins with "<", and in a text there is none.
LEMMA FirstOfToken ==
    ASSUME NEW t, Good(t)
    PROVE  /\ t.kind # "text" => t.chars[1] = "<"
           /\ t.kind = "text" => \A q \in 1 .. Len(t.chars) : t.chars[q] # "<"
           /\ t.chars # << >> /\ Len(t.chars) \in Nat \ {0}
<1>1. t.chars \in Texts /\ t.chars # << >> /\ DOMAIN t.chars = 1 .. Len(t.chars)
  BY DEF Good, IsToken, Texts
<1>2. Len(t.chars) \in Nat \ {0}
  BY <1>1, EmptySeq, LenProperties DEF Texts
<1> QED BY <1>1, <1>2 DEF Good, IsToken

\* The markup of a token begins.
LEMMA IntoToken ==
    ASSUME NEW k, NEW off, NEW acc, Context(k, off, acc), k < Len(tokens), p = off[k] + 1,
           NEW t, t = tokens[k + 1], t.kind # "text",
           NEW f, LastOf(frames') = f, Spaced(f, "BEGIN_NODE"), f.nbrackets = 0,
           NEW exact, exact = (endtags = 0), NEW e, e = Flushed(acc[k]),
           Calls(frames', e.open), Alike(nodes', cur', e, exact), Break(0)
    PROVE  Follows'
<1>1. PICK o, a, at, fr2, ns2, cu2, L :
        /\ o = off[k] /\ a = acc[k] /\ at = p' /\ fr2 = frames' /\ ns2 = nodes' /\ cu2 = cur'
        /\ L = Len(t.chars)
  OBVIOUS
<1>2. a.ok /\ Good(t) /\ o \in Nat /\ L \in Nat
  BY <1>1, TheToken
<1>3. p' = p + 0 + 1 /\ UNCHANGED inputs /\ result' = "parsing" /\ endtags' = endtags
      /\ k \in 0 .. Len(tokens)
  BY DEF Break, Context
<1>4. at = o + 2 /\ at - o = 2
  BY <1>1, <1>2, <1>3
<1>5. PICK m \in 2 .. L : Blank(t.chars, 2, m) /\ Markup(t, m)
  BY <1>1, <1>2 DEF Good, IsToken
<1>6. 2 \in 2 .. m /\ 2 \in 2 .. L
  BY <1>2, <1>5
<1>7. Spot(f, t, at - o, o)
  <2>1. StartSpot(f, t, m, at - o)
    BY <1>1, <1>4, <1>5, <1>6 DEF StartSpot
  <2> QED BY <2>1, SpotWhen
<1>8. at \in o + 2 .. o + L
  BY <1>2, <1>4, <1>6
<1>9. Within(a, t, o, at, fr2, ns2, cu2, exact)
  BY <1>1, <1>7, <1>8 DEF Within
<1>10. Stands(k, tokens, doc, off, acc, at, fr2, ns2, cu2, exact)
  BY <1>1, <1>2, <1>9 DEF Stands
<1>11. exact = (endtags' = 0) /\ Stands(k, tokens, doc, off, acc, p', frames', nodes', cur', exact)
  BY <1>1, <1>3, <1>10
<1> QED BY <1>3, <1>11, Stay

LEMMA BeginFollows ==
    ASSUME NEW k, NEW off, NEW acc, Context(k, off, acc), Begin
    PROVE  Follows'
<1>1. Top.state = "BEGIN" /\ Top.state \in Outside /\ c # NUL
  BY DEF Begin, Case, Outside
<1>2. PICK exact \in BOOLEAN : exact = (endtags = 0)
        /\ Between(acc[k], off[k], p, frames, nodes, cur, exact)
  BY <1>1, OutsideIs
<1>3. PICK a, o, at, fr, ns, cu, f, fr2 :
        /\ a = acc[k] /\ o = off[k] /\ at = p /\ fr = frames /\ ns = nodes /\ cu = cur /\ f = Top
        /\ fr2 = frames'
  OBVIOUS
<1>4. LastOf(fr) = f /\ f.state = "BEGIN"
  BY <1>1, <1>3 DEF LastOf, Top
<1>5. at = o + 1 /\ a.text = << >> /\ f.nbrackets = 0 /\ Calls(fr, a.open) /\ Alike(ns, cu, a, exact)
  BY <1>2, <1>3, <1>4 DEF Between
<1>6. k < Len(tokens)
  <2>1. k \in 0 .. Len(tokens) /\ p \in Nat
    BY Present DEF Context
  <2>2. p > off[k]
    BY <1>3, <1>5, <2>1, Present DEF Context, Cut
  <2> QED BY <1>1, <2>2, TokenFollows
<1>7. PICK t : t = tokens[k + 1]
  OBVIOUS
<1>8. /\ AccOK(a) /\ a.ok /\ Good(t) /\ Lies(t, doc, o) /\ o \in Nat /\ off[k + 1] = o + Len(t.chars)
      /\ Len(t.chars) \in Nat \ {0} /\ doc \in Texts /\ t.chars \in Texts
  BY <1>3, <1>6, <1>7, TheToken, FirstOfToken
<1>9. c = t.chars[1]
  <2>1. PICK q : q = 1
    OBVIOUS
  <2>2. q \in 1 .. Len(t.chars)
    BY <1>8, <2>1
  <2>3. CharAt(o + q) = t.chars[q]
    BY <1>8, <2>2, CharIs
  <2> QED BY <1>3, <1>5, <2>1, <2>3 DEF c
<1>10. CASE c = "<"
  <2>1. t.kind # "text"
    <3>1. 1 \in 1 .. Len(t.chars)
      BY <1>8
    <3> QED BY <1>8, <1>9, <1>10, <3>1, FirstOfToken
  <2>2. Set(Skip("BEGIN_NODE")) /\ Break(0) /\ UNCHANGED tree
    BY <1>10 DEF Begin
  <2>3. PICK g : g = Skip("BEGIN_NODE") /\ Set(g)
    BY <2>2
  <2>4. Spaced(g, "BEGIN_NODE") /\ SameBut(g, Top) /\ Changed(frames, frames', g)
    BY <2>3, FrameIs
  <2>5. Calls(fr2, a.open) /\ LastOf(fr2) = g
    <3>1. Changed(fr, fr2, g) /\ g.parentname = LastOf(fr).parentname /\ g.nsubs = LastOf(fr).nsubs
      BY <1>3, <1>4, <2>4 DEF SameBut
    <3> QED BY <1>5, <3>1, CallsChange
  <2>6. a = Flushed(acc[k])
    BY <1>3, <1>5, <1>8, FlushedIs
  <2>7. nodes' = ns /\ cur' = cu
    BY <1>3, <2>2 DEF tree
  <2>8. /\ p = off[k] + 1 /\ LastOf(frames') = g /\ g.nbrackets = 0 /\ Calls(frames', a.open)
        /\ Alike(nodes', cur', a, exact)
    BY <1>3, <1>5, <2>4, <2>5, <2>7 DEF SameBut
  <2> QED BY <1>2, <1>6, <1>7, <2>1, <2>2, <2>4, <2>6, <2>8, IntoToken
<1>11. CASE c # "<"
  <2>1. t.kind = "text"
    BY <1>8, <1>9, <1>11, FirstOfToken
  <2>2. PICK st, pos : st = "PCDATA" /\ pos = p
    OBVIOUS
  <2>3. Set(Mark(st, pos)) /\ Continue
    BY <1>11, <2>2 DEF Begin
  <2>4. PICK g : g = Mark(st, pos) /\ Set(g)
    BY <2>3
  <2>5. /\ g.state = st /\ g.start = pos /\ g.nbrackets = Top.nbrackets
        /\ g.parentname = Top.parentname /\ g.nsubs = Top.nsubs /\ Changed(frames, frames', g)
    BY <2>4, FrameIs
  <2>6. Calls(fr2, a.open) /\ LastOf(fr2) = g
    <3>1. Changed(fr, fr2, g) /\ g.parentname = LastOf(fr).parentname /\ g.nsubs = LastOf(fr).nsubs
      BY <1>3, <1>4, <2>5
    <3> QED BY <1>5, <3>1, CallsChange
  <2>7. /\ UNCHANGED inputs /\ result' = "parsing" /\ endtags' = endtags /\ p' = at /\
            nodes' = ns /\ cur' = cu
        /\ k \in 0 .. Len(tokens)
    BY <1>3, <2>3 DEF Continue, tree, Context
  <2>8. a.text = SubSeq(doc, g.start, o)
    <3>1. PICK s : s = g.start
      OBVIOUS
    <3>2. s = o + 1
      BY <1>3, <1>5, <2>2, <2>5, <3>1
    <3>3. SubSeq(doc, s, o) = << >>
      <4>1. s > o /\ s \in Int /\ o \in Int
        BY <1>8, <3>2
      <4>2. \A i \in s .. o : doc[i] \in Character
        BY <4>1
      <4>3. SubSeq(doc, s, o) \in Seq(Character) /\ Len(SubSeq(doc, s, o)) = 0
        BY <4>1, <4>2, SubSeqProperties
      <4> QED BY <4>3, EmptySeq
    <3> QED BY <1>5, <3>1, <3>3
  <2>9. PICK d, more : d = doc /\ more = (k < Len(tokens) /\ tokens[k + 1].kind = "text")
    OBVIOUS
  <2>10. InText(a, d, o, more, at, fr2, ns, cu, exact)
    <3>1. more
      BY <1>6, <1>7, <2>1, <2>9
    <3>2. g.start >= 1 /\ g.start <= o + 1 /\ g.start <= at /\ o < at
      <4>1. PICK s : s = g.start
        OBVIOUS
      <4>2. s = at /\ at = o + 1 /\ o \in Nat
        BY <1>3, <1>5, <1>8, <2>2, <2>5, <4>1
      <4>3. s >= 1 /\ s <= o + 1 /\ s <= at /\ o < at
        BY <4>2
      <4> QED BY <4>1, <4>3
    <3>3. g.state = "PCDATA" /\ g.nbrackets = 0
      BY <1>3, <1>5, <2>2, <2>5
    <3> QED BY <1>5, <2>6, <2>8, <2>9, <3>1, <3>2, <3>3 DEF InText
  <2>11. at <= off[k + 1]
    BY <1>5, <1>8
  <2>12. Stands(k, tokens, doc, off, acc, at, fr2, ns, cu, exact)
    BY <1>3, <1>8, <2>9, <2>10, <2>11 DEF Stands
  <2>13. exact = (endtags' = 0) /\ Stands(k, tokens, doc, off, acc, p', frames', nodes', cur', exact)
    BY <1>2, <1>3, <2>7, <2>12
  <2> QED BY <2>7, <2>13, Stay
<1> QED BY <1>10, <1>11
-----------------------------------------------------------------------------
(* NativeXml: texts go on *)

\* What d has from s to z is what it has up to o, and w behind it.
Longer(d, s, o, w, z) == SubSeq(d, s, o) \o w = SubSeq(d, s, z)

LEMMA TextGrows ==
    ASSUME NEW d \in Texts, NEW s \in Nat \ {0}, NEW o \in Nat, s <= o + 1, NEW t, t.chars \in Texts,
           Lies(t, d, o), NEW w, w = t.chars, NEW z, z = o + Len(w)
    PROVE  Longer(d, s, o, w, z)
<1>1. /\ d \in Seq(Character) /\ w \in Seq(Character) /\ Len(d) \in Nat /\ Len(w) \in Nat /\ z \in Nat
      /\ z <= Len(d) /\ o <= z /\ o <= Len(d) /\ \A j \in 1 .. Len(w) : d[o + j] = w[j]
  BY TextFacts DEF Texts, Lies
<1>2. PICK x, y : x = SubSeq(d, s, o) /\ y = SubSeq(d, s, z)
  OBVIOUS
<1>3. (\A i \in s .. o : d[i] \in Character) /\ (\A i \in s .. z : d[i] \in Character)
  <2>1. \A i \in s .. z : i \in 1 .. Len(d)
    BY <1>1
  <2>2. \A i \in s .. o : i \in s .. z
    BY <1>1
  <2> QED BY <1>1, <2>1, <2>2, ElementOfSeq
<1>4. x \in Seq(Character) /\ Len(x) = o - s + 1 /\ \A i \in 1 .. o - s + 1 : x[i] = d[s + i - 1]
  BY <1>2, <1>3, SubSeqProperties
<1>5. y \in Seq(Character) /\ Len(y) = z - s + 1 /\ \A i \in 1 .. z - s + 1 : y[i] = d[s + i - 1]
  <2>1. /\ SubSeq(d, s, z) \in Seq(Character)
        /\ Len(SubSeq(d, s, z)) = IF s <= z THEN z - s + 1 ELSE 0
        /\ \A i \in 1 .. z - s + 1 : SubSeq(d, s, z)[i] = d[s + i - 1]
    BY <1>1, <1>3, SubSeqProperties
  <2>2. Len(y) = z - s + 1
    BY <1>1, <1>2, <2>1
  <2> QED BY <1>2, <2>1, <2>2
<1>6. PICK v : v = x \o w
  OBVIOUS
<1>7. /\ v \in Seq(Character) /\ Len(v) = Len(x) + Len(w)
      /\ \A i \in 1 .. Len(x) + Len(w) : v[i] = IF i <= Len(x) THEN x[i] ELSE w[i - Len(x)]
  <2>1. x \in Seq(Character) /\ w \in Seq(Character)
    BY <1>1, <1>4
  <2>2. x \o w \in Seq(Character)
    BY <2>1, ConcatProperties
  <2>3. /\ Len(x \o w) = Len(x) + Len(w)
        /\ \A i \in 1 .. Len(x) + Len(w) : (x \o w)[i] = IF i <= Len(x) THEN x[i] ELSE w[i - Len(x)]
    BY <2>1, ConcatProperties
  <2> QED BY <1>6, <2>2, <2>3
<1>8. Len(v) = Len(y)
  <2>1. PICK n : n = Len(w)
    OBVIOUS
  <2>2. n \in Nat /\ z = o + n /\ Len(v) = (o - s + 1) + n /\ Len(y) = z - s + 1
    BY <1>1, <1>4, <1>5, <1>7, <2>1
  <2>3. (o - s + 1) + n = (o + n) - s + 1
    BY <2>2
  <2> QED BY <2>2, <2>3
<1>9. ASSUME NEW i \in 1 .. Len(v) PROVE v[i] = y[i]
  <2>1. i \in 1 .. Len(x) + Len(w) /\ i \in 1 .. z - s + 1
    BY <1>5, <1>7, <1>8
  <2>2. CASE i <= Len(x)
    <3>1. i \in 1 .. o - s + 1
      BY <1>1, <1>4, <2>1, <2>2
    <3> QED BY <1>4, <1>5, <1>7, <2>1, <2>2, <3>1
  <2>3. CASE ~(i <= Len(x))
    <3>1. i - Len(x) \in 1 .. Len(w) /\ o + (i - Len(x)) = s + i - 1
      BY <1>1, <1>4, <2>1, <2>3
    <3> QED BY <1>1, <1>5, <1>7, <2>1, <2>3, <3>1
  <2> QED BY <2>2, <2>3
<1>10. v = y
  BY <1>5, <1>7, <1>8, <1>9, SeqEqual
<1> QED BY <1>2, <1>6, <1>10 DEF Longer

LEMMA PcdataFollows ==
    ASSUME NEW k, NEW off, NEW acc, Context(k, off, acc), Pcdata
    PROVE  Follows'
<1>1. Top.state = "PCDATA" /\ Top.state \in Outside /\ c # NUL /\ Break(0)
  BY DEF Pcdata, Case, Outside
<1>2. PICK exact \in BOOLEAN : exact = (endtags = 0)
        /\ InText(acc[k], doc, off[k], k < Len(tokens) /\ tokens[k + 1].kind = "text",
                  p, frames, nodes, cur, exact)
        /\ (k < Len(tokens) => p <= off[k + 1])
  BY <1>1, OutsideIs
<1>3. PICK a, o, at, fr, ns, cu, f, fr2, d, s, more :
        /\ a = acc[k] /\ o = off[k] /\ at = p /\ fr = frames /\ ns = nodes /\ cu = cur /\ f = Top
        /\ fr2 = frames' /\ d = doc /\ s = f.start
        /\ more = (k < Len(tokens) /\ tokens[k + 1].kind = "text")
  OBVIOUS
<1>4. LastOf(fr) = f /\ f.state = "PCDATA"
  BY <1>1, <1>3 DEF LastOf, Top
<1>5. InText(a, d, o, more, at, fr, ns, cu, exact)
  BY <1>2, <1>3
<1>6. /\ f.nbrackets = 0 /\ s >= 1 /\ s <= o + 1 /\ s <= at /\ o < at /\ a.text = SubSeq(d, s, o)
      /\ more \/ (s <= o /\ at = o + 1)
      /\ Calls(fr, a.open) /\ Alike(ns, cu, a, exact)
  BY <1>3, <1>4, <1>5 DEF InText
<1>7. more \/ (s <= o /\ at = o + 1)
  BY <1>6
<1>8. k < Len(tokens)
  <2>1. k \in 0 .. Len(tokens) /\ p \in Nat
    BY Present DEF Context
  <2>2. off[k] \in Nat
    BY <2>1 DEF Context, Cut
  <2>3. p > off[k]
    BY <1>3, <1>6, <2>1, <2>2
  <2> QED BY <1>1, <2>3, TokenFollows
<1>9. PICK t, b, w, L : t = tokens[k + 1] /\ b = acc[k + 1] /\ w = t.chars /\ L = Len(w)
  OBVIOUS
<1>10. /\ AccOK(a) /\ a.ok /\ Good(t) /\ Lies(t, d, o) /\ o \in Nat /\ off[k + 1] = o + L
       /\ L \in Nat \ {0} /\ d \in Texts /\ w \in Texts /\ b = Understand(a, t)
  BY <1>3, <1>8, <1>9, TheToken, FirstOfToken
<1>11. at \in Nat /\ s \in Nat \ {0} /\ at <= o + L
  <2>1. at \in Nat /\ f \in Frame
    BY <1>3, Present DEF Context
  <2>2. s \in Nat
    BY <1>3, <2>1 DEF Frame
  <2> QED BY <1>2, <1>3, <1>6, <1>8, <1>10, <2>1, <2>2
<1>12. PICK q : q = at - o
  OBVIOUS
<1>13. q \in 1 .. L /\ at = o + q /\ q \in Nat
  BY <1>6, <1>10, <1>11, <1>12
<1>14. c = w[q]
  <2>1. CharAt(o + q) = t.chars[q]
    BY <1>3, <1>9, <1>10, <1>13, CharIs
  <2> QED BY <1>3, <1>9, <1>13, <2>1 DEF c
<1>15. CASE c = "<"
  <2>1. t.kind # "text"
    BY <1>9, <1>10, <1>13, <1>14, <1>15, FirstOfToken
  <2>2. s <= o /\ at = o + 1
    BY <1>3, <1>7, <1>9, <2>1
  <2>3. PICK g : g = [Skip("BEGIN_NODE") EXCEPT !.nsubs = @ + 1] /\ Set(g) /\ pcdata(Slice(start, p))
    BY <1>15 DEF Pcdata
  <2>4. /\ Spaced(g, "BEGIN_NODE") /\ g.nbrackets = 0 /\ SameCall(g, f, 1) /\ Changed(fr, fr2, g)
    <3>1. /\ g.state = "IGNORE_SPACES" /\ g.next = "BEGIN_NODE" /\ g.parentname = f.parentname
          /\ g.nsubs = f.nsubs + 1 /\ g.nbrackets = f.nbrackets
      BY <1>3, <2>3, Present DEF Context, Skip, Frame
    <3>2. Changed(frames, frames', g)
      BY <2>3, FrameIs
    <3> QED BY <1>3, <1>6, <3>1, <3>2 DEF Spaced, SameCall
  <2>5. PICK text : text = a.text
    OBVIOUS
  <2>6. Slice(start, p) = text
    <3>1. Slice(s, at) = SubSeq(d, s, at - 1)
      BY <1>3 DEF Slice
    <3>2. at - 1 = o
      BY <1>10, <2>2
    <3> QED BY <1>3, <1>6, <2>5, <3>1, <3>2 DEF start
  <2>7. text # << >>
    <3>1. \A i \in s .. o : d[i] \in Character
      <4>1. \A i \in s .. o : i \in 1 .. Len(d)
        BY <1>10, <1>11, TextFacts DEF Lies
      <4> QED BY <1>10, <4>1, TextFacts
    <3>2. Len(SubSeq(d, s, o)) = IF s <= o THEN o - s + 1 ELSE 0
      BY <1>10, <1>11, <3>1, SubSeqProperties
    <3>3. Len(text) = o - s + 1
      BY <1>6, <2>2, <2>5, <3>2
    <3>4. o - s + 1 # 0
      BY <1>10, <1>11, <2>2
    <3> QED BY <3>3, <3>4
  <2>8. PICK none, type, one, e : none = << >> /\ type = "PCData" /\ one = 1 /\ e = Flushed(a)
    OBVIOUS
  <2>9. Adds(a, e, type, text, none, one)
    BY <1>10, <2>5, <2>7, <2>8, FlushedIs
  <2>10. PICK ns2 : ns2 = nodes'
    OBVIOUS
  <2>11. ns2 = Append(ns, [type |-> type, value |-> text, attribs |-> none, parent |-> cu]) /\ cur' = cu
    BY <1>3, <2>3, <2>6, <2>8, <2>10 DEF pcdata, Add, Node
  <2>12. Alike(ns2, cu, e, exact)
    <3>1. ns \in Seq(XmlNode)
      BY <1>3 DEF Context, XmlInv, NodesOK
    <3>2. Alike(ns, cu, a, exact)
      BY <1>6
    <3> QED BY <1>10, <2>9, <2>11, <3>1, <3>2, AlikeAdd
  <2>13. Calls(fr2, e.open) /\ LastOf(fr2) = g
    <3>1. SameCall(g, LastOf(fr), one) /\ Calls(fr, a.open)
      BY <1>4, <1>6, <2>4, <2>8
    <3> QED BY <2>4, <2>9, <3>1, CallsAdd
  <2>14. /\ p = off[k] + 1 /\ LastOf(frames') = g /\ e = Flushed(acc[k])
         /\ Calls(frames', e.open) /\ Alike(nodes', cur', e, exact)
    BY <1>3, <2>2, <2>8, <2>10, <2>11, <2>12, <2>13
  <2> QED BY <1>1, <1>2, <1>8, <1>9, <2>1, <2>4, <2>14, IntoToken
<1>16. CASE c # "<"
  <2>1. t.kind = "text"
    <3>1. t.kind # "text" => at = o + 1
      BY <1>3, <1>7, <1>9
    <3>2. t.kind # "text" => q = 1
      BY <1>10, <1>12, <3>1
    <3> QED BY <1>9, <1>10, <1>14, <1>16, <3>2, FirstOfToken
  <2>2. UNCHANGED <<frames, tree>>
    BY <1>16 DEF Pcdata
  <2>3. fr2 = fr /\ nodes' = ns /\ cur' = cu /\ LastOf(fr2) = f
    BY <1>3, <1>4, <2>2 DEF tree
  <2>4. /\ UNCHANGED inputs /\ result' = "parsing" /\ endtags' = endtags /\ p' = at + 1
        /\ k \in 0 .. Len(tokens)
    <3>1. p' = p + 0 + 1
      BY <1>1 DEF Break
    <3> QED BY <1>1, <1>3, <1>11, <3>1 DEF Break, Context
  <2>5. PICK pos : pos = at + 1
    OBVIOUS
  <2>6. CASE q # L
    <3>1. more
      BY <1>3, <1>8, <1>9, <2>1
    <3>2. s <= pos /\ o < pos
      BY <1>6, <1>10, <1>11, <2>5
    <3>3. InText(a, d, o, more, pos, fr2, ns, cu, exact)
      BY <1>3, <1>4, <1>6, <2>3, <3>1, <3>2 DEF InText
    <3>4. pos <= off[k + 1]
      BY <1>10, <1>13, <2>5, <2>6
    <3>5. Stands(k, tokens, doc, off, acc, pos, fr2, ns, cu, exact)
      BY <1>3, <1>8, <1>10, <3>3, <3>4 DEF Stands
    <3>6. exact = (endtags' = 0) /\ Stands(k, tokens, doc, off, acc, p', frames', nodes', cur', exact)
      BY <1>2, <1>3, <2>3, <2>4, <2>5, <3>5
    <3> QED BY <2>4, <3>6, Stay
  <2>7. CASE q = L
    <3>1. PICK j, z : j = k + 1 /\ z = off[j]
      OBVIOUS
    <3>2. z = o + L /\ z \in Nat /\ pos = z + 1 /\ j \in 0 .. Len(tokens) /\ j \in Nat
      BY <1>8, <1>10, <1>13, <2>4, <2>5, <2>7, <3>1, TokenAhead
    <3>3. b.ok /\ b.nodes = a.nodes /\ b.open = a.open /\ b.text = a.text \o w
      <4>1. AccOK(a) /\ a.ok /\ Good(t) /\ t.kind = "text" /\ b = Understand(a, t)
        BY <1>10, <2>1
      <4>2. b.ok /\ b.nodes = a.nodes /\ b.open = a.open
        BY <4>1, TextUnderstood
      <4>3. b.text = a.text \o t.chars
        BY <4>1, TextUnderstood
      <4> QED BY <1>9, <4>2, <4>3
    <3>4. b.text = SubSeq(d, s, z)
      <4>1. Longer(d, s, o, w, z)
        <5>1. t.chars \in Texts /\ Lies(t, d, o) /\ z = o + Len(w) /\ s <= o + 1
          BY <1>6, <1>9, <1>10, <3>2
        <5> QED BY <1>9, <1>10, <1>11, <5>1, TextGrows
      <4> QED BY <1>6, <3>3, <4>1 DEF Longer
    <3>5. Calls(fr2, b.open) /\ Alike(ns, cu, b, exact)
      BY <1>6, <2>3, <3>3 DEF Alike, TheOpen
    <3>6. PICK again : again = (j < Len(tokens) /\ tokens[j + 1].kind = "text")
      OBVIOUS
    <3>7. s <= z + 1 /\ s <= pos /\ z < pos /\ s <= z
      BY <1>6, <1>10, <1>11, <3>2
    <3>8. InText(b, d, z, again, pos, fr2, ns, cu, exact)
      BY <1>3, <1>4, <1>6, <2>3, <3>2, <3>4, <3>5, <3>7 DEF InText
    <3>9. j < Len(tokens) => pos <= off[j + 1]
      <4>1. j + 1 \in 1 .. Len(tokens) => tokens[j + 1].chars \in Texts /\ Len(tokens[j + 1].chars) \in Nat \ {0}
        BY FirstOfToken DEF Context, Good
      <4>2. ASSUME j < Len(tokens) PROVE pos <= off[j + 1]
        <5>1. Len(tokens) \in Nat /\ j + 1 \in 1 .. Len(tokens) /\ (j + 1) - 1 = j
          BY <3>2, <4>2 DEF Context
        <5>2. PICK i, n : i = j + 1 /\ n = Len(tokens[i].chars) /\ n \in Nat \ {0}
          BY <4>1, <5>1
        <5>3. off[i] = off[i - 1] + n
          BY <5>1, <5>2 DEF Context, Cut
        <5>4. off[i] = z + n
          BY <3>1, <5>1, <5>2, <5>3
        <5> QED BY <3>2, <5>2, <5>4
      <4> QED BY <4>2
    <3>10. Stands(j, tokens, doc, off, acc, pos, fr2, ns, cu, exact)
      <4>1. InText(acc[j], doc, off[j], j < Len(tokens) /\
             tokens[j + 1].kind = "text", pos, fr2, ns, cu, exact)
        BY <1>3, <1>9, <3>1, <3>6, <3>8
      <4>2. acc[j].ok
        BY <1>9, <3>1, <3>3
      <4> QED BY <3>9, <4>1, <4>2 DEF Stands
    <3>11. exact = (endtags' = 0) /\ Stands(j, tokens, doc, off, acc, p', frames', nodes', cur', exact)
      BY <1>2, <1>3, <2>3, <2>4, <2>5, <3>10
    <3> QED BY <2>4, <3>2, <3>11, Stay
  <2> QED BY <2>6, <2>7
<1> QED BY <1>15, <1>16
-----------------------------------------------------------------------------
(* NativeXml: the end of the document *)

\* Behind the last character all tokens are read.
LEMMA LastPlace ==
    ASSUME NEW k, NEW off, NEW acc, Context(k, off, acc), c = NUL
    PROVE  Top.state \in {"BEGIN", "CHILDS", "PCDATA"} /\ Top.state \in Outside /\ k = Len(tokens)
<1>1. p = Len(doc) + 1 /\ Len(doc) \in Nat
  <2>1. p \in 1 .. Len(doc) + 1 /\ Len(doc) \in Nat /\ doc \in Texts
    BY Present DEF Context, Reading
  <2>2. ASSUME p <= Len(doc) PROVE FALSE
    <3>1. doc[p] \in Character
      BY <2>1, <2>2, TextFacts
    <3> QED BY <2>2, <3>1, NativeXmlAssumption DEF c, CharAt
  <2> QED BY <2>1, <2>2
<1>2. k < Len(tokens) => off[k + 1] < p /\ off[k] + 1 < p
  <2>1. ASSUME k < Len(tokens) PROVE off[k + 1] < p /\ off[k] + 1 < p
    <3>1. off[k] \in Nat /\ off[k + 1] \in Nat /\ off[k] < off[k + 1] /\ off[k + 1] <= Len(doc)
      BY <2>1, TokenAhead
    <3> QED BY <1>1, <3>1
  <2> QED BY <2>1
<1>3. PICK exact \in BOOLEAN :
                \/ Between(acc[k], off[k], p, frames, nodes, cur, exact)
                \/ /\ InText(acc[k], doc, off[k], k < Len(tokens) /\ tokens[k + 1].kind = "text",
                             p, frames, nodes, cur, exact)
                   /\ k < Len(tokens) => p <= off[k + 1]
                \/ k < Len(tokens) /\
                    Within(acc[k], tokens[k + 1], off[k], p, frames, nodes, cur, exact)
                \/ k < Len(tokens) /\
                    Waiting(acc[k + 1], tokens[k + 1], off[k], p, frames, nodes, cur, exact)
  BY Standing
<1>4. k \in 0 .. Len(tokens) /\ Len(tokens) \in Nat
  BY DEF Context
<1>5. k < Len(tokens) =>
        ~Within(acc[k], tokens[k + 1], off[k], p, frames, nodes, cur, exact)
  <2>1. ASSUME k < Len(tokens), Within(acc[k], tokens[k + 1], off[k], p, frames, nodes, cur, exact)
        PROVE  FALSE
    <3>1. PICK o, n : o = off[k] /\ n = Len(tokens[k + 1].chars)
      OBVIOUS
    <3>2. o \in Nat /\ n \in Nat /\ off[k + 1] = o + n
      BY <2>1, <3>1, TheToken
    <3>3. p \in o + 2 .. o + n
      BY <2>1, <3>1 DEF Within
    <3> QED BY <1>1, <1>2, <2>1, <3>2, <3>3
  <2> QED BY <2>1
<1>6. k < Len(tokens) =>
        ~Waiting(acc[k + 1], tokens[k + 1], off[k], p, frames, nodes, cur, exact)
  <2>1. ASSUME k < Len(tokens), Waiting(acc[k + 1], tokens[k + 1], off[k], p, frames, nodes, cur, exact)
        PROVE  FALSE
    <3>1. PICK o, n : o = off[k] /\ n = Len(tokens[k + 1].chars)
      OBVIOUS
    <3>2. o \in Nat /\ n \in Nat /\ off[k + 1] = o + n
      BY <2>1, <3>1, TheToken
    <3>3. p = o + n
      BY <2>1, <3>1 DEF Waiting
    <3> QED BY <1>1, <1>2, <2>1, <3>2, <3>3
  <2> QED BY <2>1
<1>7. LastOf(frames) = Top
  BY DEF LastOf, Top
<1>8. CASE Between(acc[k], off[k], p, frames, nodes, cur, exact)
  <2>1. Top.state \in {"BEGIN", "CHILDS"} /\ p = off[k] + 1
    BY <1>7, <1>8 DEF Between
  <2>2. ~(k < Len(tokens))
    BY <1>1, <1>2, <2>1
  <2> QED BY <1>4, <2>1, <2>2 DEF Outside
<1>9. CASE /\ InText(acc[k], doc, off[k], k < Len(tokens) /\ tokens[k + 1].kind = "text",
                     p, frames, nodes, cur, exact)
           /\ k < Len(tokens) => p <= off[k + 1]
  <2>1. Top.state = "PCDATA"
    BY <1>7, <1>9 DEF InText
  <2>2. ~(k < Len(tokens))
    <3>1. ASSUME k < Len(tokens) PROVE FALSE
      <4>1. off[k + 1] \in Nat
        BY <3>1, TokenAhead
      <4> QED BY <1>1, <1>2, <1>9, <3>1, <4>1
    <3> QED BY <3>1
  <2> QED BY <1>4, <2>1, <2>2 DEF Outside
<1> QED BY <1>3, <1>5, <1>6, <1>8, <1>9

\* A call is for the outermost element, which has no name, or for another.
LEMMA Outermost ==
    ASSUME NEW a, AccOK(a), Calls(frames, a.open)
    PROVE  /\ Top.parentname = NoName <=> Len(a.open) = 1
           /\ Top.nsubs = TheOpen(a).subs
<1>1. PICK L : L = Len(a.open) /\ L \in Nat \ {0} /\ L \in 1 .. L /\ L = Len(frames)
  BY AccountIs DEF Calls
<1>2. Top.parentname = a.open[L].name /\ Top.nsubs = a.open[L].subs
  BY <1>1 DEF Calls, Top
<1>3. a.open[L].name = NoName <=> L = 1
  BY <1>1 DEF AccOK
<1> QED BY <1>1, <1>2, <1>3 DEF TheOpen

\* The document is parsed to its end.
LEMMA Parsed ==
    ASSUME NEW k, NEW off, NEW acc, Context(k, off, acc), UNCHANGED <<inputs, endtags>>, result' = "parsed",
           NEW u, u = Understood, u.ok, NEW exact, exact = (endtags = 0),
           NEW ns, ns = nodes', NEW cu, Alike(ns, cu, u, exact), Len(u.nodes) \in Nat
    PROVE  Follows'
<1>1. PICK ts, d, e : ts = tokens /\ d = doc /\ e = endtags
  OBVIOUS
<1>2. tokens' = ts /\ doc' = d /\ endtags' = e
  BY <1>1 DEF inputs
<1>3. Understood' = u
  <2>1. u = Outcome(Meaning(ts)[Len(ts)])
    BY <1>1 DEF Understood, Outcome
  <2>2. Understood' = Outcome(Meaning(tokens')[Len(tokens')])
    BY DEF Understood, Outcome
  <2> QED BY <1>2, <2>1, <2>2
<1>4. Agrees(ns, u, exact) /\ Len(ns) = Len(u.nodes)
  BY DEF Agrees, Alike
<1>5. Settled'
  BY <1>1, <1>2, <1>3, <1>4 DEF Settled
<1>6. /\ DOMAIN ts = 1 .. Len(ts) /\ Len(ts) \in Nat /\ \A i \in 1 .. Len(ts) : Good(ts[i])
      /\ Cut(ts, d, off)
  BY <1>1 DEF Context
<1> QED BY <1>2, <1>5, <1>6 DEF Follows

\* What the document stands for when all tokens are read, and what is wrong with it.
LEMMA AtLast ==
    ASSUME NEW k, NEW off, NEW acc, Context(k, off, acc), k = Len(tokens), NEW a, a = acc[k]
    PROVE  /\ AccOK(a) /\ a.ok /\ Len(a.nodes) \in Nat /\ Grown(a, Understood)
           /\ Understood.ok <=> Len(a.open) = 1
           /\ Understood.ok => Understood = Filled(Flushed(a))
           /\ Len(Understood.nodes) \in Nat
<1>1. k \in 0 .. Len(tokens) /\ a.ok
  BY DEF Context, Stands
<1>2. AccOK(a) /\ Len(a.nodes) \in Nat
  BY <1>1, ReachesTheEnd
<1>3. PICK u : u = Understood /\ Len(u.nodes) \in Nat /\ u = Outcome(a)
  BY ReachesTheEnd
<1>4. Grown(a, u) /\ (u.ok <=> a.ok /\ Len(a.open) = 1) /\ (u.ok => u = Filled(Flushed(a)))
  BY <1>2, <1>3, OutcomeIs
<1> QED BY <1>1, <1>2, <1>3, <1>4

LEMMA EndFollows ==
    ASSUME NEW k, NEW off, NEW acc, Context(k, off, acc), End
    PROVE  Follows'
<1>1. c = NUL
  BY DEF End
<1>2. Top.state \in {"BEGIN", "CHILDS", "PCDATA"} /\ Top.state \in Outside /\ k = Len(tokens)
  BY <1>1, LastPlace
<1>3. PICK a, u, o, at, fr, ns, cu, f, d :
        /\ a = acc[k] /\ u = Understood /\ o = off[k] /\ at = p /\ fr = frames /\ ns = nodes /\ cu = cur
        /\ f = Top /\ d = doc
  OBVIOUS
<1>4. /\ AccOK(a) /\ a.ok /\ Len(a.nodes) \in Nat /\ Grown(a, u)
      /\ u.ok <=> Len(a.open) = 1
      /\ u.ok => u = Filled(Flushed(a))
      /\ Len(u.nodes) \in Nat
  BY <1>2, <1>3, AtLast
<1>5. PICK exact \in BOOLEAN :
        /\ exact = (endtags = 0)
        /\ f.state \in {"BEGIN", "CHILDS"} => Between(a, o, at, fr, ns, cu, exact)
        /\ f.state = "PCDATA" => InText(a, d, o, FALSE, at, fr, ns, cu, exact)
  <2>1. k \in Nat /\ Len(tokens) \in Nat
    BY DEF Context
  <2>2. (k < Len(tokens) /\ tokens[k + 1].kind = "text") = FALSE
    BY <1>2, <2>1
  <2> QED BY <1>2, <1>3, <2>2, OutsideIs
<1>6. LastOf(fr) = f /\ f \in Frame /\ ns \in Seq(XmlNode) /\ at \in Nat
  BY <1>3, Present DEF LastOf, Top, Context, NodesOK
<1>7. Alike(ns, cu, a, exact)
  BY <1>2, <1>3, <1>5 DEF Between, InText
<1>8. f.state # "CHILDS" => Calls(fr, a.open)
  BY <1>2, <1>3, <1>5, <1>6 DEF Between, InText
<1>9. CASE ~(f.parentname = NoName /\ f.state \in {"BEGIN", "PCDATA"})
  <2>1. ERROR
    BY <1>3, <1>9 DEF End
  <2>2. Len(a.open) # 1
    <3>1. CASE f.state = "CHILDS"
      <4>1. PICK new : new = do_parse_xml(f.nodename)
        OBVIOUS
      <4>2. Calls(Append(fr, new), a.open)
        BY <1>5, <1>6, <3>1, <4>1 DEF Between
      <4>3. PICK S, n : S = Frame \union {new} /\ n = Len(fr)
        OBVIOUS
      <4>4. fr \in Seq(S) /\ new \in S /\ n \in Nat \ {0}
        BY <1>3, <4>3, LenProperties, Present DEF Context, FramesOK
      <4>5. Len(Append(fr, new)) = n + 1
        BY <4>3, <4>4, AppendProperties
      <4> QED BY <4>2, <4>4, <4>5 DEF Calls
    <3>2. CASE f.state # "CHILDS"
      BY <1>2, <1>3, <1>4, <1>8, <1>9, <3>2, Outermost
    <3> QED BY <3>1, <3>2
  <2>3. ~u.ok
    BY <1>4, <2>2
  <2>4. Alike(nodes, cur, a, exact) /\ Grown(a, Understood) /\ ~Understood.ok
    BY <1>3, <1>4, <1>7, <2>3
  <2> QED BY <1>4, <1>5, <2>1, <2>4, Reject
<1>10. CASE f.parentname = NoName /\ f.state \in {"BEGIN", "PCDATA"}
  <2>1. PICK from : from = IF f.state = "BEGIN" THEN at ELSE f.start
    OBVIOUS
  <2>2. /\ IF at # from \/ f.nsubs = 0 THEN pcdata(Slice(from, at)) ELSE UNCHANGED tree
        /\ result' = "parsed" /\ UNCHANGED <<inputs, endtags>>
    BY <1>3, <1>10, <2>1 DEF End, start
  <2>3. Len(a.open) = 1 /\ f.nsubs = TheOpen(a).subs
    BY <1>3, <1>4, <1>8, <1>10, Outermost
  <2>4. u.ok /\ u = Filled(Flushed(a))
    BY <1>4, <2>3
  <2>5. PICK ns2 : ns2 = nodes'
    OBVIOUS
  <2>6. PICK none, type, one : none = << >> /\ type = "PCData" /\ one = 1
    OBVIOUS
  <2>7. ASSUME NEW e, NEW text, AccOK(e), Alike(ns, cu, e, exact), Adds(e, u, type, text, none, one),
               pcdata(text)
        PROVE  Follows'
    <3>1. ns2 = Append(ns, [type |-> type, value |-> text, attribs |-> none, parent |-> cu])
      BY <1>3, <2>5, <2>6, <2>7 DEF pcdata, Add, Node
    <3>2. Alike(ns2, cu, u, exact)
      BY <1>6, <2>7, <3>1, AlikeAdd
    <3> QED BY <1>3, <1>4, <1>5, <2>2, <2>4, <2>5, <3>2, Parsed
  <2>8. CASE f.state = "BEGIN"
    <3>1. a.text = << >>
      BY <1>5, <2>8 DEF Between
    <3>2. u = Filled(a)
      BY <1>4, <2>4, <3>1, FlushedIs
    <3>3. from = at
      BY <2>1, <2>8
    <3>4. CASE f.nsubs = 0
      <4>1. pcdata(Slice(from, at))
        BY <2>2, <3>4
      <4>2. Slice(from, at) = none
        <5>1. PICK x : x = at - 1
          OBVIOUS
        <5>2. at \in Int /\ x \in Int /\ at > x
          BY <1>6, <5>1
        <5>3. \A i \in at .. x : doc[i] \in Character
          BY <5>2
        <5>4. SubSeq(doc, at, x) \in Seq(Character) /\ Len(SubSeq(doc, at, x)) = 0
          BY <5>2, <5>3, SubSeqProperties
        <5>5. SubSeq(doc, at, x) = << >>
          BY <5>4, EmptySeq
        <5> QED BY <2>6, <3>3, <5>1, <5>5 DEF Slice
      <4>3. Adds(a, u, type, none, none, one)
        BY <1>4, <2>3, <2>6, <3>2, <3>4, FilledIs
      <4> QED BY <1>4, <1>7, <2>7, <4>1, <4>2, <4>3
    <3>5. CASE f.nsubs # 0
      <4>1. ns2 = ns
        BY <1>3, <2>2, <2>5, <3>3, <3>5 DEF tree
      <4>2. u = a
        BY <1>4, <2>3, <3>2, <3>5, FilledIs
      <4>3. Alike(ns2, cu, u, exact)
        BY <1>7, <4>1, <4>2
      <4> QED BY <1>3, <1>4, <1>5, <2>2, <2>4, <2>5, <4>3, Parsed
    <3> QED BY <3>4, <3>5
  <2>9. CASE f.state = "PCDATA"
    <3>1. PICK s : s = f.start
      OBVIOUS
    <3>2. s >= 1 /\ s <= o /\ at = o + 1 /\ a.text = SubSeq(d, s, o) /\ s \in Nat
      BY <1>5, <1>6, <2>9, <3>1 DEF InText, Frame
    <3>3. o \in Nat /\ o = Len(d) /\ d \in Texts
      BY <1>2, <1>3, Present DEF Context, Cut, Reading
    <3>4. from = s /\ at # from
      BY <2>1, <2>9, <3>1, <3>2, <3>3
    <3>5. PICK text : text = a.text
      OBVIOUS
    <3>6. Slice(from, at) = text
      <4>1. Slice(s, at) = SubSeq(d, s, at - 1)
        BY <1>3 DEF Slice
      <4>2. at - 1 = o
        BY <3>2, <3>3
      <4> QED BY <3>2, <3>4, <3>5, <4>1, <4>2
    <3>7. text # << >>
      <4>1. \A i \in s .. o : d[i] \in Character
        <5>1. \A i \in s .. o : i \in 1 .. Len(d)
          BY <3>2, <3>3
        <5> QED BY <3>3, <5>1, TextFacts
      <4>2. Len(SubSeq(d, s, o)) = IF s <= o THEN o - s + 1 ELSE 0
        BY <3>2, <3>3, <4>1, SubSeqProperties
      <4>3. Len(text) = o - s + 1
        BY <3>2, <3>5, <4>2
      <4>4. o - s + 1 # 0
        BY <3>2, <3>3
      <4> QED BY <4>3, <4>4
    <3>8. PICK e : e = Flushed(a)
      OBVIOUS
    <3>9. AccOK(e) /\ Adds(a, e, type, text, none, one)
      BY <1>4, <2>6, <3>5, <3>7, <3>8, FlushedIs
    <3>10. TheOpen(e).subs # 0
      <4>1. PICK L : L = Len(a.open) /\ L \in 1 .. L /\ a.open[L] \in Item
        BY <1>4, AccountIs
      <4>2. Len(e.open) = L /\ e.open[L].subs = a.open[L].subs + 1
        BY <2>6, <3>9, <4>1 DEF Adds
      <4>3. a.open[L].subs \in Nat
        BY <4>1 DEF Item
      <4>4. e.open[L].subs # 0
        BY <4>2, <4>3
      <4> QED BY <4>2, <4>4 DEF TheOpen
    <3>11. u = e
      BY <2>4, <3>8, <3>9, <3>10, FilledIs
    <3>12. pcdata(text)
      BY <2>2, <3>4, <3>6
    <3> QED BY <1>4, <1>7, <2>7, <3>9, <3>11, <3>12
  <2> QED BY <1>10, <2>8, <2>9
<1> QED BY <1>9, <1>10
-----------------------------------------------------------------------------
(* NativeXml: every step, and the first state *)

\* A step belongs to a call that goes on, and leaves the document alone.
LEMMA NextReads == XmlNext => result = "parsing" /\ UNCHANGED inputs
<1>1. /\ \A k : Break(k) => UNCHANGED inputs
      /\ Continue => UNCHANGED inputs
      /\ ERROR => UNCHANGED inputs
  BY DEF Break, Continue, ERROR
<1>2. \A st : Case(st) => result = "parsing"
  BY DEF Case
<1>3. \A found, n, st : Section(found, n, st) => UNCHANGED inputs
  BY <1>1 DEF Section
<1>4. IgnoreSpaces \/ Begin \/ Pcdata \/ Cdata => result = "parsing" /\ UNCHANGED inputs
  BY <1>1, <1>2 DEF IgnoreSpaces, Begin, Pcdata, Cdata
<1>5. Declaration => result = "parsing" /\ UNCHANGED inputs
  BY <1>2, <1>3 DEF Declaration
<1>6. BeginHeader \/ BeginClose \/ BeginTag \/ TagName => result = "parsing" /\ UNCHANGED inputs
  BY <1>1, <1>2 DEF BeginHeader, BeginClose, BeginTag, TagName
<1>7. Body \/ AttribName \/ Equals \/ AttvalBegin \/ AttribVal => result = "parsing" /\ UNCHANGED inputs
  BY <1>1, <1>2 DEF Body, AttribName, Equals, AttvalBegin, AttribVal
<1>8. Childs \/ WaitEnd \/ Close => result = "parsing" /\ UNCHANGED inputs
  BY <1>1, <1>2 DEF Childs, WaitEnd, Close
<1>9. WaitEndRet => result = "parsing" /\ UNCHANGED inputs
  BY <1>1, <1>2 DEF WaitEndRet
<1>10. Comment \/ Doctype \/ Header => result = "parsing" /\ UNCHANGED inputs
  BY <1>1, <1>2 DEF Comment, Doctype, Header
<1>11. End => result = "parsing" /\ UNCHANGED inputs
  BY <1>1 DEF End
<1> QED
  BY <1>4, <1>5, <1>6, <1>7, <1>8, <1>9, <1>10, <1>11 DEF XmlNext

LEMMA StepFollows ==
    ASSUME NEW k, NEW off, NEW acc, Context(k, off, acc), XmlNext
    PROVE  Follows'
BY IgnoreSpacesFollows, BeginFollows, PcdataFollows, CdataFollows, DeclarationFollows,
   BeginHeaderFollows, BeginCloseFollows, BeginTagFollows, TagNameFollows, BodyFollows,
   AttribNameFollows, EqualsFollows, AttvalBeginFollows, AttribValFollows, ChildsFollows,
   WaitEndFollows, CloseFollows, WaitEndRetFollows, CommentFollows, DoctypeFollows,
   HeaderFollows, EndFollows, Zenon DEF XmlNext

LEMMA StutterFollows == Follows /\ UNCHANGED xmlvars => Follows'
<1> SUFFICES ASSUME Follows, UNCHANGED xmlvars PROVE Follows'
  OBVIOUS
<1>1. PICK ts, d, at, fr, ns, cu, r, e :
          /\ ts = tokens /\ d = doc /\ at = p /\ fr = frames /\ ns = nodes /\ cu = cur
          /\ r = result /\ e = endtags
  OBVIOUS
<1>2. /\ tokens' = ts /\ doc' = d /\ p' = at /\ frames' = fr /\ nodes' = ns /\ cur' = cu
      /\ result' = r /\ endtags' = e
  BY <1>1 DEF xmlvars, inputs, tree
<1>3. Whole' <=> Whole
  BY <1>1, <1>2 DEF Whole
<1>4. Understood' = Understood
  <2>1. Understood = Outcome(Meaning(ts)[Len(ts)])
    BY <1>1 DEF Understood, Outcome
  <2>2. Understood' = Outcome(Meaning(tokens')[Len(tokens')])
    BY DEF Understood, Outcome
  <2> QED BY <1>2, <2>1, <2>2
<1>5. Settled' <=> Settled
  BY <1>1, <1>2, <1>4 DEF Settled
<1> QED BY <1>1, <1>2, <1>3, <1>5 DEF Follows

LEMMA FollowsStep == XmlInv /\ Follows /\ [XmlNext]_xmlvars => Follows'
<1>1. ASSUME XmlInv, Follows, XmlNext PROVE Follows'
  <2>1. result = "parsing" /\ UNCHANGED inputs
    BY <1>1, NextReads
  <2>2. Whole' => Whole
    BY <2>1 DEF Whole, inputs
  <2>3. CASE ~Whole
    BY <2>2, <2>3 DEF Follows
  <2>4. CASE Whole
    <3>1. /\ DOMAIN tokens = 1 .. Len(tokens) /\ Len(tokens) \in Nat
          /\ \A i \in 1 .. Len(tokens) : Good(tokens[i])
      BY <1>1, <2>4 DEF Follows
    <3>2. PICK off : /\ Cut(tokens, doc, off)
                     /\ \E k \in 0 .. Len(tokens) :
                            Stands(k, tokens, doc, off, Meaning(tokens), p, frames, nodes, cur, endtags = 0)
      BY <1>1, <2>1, <2>4 DEF Follows
    <3>3. PICK k \in 0 .. Len(tokens) :
            Stands(k, tokens, doc, off, Meaning(tokens), p, frames, nodes, cur, endtags = 0)
      BY <3>2
    <3>4. PICK acc : acc = Meaning(tokens)
      OBVIOUS
    <3>5. Stands(k, tokens, doc, off, acc, p, frames, nodes, cur, endtags = 0)
      BY <3>3, <3>4
    <3>6. Context(k, off, acc)
      BY <1>1, <2>1, <3>1, <3>2, <3>4, <3>5 DEF Context
    <3> QED BY <1>1, <3>6, StepFollows
  <2> QED BY <2>3, <2>4
<1> QED BY <1>1, StutterFollows

LEMMA FollowsInit == XmlInit => Follows
<1> SUFFICES ASSUME XmlInit, Whole PROVE Follows
  BY DEF Follows
<1>1. tokens \in Tokens /\ tokens \in Seq(Token)
  BY NativeXmlAssumption DEF XmlInit
<1>2. DOMAIN tokens = 1 .. Len(tokens) /\ Len(tokens) \in Nat
  BY <1>1, LenProperties
<1>3. \A i \in 1 .. Len(tokens) : Good(tokens[i]) /\ tokens[i].chars \in Texts
  <2>1. ASSUME NEW i \in 1 .. Len(tokens) PROVE Good(tokens[i]) /\ tokens[i].chars \in Texts
    <3>1. tokens[i] \in Token
      BY <1>1, <2>1, ElementOfSeq
    <3>2. ~Junk(tokens[i])
      BY <1>2, <2>1 DEF Whole
    <3>3. Good(tokens[i])
      BY <3>1, <3>2, TokenIsGood
    <3> QED BY <3>3 DEF Good
  <2> QED BY <2>1
<1>4. doc = FlattenSeq([k \in DOMAIN tokens |-> tokens[k].chars])
  BY DEF XmlInit
<1>5. PICK off : Cut(tokens, doc, off)
  BY <1>2, <1>3, <1>4, CutUp
<1>6. p = 1
  <2>1. ~IsPrefix(BOM, doc)
    BY <1>1, <1>4, TokenAssumption DEF Whole
  <2> QED BY <2>1 DEF XmlInit
<1>7. PICK acc, a, f, exact : /\ acc = Meaning(tokens) /\ a = Root /\ f = do_parse_xml(NoName)
                              /\ exact = (endtags = 0)
  OBVIOUS
<1>8. acc[0] = a
  BY <1>2, <1>3, <1>7, MeaningIs DEF Accounts
<1>9. /\ a.ok /\ a.text = << >> /\ Len(a.nodes) = 0 /\ Len(a.open) = 1
      /\ a.open[1].name = NoName /\ a.open[1].subs = 0 /\ a.open[1].node = 0
  BY <1>7 DEF Root
<1>10. /\ frames = <<f>> /\ Len(frames) = 1 /\ frames[1] = f /\ nodes = << >> /\
           Len(nodes) = 0 /\ cur = 0
       /\ result = "parsing"
  BY <1>7 DEF XmlInit
<1>11. f.state = "BEGIN" /\ f.nbrackets = 0 /\ f.nsubs = 0 /\ f.parentname = NoName
  BY <1>7 DEF do_parse_xml
<1>12. LastOf(frames) = f
  BY <1>10 DEF LastOf
<1>13. Calls(frames, a.open)
  <2>1. \A i \in 1 .. 1 : i = 1
    OBVIOUS
  <2> QED BY <1>9, <1>10, <1>11, <2>1 DEF Calls
<1>14. Alike(nodes, cur, a, exact)
  BY <1>9, <1>10 DEF Alike, TheOpen
<1>15. Between(a, 0, p, frames, nodes, cur, exact)
  BY <1>6, <1>9, <1>11, <1>12, <1>13, <1>14 DEF Between
<1>16. off[0] = 0
  BY <1>5 DEF Cut
<1>17. Stands(0, tokens, doc, off, acc, p, frames, nodes, cur, exact)
  BY <1>8, <1>9, <1>15, <1>16 DEF Stands
<1>18. 0 \in 0 .. Len(tokens)
  BY <1>2
<1> QED BY <1>2, <1>3, <1>5, <1>7, <1>10, <1>17, <1>18 DEF Follows

LEMMA FollowsAlways == XmlSpec => []Follows
<1> QED BY XmlInvInit, XmlInvStep, FollowsInit, FollowsStep, PTL DEF XmlSpec
-----------------------------------------------------------------------------
(* NativeXml: the callbacks and the tree *)

\* Wherever the parser is, what has come to the tree is in the document.
LEMMA ContextAgrees ==
    ASSUME NEW k, NEW off, NEW acc, Context(k, off, acc), NEW exact, exact = (endtags = 0)
    PROVE  Agrees(nodes, Understood, exact)
<1>1. PICK u : /\ u = Understood /\ Len(u.nodes) \in Nat
               /\ \A j \in 0 .. Len(tokens) : Grown(acc[j], u)
  BY ReachesTheEnd
<1>2. \A j \in 0 .. Len(tokens) : AccOK(acc[j]) /\ Len(acc[j].nodes) \in Nat
  BY ReachesTheEnd
<1>3. k \in 0 .. Len(tokens) /\ Len(tokens) \in Nat
  BY DEF Context
<1>4. PICK a, b, t, o : a = acc[k] /\ b = acc[k + 1] /\ t = tokens[k + 1] /\ o = off[k]
  OBVIOUS
<1>5. AccOK(a) /\ Len(a.nodes) \in Nat /\ Grown(a, u)
  BY <1>1, <1>2, <1>3, <1>4
<1>6. k < Len(tokens) => /\ AccOK(b) /\ a.ok /\ Good(t) /\ b = Understand(a, t)
                         /\ Len(b.nodes) \in Nat /\ Grown(b, u)
  <2>1. ASSUME k < Len(tokens)
        PROVE  /\ AccOK(b) /\ a.ok /\ Good(t) /\ b = Understand(a, t)
               /\ Len(b.nodes) \in Nat /\ Grown(b, u)
    <3>1. k + 1 \in 0 .. Len(tokens)
      BY <1>3, <2>1
    <3> QED BY <1>1, <1>2, <1>4, <2>1, <3>1, TheToken
  <2> QED BY <2>1
<1>7. PICK more : more = (k < Len(tokens) /\ tokens[k + 1].kind = "text")
  OBVIOUS
<1>8. \/ Between(a, o, p, frames, nodes, cur, exact)
      \/ InText(a, doc, o, more, p, frames, nodes, cur, exact)
      \/ k < Len(tokens) /\ Within(a, t, o, p, frames, nodes, cur, exact)
      \/ k < Len(tokens) /\ Waiting(b, t, o, p, frames, nodes, cur, exact)
  BY <1>4, <1>7, Standing
<1>9. CASE Between(a, o, p, frames, nodes, cur, exact) \/ InText(a, doc, o, more, p, frames, nodes, cur, exact)
  <2>1. Alike(nodes, cur, a, exact)
    BY <1>9 DEF Between, InText
  <2> QED BY <1>1, <1>5, <2>1, AlikeAgrees
<1>10. CASE k < Len(tokens) /\ Within(a, t, o, p, frames, nodes, cur, exact)
  <2>1. PICK e : e = Flushed(a)
    OBVIOUS
  <2>2. Alike(nodes, cur, e, exact) /\ t.kind # "text"
    BY <1>10, <2>1 DEF Within
  <2>3. AccOK(e) /\ Len(e.nodes) \in Nat
    BY <1>5, <2>1, FlushedIs, AccountIs
  <2>4. Grown(e, b)
    BY <1>5, <1>6, <1>10, <2>1, <2>2, UnderstandGrows
  <2>5. Grown(e, u)
    BY <1>6, <1>10, <2>3, <2>4, GrownOn
  <2> QED BY <1>1, <2>2, <2>3, <2>5, AlikeAgrees
<1>11. CASE k < Len(tokens) /\ Waiting(b, t, o, p, frames, nodes, cur, exact)
  <2>1. PICK above : above = nodes[cur].parent
    OBVIOUS
  <2>2. Alike(nodes, above, b, exact)
    BY <1>11, <2>1 DEF Waiting
  <2> QED BY <1>1, <1>6, <1>11, <2>2, AlikeAgrees
<1> QED BY <1>8, <1>9, <1>10, <1>11

\* What Follows says of the tree, wherever the parser is.
LEMMA FollowsAgrees ==
    ASSUME XmlInv, Follows, Whole
    PROVE  /\ Agrees(nodes, Understood, endtags = 0)
           /\ result = "parsed" => Understood.ok /\ Len(nodes) = Len(Understood.nodes)
           /\ result = "error" => ~Understood.ok
<1>1. CASE result = "parsing"
  <2>1. /\ DOMAIN tokens = 1 .. Len(tokens) /\ Len(tokens) \in Nat
        /\ \A i \in 1 .. Len(tokens) : Good(tokens[i])
    BY DEF Follows
  <2>2. PICK off : /\ Cut(tokens, doc, off)
                   /\ \E k \in 0 .. Len(tokens) :
                          Stands(k, tokens, doc, off, Meaning(tokens), p, frames, nodes, cur, endtags = 0)
    BY <1>1 DEF Follows
  <2>3. PICK k \in 0 .. Len(tokens) :
          Stands(k, tokens, doc, off, Meaning(tokens), p, frames, nodes, cur, endtags = 0)
    BY <2>2
  <2>4. PICK acc, exact : acc = Meaning(tokens) /\ exact = (endtags = 0)
    OBVIOUS
  <2>5. Stands(k, tokens, doc, off, acc, p, frames, nodes, cur, endtags = 0)
    BY <2>3, <2>4
  <2>6. Context(k, off, acc)
    BY <1>1, <2>1, <2>2, <2>4, <2>5 DEF Context
  <2>7. Agrees(nodes, Understood, exact)
    BY <2>4, <2>6, ContextAgrees
  <2> QED BY <1>1, <2>4, <2>7
<1>2. CASE result # "parsing"
  BY <1>2 DEF Follows, Settled
<1> QED BY <1>1, <1>2

\* One sequence is the first of another.
LEMMA SameStart ==
    ASSUME NEW S, NEW x \in Seq(S), NEW y \in Seq(S), Len(x) <= Len(y),
           \A j \in 1 .. Len(x) : x[j] = y[j]
    PROVE  IsPrefix(x, y)
<1>1. PICK m, n : m = Len(x) /\ n = Len(y) /\ m \in Nat /\ n \in Nat /\ m <= n
  BY LenProperties
<1>2. PICK v, w : v = SubSeq(x, 1, m) /\ w = SubSeq(y, 1, m)
  OBVIOUS
<1>3. \A j \in 1 .. m : x[j] \in S /\ y[j] \in S
  <2>1. \A j \in 1 .. m : j \in 1 .. n
    BY <1>1
  <2> QED BY <1>1, <2>1, ElementOfSeq
<1>4. v \in Seq(S) /\ Len(v) = m /\ \A j \in 1 .. m : v[j] = x[j]
  BY <1>1, <1>2, <1>3, SubSeqProperties
<1>5. w \in Seq(S) /\ Len(w) = m /\ \A j \in 1 .. m : w[j] = y[j]
  BY <1>1, <1>2, <1>3, SubSeqProperties
<1>6. v = w
  BY <1>1, <1>4, <1>5, SeqEqual
<1> QED BY <1>1, <1>2, <1>6 DEF IsPrefix

\* What a document stands for is a sequence of nodes.
LEMMA UnderstoodIs ==
    ASSUME Len(tokens) \in Nat, \A i \in 1 .. Len(tokens) : Good(tokens[i])
    PROVE  Understood.nodes \in Seq(XmlNode)
<1>1. PICK a, u : a = Meaning(tokens)[Len(tokens)] /\ u = Outcome(a)
  OBVIOUS
<1>2. u = Understood
  BY <1>1 DEF Understood, Outcome
<1>3. AccOK(a)
  <2>1. Len(tokens) \in 0 .. Len(tokens)
    OBVIOUS
  <2> QED BY <1>1, <2>1, MeaningIs DEF Accounts
<1>4. CASE a.ok /\ Len(a.open) = 1
  <2>1. PICK b, e : b = Flushed(a) /\ e = Filled(b)
    OBVIOUS
  <2>2. AccOK(b)
    BY <1>3, <2>1, FlushedIs
  <2>3. AccOK(e)
    BY <2>1, <2>2, FilledIs
  <2>4. u = e
    BY <1>1, <1>4, <2>1 DEF Outcome
  <2> QED BY <1>2, <2>3, <2>4, AccountIs
<1>5. CASE ~(a.ok /\ Len(a.open) = 1)
  <2>1. u.nodes = a.nodes
    BY <1>1, <1>3, <1>5 DEF Outcome, AccOK, Account
  <2> QED BY <1>2, <1>3, <2>1, AccountIs
<1> QED BY <1>4, <1>5

(***************************************************************************)
(* NativeXmlImport.cpp, do_parse_xml: whatever tokens a document is made   *)
(* of, the callbacks come in its order and with its names, attributes and  *)
(* texts, one for each thing it holds when it is parsed to its end, and it *)
(* is rejected only when an end tag does not match or an element is open.  *)
(***************************************************************************)
THEOREM CallbacksFollow == XmlSpec => []CallbacksFollowDocument
<1>1. XmlInv /\ Follows => CallbacksFollowDocument
  <2> SUFFICES ASSUME XmlInv, Follows, Whole
               PROVE  /\ IsPrefix(Contents(nodes), Contents(Understood.nodes))
                      /\ result = "parsed" => Understood.ok /\ Len(nodes) = Len(Understood.nodes)
                      /\ result = "error" => ~Understood.ok
    BY DEF CallbacksFollowDocument
  <2>1. PICK ns, us : ns = nodes /\ us = Understood.nodes
    OBVIOUS
  <2>2. /\ Len(ns) <= Len(us)
        /\ \A j \in 1 .. Len(ns) : /\ ns[j].type = us[j].type /\ ns[j].value = us[j].value
                                   /\ ns[j].attribs = us[j].attribs
    BY <2>1, FollowsAgrees DEF Agrees
  <2>3. Len(ns) \in Nat /\ DOMAIN ns = 1 .. Len(ns)
    BY <2>1, LenProperties DEF XmlInv, NodesOK
  <2>4. Len(us) \in Nat /\ DOMAIN us = 1 .. Len(us)
    <3>1. us \in Seq(XmlNode)
      BY <2>1, UnderstoodIs DEF Follows
    <3> QED BY <3>1, LenProperties
  <2>5. PICK x, y : x = Contents(ns) /\ y = Contents(us)
    OBVIOUS
  <2>6. /\ DOMAIN x = 1 .. Len(ns) /\ DOMAIN y = 1 .. Len(us)
        /\ \A j \in 1 .. Len(ns) : x[j] = [type |-> ns[j].type, value |-> ns[j].value,
                                           attribs |-> ns[j].attribs]
        /\ \A j \in 1 .. Len(us) : y[j] = [type |-> us[j].type, value |-> us[j].value,
                                           attribs |-> us[j].attribs]
    BY <2>3, <2>4, <2>5 DEF Contents
  <2>7. \A j \in 1 .. Len(ns) : j \in 1 .. Len(us) /\ x[j] = y[j]
    BY <2>2, <2>3, <2>4, <2>6
  <2>8. PICK S : S = {x[j] : j \in 1 .. Len(ns)} \union {y[j] : j \in 1 .. Len(us)}
    OBVIOUS
  <2>9. x \in Seq(S) /\ y \in Seq(S) /\ Len(x) = Len(ns) /\ Len(y) = Len(us)
    <3>1. x = [j \in 1 .. Len(ns) |-> x[j]] /\ y = [j \in 1 .. Len(us) |-> y[j]]
      BY <2>3, <2>4, <2>5, <2>6 DEF Contents
    <3>2. x \in [1 .. Len(ns) -> S] /\ y \in [1 .. Len(us) -> S]
      BY <2>8, <3>1
    <3> QED BY <2>3, <2>4, <3>2, SeqDef
  <2>10. IsPrefix(x, y)
    BY <2>2, <2>7, <2>9, SameStart
  <2> QED BY <2>1, <2>5, <2>10, FollowsAgrees
<1> QED BY <1>1, XmlInvAlways, FollowsAlways, PTL

(***************************************************************************)
(* NativeXmlState: as long as no end tag was read, every node of the tree  *)
(* hangs where it stands in the document.                                  *)
(***************************************************************************)
THEOREM TreeStaysRight == XmlSpec => []TreeIsRight
<1>1. XmlInv /\ Follows => TreeIsRight
  <2> SUFFICES ASSUME XmlInv, Follows, Whole, endtags = 0, NEW k \in DOMAIN nodes
               PROVE  nodes[k].parent = Understood.nodes[k].parent
    BY DEF TreeIsRight
  <2>1. PICK exact : exact = (endtags = 0) /\ exact
    OBVIOUS
  <2>2. Agrees(nodes, Understood, exact)
    BY <2>1, FollowsAgrees
  <2>3. k \in 1 .. Len(nodes)
    BY LenProperties DEF XmlInv, NodesOK
  <2> QED BY <2>1, <2>2, <2>3 DEF Agrees
<1> QED BY <1>1, XmlInvAlways, FollowsAlways, PTL

=============================================================================
