------------------------- MODULE CheckModuleProofs -------------------------
(***************************************************************************)
(* Proofs about CheckModule, for every set of modules and every dependency *)
(* graph, cyclic or not.                                                   *)
(*                                                                         *)
(* The argument for ConfirmedClosed: while no dependency of the running    *)
(* call has been found dirty, everything the visited modules depend on is  *)
(* confirmed, assumed to be clean, or still to be visited, and the assumed *)
(* modules are exactly the finished ones (clean) and those on the stack.   *)
(* At the end the stack is empty, so all assumptions are discharged at     *)
(* once.  The first dirty dependency ends every pending call, and nothing  *)
(* assumed survives it.                                                    *)
(***************************************************************************)
EXTENDS CheckModule, TLAPS, SequenceTheorems

StackModules == {stack[i].mod : i \in 1..Len(stack)}

\* The judgements of check are still assumptions, and none has failed yet.
Assuming == pc \in {"call", "body", "clean"}

\* Modules the compilation relies on, and modules not known to be dirty.
Vouched == Confirmed \union revoked
Trusted == Vouched \union Tentative

\* The result of the last call of check is one a caller can build on.
Shape ==
    /\ pc = "idle" => stack = <<>> /\ clean = {}
    /\ Assuming => clean \union StackModules \subseteq Tentative
    /\ StackModules \intersect Confirmed = {}
    /\ retyped \subseteq BadModules
    /\ pc = "dirty" /\ stack = <<>> => cur \in BadModules
    /\ pc = "clean" => cur \in Confirmed \union Tentative

Discharged == Tentative \subseteq clean \union StackModules

\* What a vouched module needs; todo are the dependencies not yet visited.
Supported(m, todo, S) ==
    m \in passed /\ dead[m] \subseteq todo /\ deps[m] \subseteq S \union todo

InFlight(i) == IF pc = "call" /\ i = Len(stack) THEN {cur} ELSE {}

AssumptionsSupported ==
    /\ \A m \in clean : Supported(m, {}, Trusted)
    /\ \A i \in 1..Len(stack) :
         Supported(stack[i].mod, stack[i].todo, Trusted \union InFlight(i))

Closed == \A m \in Vouched : Supported(m, {}, Vouched)

Inv ==
    /\ TypeOK
    /\ Shape
    /\ \A m \in Modules : dead[m] \subseteq deps[m]
    /\ ~raised =>
        /\ Discharged
        /\ Assuming => AssumptionsSupported
        /\ Closed
        /\ added \subseteq Vouched
-----------------------------------------------------------------------------
(* Facts about the stack. *)

\* A pushed element is on top, the rest of the sequence unchanged.
LEMMA Pushed ==
    ASSUME NEW S, NEW s \in Seq(S), NEW e \in S, NEW t, t = Append(s, e)
    PROVE  /\ t \in Seq(S)
           /\ t # <<>>
           /\ Len(s) \in Nat
           /\ Len(t) = Len(s) + 1
           /\ t[Len(s) + 1] = e
           /\ \A i \in 1..Len(s) : t[i] = s[i]
<1> QED BY SMT

\* A pop leaves the elements below the top.
LEMMA Popped ==
    ASSUME NEW S, NEW s \in Seq(S), s # <<>>, NEW t, t = SubSeq(s, 1, Len(s) - 1)
    PROVE  /\ Len(s) \in Nat \ {0}
           /\ s[Len(s)] \in S
           /\ t \in Seq(S)
           /\ Len(t) = Len(s) - 1
           /\ \A i \in 1..(Len(s) - 1) : t[i] = s[i]
<1> DEFINE n == Len(s)
<1>1. n \in Nat \ {0}
  BY EmptySeq, LenProperties
<1>2. \A i \in 1..n : s[i] \in S
  BY ElementOfSeq
<1> HIDE DEF n
<1>3. s[n] \in S /\ \A i \in 1..(n - 1) : s[i] \in S
  BY <1>1, <1>2
<1>4. n - 1 \in Int
  BY <1>1
<1>5. /\ t \in Seq(S)
      /\ Len(t) = IF 1 <= n - 1 THEN (n - 1) - 1 + 1 ELSE 0
      /\ \A i \in 1..((n - 1) - 1 + 1) : t[i] = s[1 + i - 1]
  BY <1>3, <1>4, SubSeqProperties DEF n
<1>6. Len(t) = n - 1
  BY <1>1, <1>5
<1>7. \A i \in 1..(n - 1) : t[i] = s[i]
  BY <1>1, <1>5
<1> QED BY <1>1, <1>3, <1>5, <1>6, <1>7 DEF n

\* Replacing the top leaves the elements below it.
LEMMA Replaced ==
    ASSUME NEW S, NEW s \in Seq(S), s # <<>>, NEW e \in S, NEW t,
           t = [s EXCEPT ![Len(s)] = e]
    PROVE  /\ t \in Seq(S)
           /\ t # <<>>
           /\ Len(t) = Len(s)
           /\ t[Len(s)] = e
           /\ \A i \in 1..(Len(s) - 1) : t[i] = s[i]
<1> QED BY SMT

Frame == [mod : Modules, todo : SUBSET Modules]

\* The top frame, and what a visit of one of its dependencies makes of it.
LEMMA TopFrame ==
    ASSUME stack \in Seq(Frame), stack # <<>>, NEW n
    PROVE  /\ Top.mod \in Modules /\ Top.todo \subseteq Modules
           /\ [mod |-> Top.mod, todo |-> Top.todo \ {n}] \in Frame
<1>1. Top \in Frame
  BY Popped DEF Top
<1> QED BY <1>1 DEF Frame

(* Every variable keeps its type. *)

LEMMA TypeInit == Init => TypeOK
<1> SUFFICES ASSUME Init PROVE TypeOK
  OBVIOUS
<1>1. stack \in Seq(Frame)
  BY EmptySeq DEF Init
<1>2. deps \in Graphs
  BY DEF Init
<1> QED BY <1>1, <1>2 DEF Init, TypeOK, Frame

LEMMA TypeStep == TypeOK /\ [Next]_vars => TypeOK'
<1> SUFFICES ASSUME TypeOK, [Next]_vars PROVE TypeOK'
  OBVIOUS
<1> USE DEF TypeOK, Bad, cacheVars, compileVars, callVars
<1>1. ASSUME NEW m \in Modules, Edit(m) PROVE TypeOK'
  BY <1>1 DEF Edit
<1>2. ASSUME NEW m \in Modules, Taint(m) PROVE TypeOK'
  BY <1>2 DEF Taint
<1>3. ASSUME NEW m \in Modules, LoadModule(m) PROVE TypeOK'
  BY <1>3 DEF LoadModule
<1>4. CASE EndUncached
  BY <1>4 DEF EndUncached, NextStep
<1>5. CASE EndCached
  <2>1. deps' \in Graphs /\ deps \in [Modules -> SUBSET Modules]
    BY <1>5, ConstantsAssumption DEF EndCached
  <2>2. dead' \in [Modules -> SUBSET Modules]
    BY <1>5, <2>1 DEF EndCached
  <2>3. disk' \in [Modules -> {"same", "touched", "changed", "broken"}]
    BY <1>5 DEF EndCached
  <2>4. state' \in [Modules -> {"MSGood", "MSUnknown"} \union Bad]
    BY <1>5 DEF EndCached
  <2> QED BY <1>5, <2>1, <2>2, <2>3, <2>4 DEF EndCached, NextStep
<1>6. CASE AlreadyChecked
  BY <1>6 DEF AlreadyChecked
<1>7. CASE StickToBad
  BY <1>7 DEF StickToBad, Mark
<1>8. CASE DieOnUnknown
  BY <1>8 DEF DieOnUnknown, Mark, Raise
<1>9. CASE CheckSelfClean
  <2>1. [mod |-> cur, todo |-> deps[cur]] \in Frame
    BY ConstantsAssumption DEF Frame
  <2>2. stack \in Seq(Frame)
    BY DEF Frame
  <2>3. stack' = Append(stack, [mod |-> cur, todo |-> deps[cur]])
    BY <1>9 DEF CheckSelfClean
  <2>4. stack' \in Seq(Frame) /\ stack' # <<>>
    BY <2>1, <2>2, <2>3, Pushed
  <2>5. state' \in [Modules -> {"MSGood", "MSUnknown"} \union Bad]
    BY <1>9 DEF CheckSelfClean
  <2> QED BY <1>9, <2>4, <2>5 DEF CheckSelfClean, FirstVisit, Mark, Frame
<1>10. CASE CheckSelfDirty
  BY <1>10 DEF CheckSelfDirty, FirstVisit, Mark
<1>11. CASE CheckSelfRaises
  BY <1>11 DEF CheckSelfRaises, FirstVisit, Mark, Raise
<1>12. CASE NextDependency
  <2>1. PICK n \in Top.todo :
          /\ stack' = Visit(n)
          /\ cur' = n
          /\ pc' = IF n \in dead[Top.mod] THEN "dirty" ELSE "call"
    BY <1>12 DEF NextDependency
  <2>2. stack \in Seq(Frame) /\ stack # <<>>
    BY <1>12 DEF NextDependency, Frame
  <2>3. n \in Modules /\ [mod |-> Top.mod, todo |-> Top.todo \ {n}] \in Frame
    BY <2>2, TopFrame
  <2>4. stack' \in Seq(Frame) /\ stack' # <<>>
    BY <2>1, <2>2, <2>3, Replaced DEF Visit
  <2> QED BY <1>12, <2>1, <2>3, <2>4 DEF NextDependency, Frame
<1>13. CASE DependencyClean
  BY <1>13 DEF DependencyClean
<1>14. CASE DependenciesDone
  <2>1. stack \in Seq(Frame) /\ stack # <<>>
    BY <1>14 DEF DependenciesDone, Frame
  <2>2. Top.mod \in Modules /\ stack' \in Seq(Frame)
    BY <1>14, <2>1, TopFrame, Popped DEF DependenciesDone, Pop
  <2> QED BY <1>14, <2>2 DEF DependenciesDone, Frame
<1>15. CASE DependencyIsDirty
  <2>1. stack \in Seq(Frame) /\ stack # <<>>
    BY <1>15 DEF DependencyIsDirty, Frame
  <2>2. Top.mod \in Modules /\ stack' \in Seq(Frame)
    BY <1>15, <2>1, TopFrame, Popped DEF DependencyIsDirty, Pop
  <2>3. state' \in [Modules -> {"MSGood", "MSUnknown"} \union Bad]
    BY <1>15, <2>2 DEF DependencyIsDirty
  <2> QED BY <1>15, <2>2, <2>3 DEF DependencyIsDirty, Frame
<1>16. CASE FinishClean
  BY <1>16 DEF FinishClean, AddModules
<1>17. CASE FinishDirty
  BY <1>17 DEF FinishDirty
<1>18. CASE UNCHANGED vars
  BY <1>18 DEF vars
<1> QED
  BY <1>1, <1>2, <1>3, <1>4, <1>5, <1>6, <1>7, <1>8, <1>9, <1>10, <1>11,
     <1>12, <1>13, <1>14, <1>15, <1>16, <1>17, <1>18 DEF Next, Check

(***************************************************************************)
(* Every variable keeps its type, and the walk over m_deps always has a    *)
(* pending call of check to return to.                                     *)
(***************************************************************************)
THEOREM TypeCorrect == Spec => []TypeOK
<1> QED BY TypeInit, TypeStep, PTL DEF Spec
-----------------------------------------------------------------------------
(* The inductive invariant. *)

LEMMA InvInit == Init => Inv
<1> SUFFICES ASSUME Init PROVE Inv
  OBVIOUS
<1>1. TypeOK
  BY TypeInit
<1>2. Confirmed = {} /\ Tentative = {} /\ revoked = {}
  BY DEF Init, Confirmed, Tentative
<1>3. Shape
  BY <1>2 DEF Init, Shape, Assuming, StackModules
<1> QED
  BY <1>1, <1>2, <1>3 DEF Init, Inv, Discharged, Closed, Vouched, Assuming

\* At rest the stack is empty and, unless an exception left some, nothing is
\* assumed.
LEMMA AtRest ==
    ASSUME Inv, pc = "idle"
    PROVE  /\ stack = <<>> /\ clean = {} /\ StackModules = {}
           /\ ~raised => Tentative = {}
<1>1. stack = <<>> /\ clean = {}
  BY DEF Inv, Shape
<1>2. StackModules = {}
  BY <1>1 DEF StackModules
<1> QED BY <1>1, <1>2 DEF Inv, Discharged

LEMMA InvEdit ==
    ASSUME Inv, TypeOK', NEW m \in Modules, Edit(m) PROVE Inv'
<1>1. UNCHANGED <<deps, dead, state, checked, added, retyped, raised, revoked,
                  pc, cur, stack, clean, passed>>
  BY DEF Edit, compileVars, callVars
<1>2. /\ Confirmed' = Confirmed /\ Tentative' = Tentative
      /\ BadModules' = BadModules /\ StackModules' = StackModules
  BY <1>1 DEF Confirmed, Tentative, BadModules, StackModules
<1>3. Shape'
  BY <1>1, <1>2 DEF Inv, Shape, Assuming
<1>4. ASSUME ~raised' PROVE Discharged' /\ Closed' /\ added' \subseteq Vouched'
  BY <1>1, <1>2, <1>4 DEF Inv, Discharged, Closed, Supported, Vouched
<1> QED
  BY <1>1, <1>3, <1>4 DEF Inv, Assuming, Edit

LEMMA InvTaint ==
    ASSUME Inv, TypeOK', NEW m \in Modules, Taint(m) PROVE Inv'
<1>1. /\ pc' = "idle" /\ stack' = stack /\ clean' = clean /\ checked' = checked
      /\ raised' = raised /\ deps' = deps /\ dead' = dead /\ passed' = passed
      /\ retyped' = retyped /\ added' = added
  BY DEF Taint, cacheVars, callVars
<1>2. /\ state' = [state EXCEPT ![m] = "SelfDirty"]
      /\ revoked' = revoked \union ({m} \intersect Confirmed)
      /\ state \in [Modules -> {"MSGood", "MSUnknown"} \union Bad]
      /\ checked \subseteq Modules
  BY DEF Taint, Inv, TypeOK
<1>3. /\ Confirmed' = Confirmed \ {m} /\ Tentative' \subseteq Tentative
      /\ BadModules \subseteq BadModules'
  BY <1>1, <1>2 DEF Confirmed, Tentative, BadModules, Bad
<1>4. Vouched' = Vouched
  BY <1>2, <1>3 DEF Vouched
<1>5. StackModules' = StackModules
  BY <1>1 DEF StackModules
<1>6. Shape'
  BY <1>1, <1>3, <1>5 DEF Inv, Shape, Taint, Assuming
<1>7. ASSUME ~raised' PROVE Discharged' /\ Closed'
  BY <1>1, <1>3, <1>4, <1>5, <1>7 DEF Inv, Discharged, Closed, Supported
<1> QED
  BY <1>1, <1>4, <1>6, <1>7 DEF Inv, Assuming

LEMMA InvEnd ==
    ASSUME Inv, TypeOK', EndUncached \/ EndCached PROVE Inv'
<1>1. /\ checked' = {} /\ added' = {} /\ retyped' = {} /\ revoked' = {}
      /\ pc' = "idle" /\ UNCHANGED <<stack, clean>>
  BY DEF EndUncached, EndCached, NextStep, callVars
<1>2. Confirmed' = {} /\ Tentative' = {}
  BY <1>1 DEF Confirmed, Tentative
<1>3. pc = "idle"
  BY DEF EndUncached, EndCached, NextStep
<1>4. Shape'
  BY <1>1, <1>2, <1>3, AtRest DEF Shape, Assuming
<1>5. \A m \in Modules : dead'[m] \subseteq deps'[m]
  <2>1. CASE EndUncached
    BY <2>1 DEF EndUncached, cacheVars, Inv
  <2>2. CASE EndCached
    <3> SUFFICES ASSUME NEW m \in Modules PROVE dead'[m] \subseteq deps'[m]
      OBVIOUS
    <3>1. dead'[m] = IF m \in retyped THEN {} ELSE dead[m] \union (deps[m] \intersect retyped)
      BY <2>2 DEF EndCached
    <3>2. m \notin retyped => deps'[m] = deps[m]
      BY <2>2 DEF EndCached
    <3> QED BY <3>1, <3>2 DEF Inv
  <2> QED BY <2>1, <2>2
<1> QED
  BY <1>1, <1>2, <1>4, <1>5 DEF Inv, Assuming, Discharged, Closed, Vouched

LEMMA InvLoadModule ==
    ASSUME Inv, TypeOK', NEW m \in Modules, LoadModule(m) PROVE Inv'
<1>1. /\ UNCHANGED <<deps, dead, state, checked, added, retyped, raised, revoked, stack, passed>>
      /\ pc = "idle" /\ pc' = "call" /\ clean' = {}
  BY DEF LoadModule, cacheVars, compileVars
<1>2. /\ Confirmed' = Confirmed /\ Tentative' = Tentative
      /\ BadModules' = BadModules /\ StackModules' = {} /\ stack' = <<>>
  BY <1>1, AtRest DEF Confirmed, Tentative, BadModules, StackModules
<1>3. Shape'
  BY <1>1, <1>2 DEF Inv, Shape, Assuming
<1>4. ASSUME ~raised' PROVE Discharged' /\ Closed' /\ added' \subseteq Vouched'
  BY <1>1, <1>2, <1>4, AtRest DEF Inv, Discharged, Closed, Supported, Vouched
<1>5. AssumptionsSupported'
  BY <1>1, <1>2 DEF AssumptionsSupported
<1> QED
  BY <1>1, <1>3, <1>4, <1>5 DEF Inv

\* An exception leaves nothing the rest of the compilation relies on.
LEMMA InvRaise ==
    ASSUME Inv, TypeOK', Raise, BadModules \subseteq BadModules' PROVE Inv'
<1>1. /\ raised' = TRUE /\ pc' = "idle" /\ stack' = <<>> /\ clean' = {}
      /\ UNCHANGED <<deps, dead, retyped>>
  BY DEF Raise, cacheVars
<1>2. Shape'
  BY <1>1 DEF Inv, Shape, Assuming, StackModules
<1> QED BY <1>1, <1>2 DEF Inv

LEMMA InvAlreadyChecked ==
    ASSUME Inv, TypeOK', AlreadyChecked PROVE Inv'
<1>1. /\ UNCHANGED <<deps, dead, state, checked, added, retyped, raised, revoked,
                     cur, stack, clean, passed>>
      /\ pc = "call" /\ cur \in checked
      /\ pc' = IF state[cur] \in Bad THEN "dirty" ELSE "clean"
  BY DEF AlreadyChecked, cacheVars, compileVars
<1>2. /\ Confirmed' = Confirmed /\ Tentative' = Tentative /\ Trusted' = Trusted
      /\ Vouched' = Vouched /\ BadModules' = BadModules /\ StackModules' = StackModules
  BY <1>1 DEF Confirmed, Tentative, BadModules, StackModules, Vouched, Trusted
<1>3. cur \in Modules /\ state[cur] \in {"MSGood", "MSUnknown"} \union Bad
  BY DEF Inv, TypeOK
<1>4. pc' = "dirty" => cur \in BadModules
  BY <1>1, <1>3 DEF BadModules
<1>5. pc' = "clean" => cur \in Confirmed \union Tentative
  BY <1>1, <1>3 DEF Confirmed, Tentative
<1>6. Shape'
  BY <1>1, <1>2, <1>4, <1>5 DEF Inv, Shape, Assuming
<1>7. ASSUME ~raised' PROVE Discharged' /\ Closed' /\ added' \subseteq Vouched'
  BY <1>1, <1>2, <1>7 DEF Inv, Discharged, Closed, Supported
<1>8. ASSUME ~raised', Assuming' PROVE AssumptionsSupported'
  <2>1. AssumptionsSupported /\ cur \in Trusted /\ pc' = "clean"
    BY <1>1, <1>5, <1>8 DEF Inv, Assuming, Trusted, Vouched
  <2> QED
    BY <1>1, <1>2, <2>1 DEF AssumptionsSupported, Supported, InFlight
<1> QED
  BY <1>1, <1>6, <1>7, <1>8 DEF Inv

LEMMA InvDirty ==
    ASSUME Inv, TypeOK', StickToBad \/ CheckSelfDirty PROVE Inv'
<1>1. /\ UNCHANGED <<deps, dead, added, retyped, raised, revoked, cur, stack, clean, passed>>
      /\ pc = "call" /\ cur \notin checked /\ checked' = checked \union {cur}
      /\ pc' = "dirty"
  BY DEF StickToBad, CheckSelfDirty, FirstVisit, Mark, cacheVars, compileVars
<1>2. /\ \/ state' = state /\ state[cur] \in Bad
         \/ state' = [state EXCEPT ![cur] = "SelfDirty"]
      /\ state \in [Modules -> {"MSGood", "MSUnknown"} \union Bad]
      /\ cur \in Modules /\ checked \subseteq Modules
  BY DEF StickToBad, CheckSelfDirty, Inv, TypeOK
<1>3. /\ Confirmed' = Confirmed /\ Tentative' = Tentative
      /\ BadModules \subseteq BadModules' /\ cur \in BadModules'
  BY <1>1, <1>2 DEF Confirmed, Tentative, BadModules, Bad
<1>4. StackModules' = StackModules
  BY <1>1 DEF StackModules
<1>5. Shape'
  BY <1>1, <1>3, <1>4 DEF Inv, Shape, Assuming
<1>6. ASSUME ~raised' PROVE Discharged' /\ Closed' /\ added' \subseteq Vouched'
  BY <1>1, <1>3, <1>4, <1>6 DEF Inv, Discharged, Closed, Supported, Vouched
<1> QED
  BY <1>1, <1>5, <1>6 DEF Inv, Assuming

LEMMA InvCheckSelfClean ==
    ASSUME Inv, TypeOK', CheckSelfClean PROVE Inv'
<1> DEFINE f == [mod |-> cur, todo |-> deps[cur]]
<1>1. /\ UNCHANGED <<deps, dead, added, retyped, raised, revoked, cur, clean>>
      /\ pc = "call" /\ cur \notin checked /\ checked' = checked \union {cur}
      /\ pc' = "body" /\ stack' = Append(stack, f) /\ passed' = passed \union {cur}
      /\ state[cur] = "MSGood" /\ state' = [state EXCEPT ![cur] = "MSUnknown"]
  BY DEF CheckSelfClean, FirstVisit, Mark, cacheVars, compileVars
<1>2. /\ state \in [Modules -> {"MSGood", "MSUnknown"} \union Bad]
      /\ cur \in Modules /\ checked \subseteq Modules /\ stack \in Seq(Frame)
      /\ deps[cur] \in SUBSET Modules
  BY ConstantsAssumption DEF Inv, TypeOK, Frame
<1>3. f \in Frame
  BY <1>2 DEF Frame
<1>4. f.mod = cur /\ f.todo = deps[cur]
  OBVIOUS
<1> HIDE DEF f
<1>5. /\ Len(stack) \in Nat /\ Len(stack') = Len(stack) + 1
      /\ stack' # <<>> /\ stack'[Len(stack) + 1] = f
      /\ \A i \in 1..Len(stack) : stack'[i] = stack[i]
  BY <1>1, <1>2, <1>3, Pushed
<1>6. StackModules' = StackModules \union {cur}
  BY <1>4, <1>5 DEF StackModules
<1>7. /\ Confirmed' = Confirmed /\ Tentative' = Tentative \union {cur}
      /\ BadModules' = BadModules
  BY <1>1, <1>2 DEF Confirmed, Tentative, BadModules, Bad
<1>8. Vouched' = Vouched /\ Trusted' = Trusted \union {cur}
  BY <1>1, <1>7 DEF Vouched, Trusted
<1>9. Shape'
  <2>1. cur \notin Confirmed
    BY <1>1 DEF Confirmed
  <2> QED BY <1>1, <1>5, <1>6, <1>7, <2>1 DEF Inv, Shape, Assuming
<1>10. ASSUME ~raised' PROVE Discharged' /\ Closed' /\ added' \subseteq Vouched'
  BY <1>1, <1>6, <1>7, <1>8, <1>10 DEF Inv, Discharged, Closed, Supported
<1>11. ASSUME ~raised' PROVE AssumptionsSupported'
  <2>1. AssumptionsSupported
    BY <1>1, <1>11 DEF Inv, Assuming
  <2>2. ASSUME NEW m \in clean' PROVE Supported(m, {}, Trusted)'
    BY <1>1, <1>8, <2>1, <2>2 DEF AssumptionsSupported, Supported
  <2>3. ASSUME NEW i \in 1..Len(stack)
        PROVE Supported(stack[i].mod, stack[i].todo, Trusted \union InFlight(i))'
    <3>1. stack'[i] = stack[i]
      BY <1>5
    <3>2. InFlight(i) \subseteq {cur}
      BY DEF InFlight
    <3> QED BY <1>1, <1>8, <2>1, <3>1, <3>2 DEF AssumptionsSupported, Supported
  <2>4. PICK k \in Nat : k = Len(stack) + 1
    BY <1>5
  <2>5. Supported(stack[k].mod, stack[k].todo, Trusted \union InFlight(k))'
    <3>1. dead[cur] \subseteq deps[cur]
      BY <1>2 DEF Inv
    <3>2. stack'[k].mod = cur /\ stack'[k].todo = deps[cur]
      BY <1>4, <1>5, <2>4
    <3> QED BY <1>1, <3>1, <3>2 DEF Supported
  <2>6. ASSUME NEW i \in 1..Len(stack')
        PROVE Supported(stack[i].mod, stack[i].todo, Trusted \union InFlight(i))'
    <3>1. i \in 1..Len(stack) \/ i = k
      BY <1>5, <2>4
    <3> QED BY <2>3, <2>5, <3>1
  <2> QED BY <2>2, <2>6 DEF AssumptionsSupported
<1> QED
  BY <1>1, <1>9, <1>10, <1>11 DEF Inv

LEMMA InvNextDependency ==
    ASSUME Inv, TypeOK', NextDependency PROVE Inv'
<1>1. PICK n \in Top.todo :
        /\ stack' = Visit(n)
        /\ cur' = n
        /\ pc' = IF n \in dead[Top.mod] THEN "dirty" ELSE "call"
  BY DEF NextDependency
<1>2. /\ UNCHANGED <<deps, dead, state, checked, added, retyped, raised, revoked, clean, passed>>
      /\ pc = "body"
  BY DEF NextDependency, cacheVars, compileVars
<1> DEFINE f == [mod |-> Top.mod, todo |-> Top.todo \ {n}]
<1>3. stack \in Seq(Frame) /\ stack # <<>>
  BY <1>2 DEF Inv, TypeOK, Frame
<1>4. f.mod = Top.mod /\ f.todo = Top.todo \ {n} /\ f \in Frame
  BY <1>3, TopFrame
<1>5. stack' = [stack EXCEPT ![Len(stack)] = f]
  BY <1>1 DEF Visit
<1> HIDE DEF f
<1>6. /\ stack' # <<>> /\ Len(stack') = Len(stack) /\ stack'[Len(stack)] = f
      /\ \A i \in 1..(Len(stack) - 1) : stack'[i] = stack[i]
      /\ Len(stack) \in Nat \ {0}
  BY <1>3, <1>4, <1>5, Replaced, Popped
<1>7. \A i \in 1..Len(stack) : i \in 1..(Len(stack) - 1) \/ i = Len(stack)
  BY <1>6
<1>8. \A i \in 1..Len(stack) : stack'[i].mod = stack[i].mod
  BY <1>4, <1>6, <1>7 DEF Top
<1>9. StackModules' = StackModules
  BY <1>6, <1>8 DEF StackModules
<1>10. /\ Confirmed' = Confirmed /\ Tentative' = Tentative /\ Trusted' = Trusted
       /\ Vouched' = Vouched /\ BadModules' = BadModules
  BY <1>2 DEF Confirmed, Tentative, BadModules, Vouched, Trusted
<1>11. Shape'
  BY <1>1, <1>2, <1>6, <1>9, <1>10 DEF Inv, Shape, Assuming
<1>12. ASSUME ~raised' PROVE Discharged' /\ Closed' /\ added' \subseteq Vouched'
  BY <1>2, <1>9, <1>10, <1>12 DEF Inv, Discharged, Closed, Supported
<1>13. ASSUME ~raised', Assuming' PROVE AssumptionsSupported'
  <2>1. AssumptionsSupported /\ pc' = "call" /\ n \notin dead[Top.mod]
    BY <1>1, <1>2, <1>13 DEF Inv, Assuming
  <2>2. ASSUME NEW m \in clean' PROVE Supported(m, {}, Trusted)'
    BY <1>2, <1>10, <2>1, <2>2 DEF AssumptionsSupported, Supported
  <2>3. ASSUME NEW i \in 1..(Len(stack) - 1)
        PROVE Supported(stack[i].mod, stack[i].todo, Trusted \union InFlight(i))'
    BY <1>2, <1>6, <1>10, <2>1 DEF AssumptionsSupported, Supported, InFlight
  <2>4. PICK k \in Nat : k = Len(stack)
    BY <1>6
  <2>5. Supported(stack[k].mod, stack[k].todo, Trusted \union InFlight(k))'
    <3>1. Supported(Top.mod, Top.todo, Trusted)
      BY <1>2, <1>6, <2>1 DEF AssumptionsSupported, Supported, InFlight, Top
    <3>2. InFlight(k)' = {n}
      BY <1>1, <1>6, <2>1, <2>4 DEF InFlight
    <3>3. stack'[k].mod = Top.mod /\ stack'[k].todo = Top.todo \ {n}
      BY <1>4, <1>6, <2>4
    <3> QED BY <1>2, <1>10, <2>1, <3>1, <3>2, <3>3 DEF Supported
  <2>6. ASSUME NEW i \in 1..Len(stack')
        PROVE Supported(stack[i].mod, stack[i].todo, Trusted \union InFlight(i))'
    <3>1. i \in 1..(Len(stack) - 1) \/ i = k
      BY <1>6, <1>7, <2>4
    <3> QED BY <2>3, <2>5, <3>1
  <2> QED BY <2>2, <2>6 DEF AssumptionsSupported
<1> QED
  BY <1>2, <1>11, <1>12, <1>13 DEF Inv

LEMMA InvDependencyClean ==
    ASSUME Inv, TypeOK', DependencyClean PROVE Inv'
<1>1. /\ UNCHANGED <<deps, dead, state, checked, added, retyped, raised, revoked,
                     cur, stack, clean, passed>>
      /\ pc = "clean" /\ pc' = "body"
  BY DEF DependencyClean, cacheVars, compileVars
<1>2. /\ Confirmed' = Confirmed /\ Tentative' = Tentative /\ Trusted' = Trusted
      /\ Vouched' = Vouched /\ BadModules' = BadModules /\ StackModules' = StackModules
  BY <1>1 DEF Confirmed, Tentative, BadModules, StackModules, Vouched, Trusted
<1>3. Shape'
  BY <1>1, <1>2 DEF Inv, Shape, Assuming
<1>4. ASSUME ~raised' PROVE Discharged' /\ Closed' /\ added' \subseteq Vouched'
  BY <1>1, <1>2, <1>4 DEF Inv, Discharged, Closed, Supported
<1>5. ASSUME ~raised' PROVE AssumptionsSupported'
  <2>1. AssumptionsSupported
    BY <1>1, <1>5 DEF Inv, Assuming
  <2> QED
    BY <1>1, <1>2, <2>1 DEF AssumptionsSupported, Supported, InFlight
<1> QED
  BY <1>1, <1>3, <1>4, <1>5 DEF Inv

\* What a return of check leaves on the stack.
LEMMA BelowTop ==
    ASSUME stack \in Seq(Frame), stack # <<>>, stack' = Pop
    PROVE  /\ Len(stack) \in Nat \ {0} /\ Len(stack') = Len(stack) - 1
           /\ \A i \in 1..Len(stack') :
                stack'[i] = stack[i] /\ i \in 1..Len(stack) /\ i # Len(stack)
           /\ Top.mod \in Modules /\ Top.mod \in StackModules
           /\ StackModules = StackModules' \union {Top.mod}
<1>1. /\ Len(stack) \in Nat \ {0} /\ Len(stack') = Len(stack) - 1
      /\ \A i \in 1..(Len(stack) - 1) : stack'[i] = stack[i]
  <2>1. stack' = SubSeq(stack, 1, Len(stack) - 1)
    BY DEF Pop
  <2>2. Len(stack) \in Nat \ {0}
    BY <2>1, Popped
  <2>3. Len(stack') = Len(stack) - 1
    BY <2>1, Popped
  <2>4. \A i \in 1..(Len(stack) - 1) : stack'[i] = stack[i]
    BY <2>1, Popped
  <2> QED BY <2>2, <2>3, <2>4
<1>2. \A i \in 1..Len(stack') : stack'[i] = stack[i] /\ i \in 1..Len(stack) /\ i # Len(stack)
  BY <1>1
<1>3. \A i \in 1..Len(stack) : i \in 1..Len(stack') \/ i = Len(stack)
  BY <1>1
<1>4. Top.mod \in StackModules
  BY <1>1 DEF StackModules, Top
<1>5. \A m \in StackModules : m \in StackModules' \/ m = Top.mod
  BY <1>2, <1>3 DEF StackModules, Top
<1>6. \A m \in StackModules' : m \in StackModules
  BY <1>2 DEF StackModules
<1>7. Top.mod \in Modules
  BY TopFrame
<1> QED BY <1>1, <1>2, <1>4, <1>5, <1>6, <1>7

LEMMA InvDependenciesDone ==
    ASSUME Inv, TypeOK', DependenciesDone PROVE Inv'
<1>1. /\ UNCHANGED <<deps, dead, state, checked, added, retyped, raised, revoked, passed>>
      /\ pc = "body" /\ pc' = "clean" /\ cur' = Top.mod /\ stack' = Pop
      /\ clean' = clean \union {Top.mod} /\ Top.todo = {}
  BY DEF DependenciesDone, cacheVars, compileVars
<1>2. stack \in Seq(Frame) /\ stack # <<>>
  BY <1>1 DEF Inv, TypeOK, Frame
<1>3. /\ Len(stack) \in Nat \ {0} /\ Len(stack') = Len(stack) - 1
      /\ \A i \in 1..Len(stack') : stack'[i] = stack[i] /\ i \in 1..Len(stack) /\ i # Len(stack)
      /\ Len(stack) \in 1..Len(stack)
  BY <1>1, <1>2, BelowTop
<1>5. StackModules = StackModules' \union {Top.mod}
  BY <1>1, <1>2, BelowTop
<1>6. /\ Confirmed' = Confirmed /\ Tentative' = Tentative /\ Trusted' = Trusted
      /\ Vouched' = Vouched /\ BadModules' = BadModules
  BY <1>1 DEF Confirmed, Tentative, BadModules, Vouched, Trusted
<1>7. Shape'
  BY <1>1, <1>5, <1>6 DEF Inv, Shape, Assuming
<1>8. ASSUME ~raised' PROVE Discharged' /\ Closed' /\ added' \subseteq Vouched'
  BY <1>1, <1>5, <1>6, <1>8 DEF Inv, Discharged, Closed, Supported
<1>9. ASSUME ~raised' PROVE AssumptionsSupported'
  <2>1. AssumptionsSupported
    BY <1>1, <1>9 DEF Inv, Assuming
  <2>2. Supported(Top.mod, {}, Trusted)
    <3>1. Supported(Top.mod, Top.todo, Trusted \union InFlight(Len(stack)))
      BY <1>3, <2>1 DEF AssumptionsSupported, Top
    <3> QED BY <1>1, <3>1 DEF InFlight, Supported
  <2>3. ASSUME NEW m \in clean' PROVE Supported(m, {}, Trusted)'
    BY <1>1, <1>6, <2>1, <2>2, <2>3 DEF AssumptionsSupported, Supported
  <2>4. ASSUME NEW i \in 1..Len(stack')
        PROVE Supported(stack[i].mod, stack[i].todo, Trusted \union InFlight(i))'
    BY <1>1, <1>3, <1>6, <2>1 DEF AssumptionsSupported, Supported, InFlight
  <2> QED BY <2>3, <2>4 DEF AssumptionsSupported
<1> QED
  BY <1>1, <1>7, <1>8, <1>9 DEF Inv

LEMMA InvDependencyIsDirty ==
    ASSUME Inv, TypeOK', DependencyIsDirty PROVE Inv'
<1>1. /\ UNCHANGED <<deps, dead, checked, added, retyped, raised, revoked, pc, clean, passed>>
      /\ pc = "dirty" /\ cur' = Top.mod /\ stack' = Pop
      /\ state' = [state EXCEPT ![Top.mod] = "DependencyDirty"]
  BY DEF DependencyIsDirty, cacheVars, compileVars
<1>2. /\ stack \in Seq(Frame) /\ stack # <<>>
      /\ state \in [Modules -> {"MSGood", "MSUnknown"} \union Bad]
      /\ checked \subseteq Modules
  BY DEF DependencyIsDirty, Inv, TypeOK, Frame
<1>3. /\ Top.mod \in Modules /\ Top.mod \in StackModules
      /\ StackModules = StackModules' \union {Top.mod}
  BY <1>1, <1>2, BelowTop
<1>4. Top.mod \notin Confirmed
  BY <1>3 DEF Inv, Shape
<1>5. /\ Confirmed' = Confirmed /\ Tentative' = Tentative \ {Top.mod}
      /\ BadModules' = BadModules \union {Top.mod}
  BY <1>1, <1>2, <1>3, <1>4 DEF Confirmed, Tentative, BadModules, Bad
<1>6. Shape'
  BY <1>1, <1>3, <1>5 DEF Inv, Shape, Assuming
<1>7. ASSUME ~raised' PROVE Discharged' /\ Closed' /\ added' \subseteq Vouched'
  BY <1>1, <1>3, <1>5, <1>7 DEF Inv, Discharged, Closed, Supported, Vouched
<1> QED
  BY <1>1, <1>6, <1>7 DEF Inv, Assuming

\* add_modules stays within any set closed under dependencies.
LEMMA AddModulesClosed ==
    ASSUME NEW m, NEW S \in SUBSET Modules, m \in S, \A x \in S : deps[x] \subseteq S
    PROVE  AddModules(m) \subseteq S
<1> QED BY DEF AddModules, AddClosed

LEMMA InvFinishClean ==
    ASSUME Inv, TypeOK', FinishClean PROVE Inv'
<1>1. /\ UNCHANGED <<deps, dead, checked, retyped, raised, revoked, cur, stack, passed>>
      /\ pc = "clean" /\ pc' = "idle" /\ stack = <<>> /\ clean' = {}
      /\ state' = [m \in Modules |-> IF m \in clean THEN "MSGood" ELSE state[m]]
      /\ added' = added \union AddModules(cur)
  BY DEF FinishClean, cacheVars
<1>2. /\ state \in [Modules -> {"MSGood", "MSUnknown"} \union Bad]
      /\ checked \subseteq Modules /\ cur \in Modules /\ revoked \subseteq Modules
  BY DEF Inv, TypeOK
<1>3. StackModules = {} /\ StackModules' = {}
  BY <1>1 DEF StackModules
<1>4. clean \subseteq Tentative /\ cur \in Confirmed \union Tentative
  BY <1>1 DEF Inv, Shape, Assuming
<1>5. /\ Confirmed' = Confirmed \union clean /\ Tentative' = Tentative \ clean
      /\ BadModules' = BadModules
  BY <1>1, <1>2, <1>4 DEF Confirmed, Tentative, BadModules, Bad
<1>6. Shape'
  BY <1>1, <1>3, <1>5 DEF Inv, Shape, Assuming
<1>7. ASSUME ~raised' PROVE Discharged' /\ Closed' /\ added' \subseteq Vouched'
  <2>1. Discharged /\ AssumptionsSupported /\ Closed /\ added \subseteq Vouched
    BY <1>1, <1>7 DEF Inv, Assuming
  <2>2. Tentative = clean
    BY <1>3, <1>4, <2>1 DEF Discharged
  <2>3. Vouched' = Trusted
    BY <1>1, <1>5, <2>2 DEF Vouched, Trusted
  <2>4. Discharged'
    BY <1>5, <2>2 DEF Discharged
  <2>5. Closed'
    BY <1>1, <2>1, <2>2, <2>3 DEF Closed, AssumptionsSupported, Supported, Trusted
  <2>6. AddModules(cur) \subseteq Trusted
    <3>1. cur \in Trusted
      BY <1>4 DEF Trusted, Vouched
    <3>2. Trusted \in SUBSET Modules
      BY <1>2 DEF Trusted, Vouched, Confirmed, Tentative
    <3>3. \A x \in Trusted : deps[x] \subseteq Trusted
      BY <1>1, <2>3, <2>5 DEF Closed, Supported
    <3> QED BY <3>1, <3>2, <3>3, AddModulesClosed
  <2> QED BY <1>1, <2>1, <2>3, <2>4, <2>5, <2>6 DEF Trusted
<1> QED
  BY <1>1, <1>6, <1>7 DEF Inv, Assuming

LEMMA InvFinishDirty ==
    ASSUME Inv, TypeOK', FinishDirty PROVE Inv'
<1>1. /\ UNCHANGED <<deps, dead, added, revoked, cur, stack, passed>>
      /\ pc = "dirty" /\ pc' = "idle" /\ stack = <<>> /\ clean' = {}
      /\ state' = [m \in Modules |-> IF m \in Assumed THEN "MSGood" ELSE state[m]]
      /\ checked' = checked \ Assumed
      /\ retyped' \subseteq retyped \union {cur} /\ (~raised' => ~raised)
  BY DEF FinishDirty, cacheVars
<1>2. /\ state \in [Modules -> {"MSGood", "MSUnknown"} \union Bad]
      /\ checked \subseteq Modules /\ cur \in BadModules
  BY <1>1 DEF Inv, TypeOK, Shape
<1>3. StackModules = {} /\ StackModules' = {}
  BY <1>1 DEF StackModules
<1>4. /\ Confirmed' = Confirmed /\ Tentative' = Tentative \ clean
      /\ BadModules' = BadModules
  BY <1>1, <1>2 DEF Confirmed, Tentative, BadModules, Bad, Assumed
<1>5. Shape'
  BY <1>1, <1>2, <1>3, <1>4 DEF Inv, Shape, Assuming
<1>6. ASSUME ~raised' PROVE Discharged' /\ Closed' /\ added' \subseteq Vouched'
  BY <1>1, <1>3, <1>4, <1>6 DEF Inv, Discharged, Closed, Supported, Vouched
<1> QED
  BY <1>1, <1>5, <1>6 DEF Inv, Assuming

LEMMA InvStep == Inv /\ [Next]_vars => Inv'
<1> SUFFICES ASSUME Inv, [Next]_vars PROVE Inv'
  OBVIOUS
<1>1. TypeOK'
  BY TypeStep DEF Inv
<1>2. ASSUME NEW m \in Modules, Edit(m) \/ Taint(m) \/ LoadModule(m) PROVE Inv'
  BY <1>1, <1>2, InvEdit, InvTaint, InvLoadModule
<1>3. CASE EndUncached \/ EndCached
  BY <1>1, <1>3, InvEnd
<1>4. CASE AlreadyChecked
  BY <1>1, <1>4, InvAlreadyChecked
<1>5. CASE StickToBad \/ CheckSelfDirty
  BY <1>1, <1>5, InvDirty
<1>6. CASE DieOnUnknown
  <2>1. Raise /\ BadModules' = BadModules
    BY <1>6 DEF DieOnUnknown, BadModules
  <2> QED BY <1>1, <2>1, InvRaise
<1>7. CASE CheckSelfClean
  BY <1>1, <1>7, InvCheckSelfClean
<1>8. CASE CheckSelfRaises
  <2>1. Raise /\ state[cur] = "MSGood" /\ state' = [state EXCEPT ![cur] = "MSUnknown"]
    BY <1>8 DEF CheckSelfRaises, FirstVisit
  <2>2. BadModules \subseteq BadModules'
    BY <2>1 DEF BadModules, Bad, Inv, TypeOK
  <2> QED BY <1>1, <2>1, <2>2, InvRaise
<1>9. CASE NextDependency
  BY <1>1, <1>9, InvNextDependency
<1>10. CASE DependencyClean
  BY <1>1, <1>10, InvDependencyClean
<1>11. CASE DependenciesDone
  BY <1>1, <1>11, InvDependenciesDone
<1>12. CASE DependencyIsDirty
  BY <1>1, <1>12, InvDependencyIsDirty
<1>13. CASE FinishClean
  BY <1>1, <1>13, InvFinishClean
<1>14. CASE FinishDirty
  BY <1>1, <1>14, InvFinishDirty
<1>15. CASE UNCHANGED vars
  <2>1. UNCHANGED <<deps, dead, disk, state, checked, added, retyped, raised, revoked,
                    pc, cur, stack, clean, passed>>
    BY <1>15 DEF vars, cacheVars, compileVars, callVars
  <2> QED BY <1>1, <2>1
      DEF Inv, Shape, Discharged, Closed, AssumptionsSupported, Supported, InFlight,
          Assuming, Vouched, Trusted, Confirmed, Tentative, BadModules, StackModules
<1> QED
  BY <1>2, <1>3, <1>4, <1>5, <1>6, <1>7, <1>8, <1>9, <1>10, <1>11, <1>12, <1>13,
     <1>14, <1>15 DEF Next, Check

LEMMA InvAlways == Spec => []Inv
<1> QED BY InvInit, InvStep, PTL DEF Spec

(***************************************************************************)
(* Whatever the dependency graph, its cycles included, and whatever was    *)
(* edited, invalidated or typed anew before: a module check_module has     *)
(* declared good passed its own check and depends only on such modules.    *)
(***************************************************************************)
THEOREM ConfirmedIsClosed == Spec => []ConfirmedClosed
<1>1. Inv => ConfirmedClosed
  BY DEF Inv, Closed, Supported, Vouched, ConfirmedClosed
<1> QED BY <1>1, InvAlways, PTL

(***************************************************************************)
(* A compilation that met no exception reuses no module next to a newly    *)
(* typed version of one of its dependencies.                               *)
(***************************************************************************)
THEOREM VersionsDoNotMix == Spec => []NoMixedVersions
<1>1. Inv => NoMixedVersions
  <2> SUFFICES ASSUME Inv, ~raised, NEW m \in added \ revoked
               PROVE  m \notin retyped /\ dead[m] = {} /\ deps[m] \intersect retyped \subseteq revoked
    BY DEF NoMixedVersions
  <2>1. m \in Confirmed /\ Supported(m, {}, Vouched)
    BY DEF Inv, Closed, Vouched
  <2>2. retyped \intersect Confirmed = {}
    BY DEF Inv, Shape, BadModules, Confirmed, Bad
  <2> QED BY <2>1, <2>2 DEF Supported, Vouched
<1> QED BY <1>1, InvAlways, PTL

(***************************************************************************)
(* A bad module object stays bad until the cache replaces it.              *)
(***************************************************************************)
THEOREM BadIsSticky == Spec => StickyBad
<1> DEFINE Sticks == \A m \in BadModules : m \in BadModules' \/ (m \in retyped /\ retyped' = {})
<1>1. ASSUME Inv, [Next]_vars PROVE Sticks
  <2> USE <1>1 DEF Bad, BadModules
  <2>1. ASSUME NEW m \in Modules, Taint(m) PROVE Sticks
    BY <2>1 DEF Taint, Inv, TypeOK
  <2>2. CASE EndCached
    BY <2>2 DEF EndCached, NextStep, Inv, TypeOK
  <2>3. CASE CheckSelfClean \/ CheckSelfRaises \/ CheckSelfDirty
    BY <2>3 DEF CheckSelfClean, CheckSelfRaises, CheckSelfDirty, FirstVisit, Inv, TypeOK
  <2>4. CASE DependencyIsDirty
    BY <2>4 DEF DependencyIsDirty, Inv, TypeOK
  <2>5. CASE FinishClean
    <3>1. clean \subseteq Tentative
      BY <2>5 DEF FinishClean, Inv, Shape, Assuming
    <3> QED BY <2>5, <3>1 DEF FinishClean, Tentative
  <2>6. CASE FinishDirty
    BY <2>6 DEF FinishDirty, Assumed
  <2>7. ASSUME UNCHANGED state PROVE Sticks
    BY <2>7
  <2>8. ASSUME NEW m \in Modules, Edit(m) \/ LoadModule(m) PROVE UNCHANGED state
    BY <2>8 DEF Edit, LoadModule
  <2>9. CASE EndUncached \/ AlreadyChecked \/ StickToBad \/ DieOnUnknown
    BY <2>7, <2>9 DEF EndUncached, AlreadyChecked, StickToBad, DieOnUnknown
  <2>10. CASE NextDependency \/ DependencyClean \/ DependenciesDone
    BY <2>7, <2>10 DEF NextDependency, DependencyClean, DependenciesDone
  <2>11. CASE UNCHANGED vars
    BY <2>7, <2>11 DEF vars
  <2> QED
    BY <2>1, <2>2, <2>3, <2>4, <2>5, <2>6, <2>7, <2>8, <2>9, <2>10, <2>11 DEF Next, Check
<1>2. Inv /\ [Next]_vars => [Sticks]_vars
  BY <1>1
<1> QED BY <1>2, InvAlways, PTL DEF Spec, StickyBad
-----------------------------------------------------------------------------
(* Nothing stays assumed. *)

Unknowns == {m \in Modules : state[m] = "MSUnknown"}

\* An assumed module is one the running call of check_module has finished or
\* is still visiting: the call that assumes also decides.
OwnedUnknowns == Unknowns \subseteq clean \union StackModules

\* Without the content policy an assumed module has the current mark.
LEMMA NeverDies ==
    ASSUME Inv, OwnedUnknowns PROVE ~DieOnUnknown
<1> SUFFICES ASSUME DieOnUnknown PROVE FALSE
  OBVIOUS
<1>1. pc = "call" /\ cur \notin checked /\ state[cur] = "MSUnknown" /\ cur \in Modules
  BY DEF DieOnUnknown, Inv, TypeOK
<1>2. cur \in clean \union StackModules
  BY <1>1 DEF OwnedUnknowns, Unknowns
<1>3. clean \union StackModules \subseteq Tentative
  BY <1>1 DEF Inv, Shape, Assuming
<1> QED BY <1>1, <1>2, <1>3 DEF Tentative

\* Between compilations and calls.
LEMMA OwnedOutside ==
    ASSUME Inv, OwnedUnknowns,
           \/ \E m \in Modules : Edit(m) \/ Taint(m) \/ LoadModule(m)
           \/ EndUncached \/ EndCached
    PROVE  OwnedUnknowns'
<1>1. pc = "idle"
  BY DEF Edit, Taint, LoadModule, EndUncached, EndCached, NextStep
<1>2. Unknowns = {}
  BY <1>1, AtRest DEF OwnedUnknowns
<1>3. \A m \in Modules : state[m] # "MSUnknown"
  BY <1>2 DEF Unknowns
<1>4. state \in [Modules -> {"MSGood", "MSUnknown"} \union Bad]
  BY DEF Inv, TypeOK
<1>5. \A m \in Modules : state'[m] # "MSUnknown"
  <2>1. ASSUME NEW n \in Modules, Taint(n) PROVE \A m \in Modules : state'[m] # "MSUnknown"
    BY <1>3, <1>4, <2>1 DEF Taint
  <2>2. CASE EndCached
    BY <1>3, <2>2 DEF EndCached
  <2>3. CASE UNCHANGED state
    BY <1>3, <2>3
  <2>4. ASSUME NEW n \in Modules, Edit(n) \/ LoadModule(n) PROVE UNCHANGED state
    BY <2>4 DEF Edit, LoadModule
  <2>5. ASSUME EndUncached PROVE UNCHANGED state
    BY <2>5 DEF EndUncached
  <2> QED BY <2>1, <2>2, <2>3, <2>4, <2>5
<1> QED BY <1>5 DEF OwnedUnknowns, Unknowns

\* The visit of a module puts it on the stack with the assumption.
LEMMA OwnedCheckSelfClean ==
    ASSUME Inv, OwnedUnknowns, CheckSelfClean PROVE OwnedUnknowns'
<1> DEFINE f == [mod |-> cur, todo |-> deps[cur]]
<1>1. /\ clean' = clean /\ stack' = Append(stack, f)
      /\ state' = [state EXCEPT ![cur] = "MSUnknown"]
  BY DEF CheckSelfClean
<1>2. /\ state \in [Modules -> {"MSGood", "MSUnknown"} \union Bad]
      /\ cur \in Modules /\ stack \in Seq(Frame) /\ deps[cur] \in SUBSET Modules
  BY ConstantsAssumption DEF Inv, TypeOK, Frame
<1>3. f \in Frame /\ f.mod = cur
  BY <1>2 DEF Frame
<1> HIDE DEF f
<1>4. /\ Len(stack) \in Nat /\ Len(stack') = Len(stack) + 1
      /\ stack'[Len(stack) + 1] = f /\ \A i \in 1..Len(stack) : stack'[i] = stack[i]
  BY <1>1, <1>2, <1>3, Pushed
<1>5. StackModules' = StackModules \union {cur}
  BY <1>3, <1>4 DEF StackModules
<1>6. Unknowns' = Unknowns \union {cur}
  BY <1>1, <1>2 DEF Unknowns
<1> QED BY <1>1, <1>5, <1>6 DEF OwnedUnknowns

LEMMA OwnedNextDependency ==
    ASSUME Inv, OwnedUnknowns, NextDependency PROVE OwnedUnknowns'
<1>1. PICK n \in Top.todo : stack' = Visit(n)
  BY DEF NextDependency
<1>2. UNCHANGED <<state, clean>> /\ stack \in Seq(Frame) /\ stack # <<>>
  BY DEF NextDependency, Inv, TypeOK, Frame
<1> DEFINE f == [mod |-> Top.mod, todo |-> Top.todo \ {n}]
<1>3. f.mod = Top.mod /\ f \in Frame
  BY <1>2, TopFrame
<1>4. stack' = [stack EXCEPT ![Len(stack)] = f]
  BY <1>1 DEF Visit
<1> HIDE DEF f
<1>5. /\ Len(stack') = Len(stack) /\ stack'[Len(stack)] = f
      /\ \A i \in 1..(Len(stack) - 1) : stack'[i] = stack[i]
      /\ Len(stack) \in Nat \ {0}
  BY <1>2, <1>3, <1>4, Replaced, Popped
<1>6. \A i \in 1..Len(stack) : i \in 1..(Len(stack) - 1) \/ i = Len(stack)
  BY <1>5
<1>7. \A i \in 1..Len(stack) : stack'[i].mod = stack[i].mod
  BY <1>3, <1>5, <1>6 DEF Top
<1>8. StackModules' = StackModules
  BY <1>5, <1>7 DEF StackModules
<1> QED BY <1>2, <1>8 DEF OwnedUnknowns, Unknowns

\* A return moves a module from the stack to the finished ones, or decides it.
LEMMA OwnedReturn ==
    ASSUME Inv, OwnedUnknowns, DependenciesDone \/ DependencyIsDirty
    PROVE  OwnedUnknowns'
<1>1. stack' = Pop /\ stack \in Seq(Frame) /\ stack # <<>>
  BY DEF DependenciesDone, DependencyIsDirty, Inv, TypeOK, Frame
<1>2. Top.mod \in Modules /\ StackModules = StackModules' \union {Top.mod}
  BY <1>1, BelowTop
<1>3. CASE DependenciesDone
  BY <1>2, <1>3 DEF DependenciesDone, OwnedUnknowns, Unknowns
<1>4. CASE DependencyIsDirty
  <2>1. clean' = clean /\ state' = [state EXCEPT ![Top.mod] = "DependencyDirty"]
    BY <1>4 DEF DependencyIsDirty
  <2>2. Unknowns' \subseteq Unknowns \ {Top.mod}
    BY <1>2, <2>1 DEF Unknowns, Inv, TypeOK
  <2> QED BY <1>2, <2>1, <2>2 DEF OwnedUnknowns
<1> QED BY <1>3, <1>4

\* The end of the outermost call confirms or takes back what is finished.
LEMMA OwnedFinish ==
    ASSUME Inv, OwnedUnknowns, FinishClean \/ FinishDirty PROVE OwnedUnknowns'
<1>1. stack = <<>>
  BY DEF FinishClean, FinishDirty
<1>2. StackModules = {}
  BY <1>1 DEF StackModules
<1>3. Unknowns \subseteq clean
  BY <1>2 DEF OwnedUnknowns
<1>4. Unknowns' = {}
  BY <1>3 DEF FinishClean, FinishDirty, Assumed, Unknowns
<1> QED BY <1>4 DEF OwnedUnknowns

LEMMA OwnedStep ==
    ASSUME ContentModules = {}, MacroModules = {}, Inv, OwnedUnknowns, [Next]_vars
    PROVE  OwnedUnknowns'
<1>1. ~DieOnUnknown
  BY NeverDies
<1>2. ~CheckSelfRaises
  BY DEF CheckSelfRaises, SelfRaises
<1>3. ASSUME AlreadyChecked \/ StickToBad \/ DependencyClean \/ UNCHANGED vars
      PROVE  OwnedUnknowns'
  <2>1. UNCHANGED <<state, clean, stack>>
    BY <1>3 DEF AlreadyChecked, StickToBad, DependencyClean, vars, callVars
  <2> QED BY <2>1 DEF OwnedUnknowns, Unknowns, StackModules
<1>4. CASE CheckSelfDirty
  <2>1. UNCHANGED <<clean, stack>> /\ state' = [state EXCEPT ![cur] = "SelfDirty"]
    BY <1>4 DEF CheckSelfDirty
  <2>2. Unknowns' \subseteq Unknowns /\ StackModules' = StackModules
    BY <2>1 DEF Unknowns, StackModules, Inv, TypeOK
  <2> QED BY <2>1, <2>2 DEF OwnedUnknowns
<1> QED
  BY <1>1, <1>2, <1>3, <1>4, OwnedOutside, OwnedCheckSelfClean, OwnedNextDependency,
     OwnedReturn, OwnedFinish DEF Next, Check

(***************************************************************************)
(* Where no module is checked by content and none is a macro module, so    *)
(* that nothing raises in the check of a file, every assumption a call of  *)
(* check_module makes is decided before it returns, and the error          *)
(* "module was MSUnknown" is out of reach.                                 *)
(***************************************************************************)
THEOREM NothingStaysAssumed ==
    ASSUME ContentModules = {}, MacroModules = {}
    PROVE  Spec => []NothingAssumedAtRest
<1>1. Init => OwnedUnknowns
  BY DEF Init, OwnedUnknowns, Unknowns
<1>2. Inv /\ OwnedUnknowns /\ [Next]_vars => OwnedUnknowns'
  BY OwnedStep
<1>3. Inv /\ OwnedUnknowns => NothingAssumedAtRest
  BY AtRest DEF OwnedUnknowns, Unknowns, NothingAssumedAtRest
<1> QED BY <1>1, <1>2, <1>3, InvAlways, PTL DEF Spec
-----------------------------------------------------------------------------
(* Every bad module has a cause. *)

\* The pending calls are a path through the graph, without repetition, of
\* modules nothing is known about; the running call continues it.
Chain ==
    /\ StackModules \subseteq Tentative
    /\ \A i, j \in 1..Len(stack) : stack[i].mod = stack[j].mod => i = j
    /\ \A i \in 1..Len(stack) : stack[i].todo \subseteq deps[stack[i].mod]
    /\ \A i \in 1..(Len(stack) - 1) : stack[i + 1].mod \in deps[stack[i].mod]
    /\ pc \in {"call", "clean", "dirty"} /\ stack # <<>> => cur \in deps[Top.mod]

\* A call answers dirty for a bad module or for a replaced object.
Reason == pc = "dirty" => cur \in BadModules \/ (stack # <<>> /\ cur \in dead[Top.mod])

\* Without pending calls nothing is to be shown.
LEMMA ChainEmpty ==
    ASSUME stack' = <<>> PROVE Chain'
<1>1. Len(stack') = 0
  BY EmptySeq
<1>2. StackModules' = {}
  BY <1>1 DEF StackModules
<1> QED BY <1>1, <1>2 DEF Chain

\* A step that leaves the stack and the graph alone.
LEMMA ChainSame ==
    ASSUME Chain, UNCHANGED <<stack, deps, cur>>, Tentative \subseteq Tentative',
           pc' \in {"call", "clean", "dirty"} => pc \in {"call", "clean", "dirty"}
    PROVE  Chain'
<1>1. StackModules' = StackModules /\ Top' = Top
  BY DEF StackModules, Top
<1> QED BY <1>1 DEF Chain

LEMMA ChainPush ==
    ASSUME Inv, Chain, CheckSelfClean PROVE Chain'
<1> DEFINE f == [mod |-> cur, todo |-> deps[cur]]
<1>1. /\ UNCHANGED <<deps, cur>> /\ pc = "call" /\ pc' = "body" /\ cur \notin checked
      /\ checked' = checked \union {cur} /\ stack' = Append(stack, f)
      /\ state' = [state EXCEPT ![cur] = "MSUnknown"]
  BY DEF CheckSelfClean, FirstVisit, Mark, cacheVars
<1>2. /\ state \in [Modules -> {"MSGood", "MSUnknown"} \union Bad]
      /\ cur \in Modules /\ checked \subseteq Modules /\ stack \in Seq(Frame)
      /\ deps[cur] \in SUBSET Modules
  BY ConstantsAssumption DEF Inv, TypeOK, Frame
<1>3. f \in Frame /\ f.mod = cur /\ f.todo = deps[cur]
  BY <1>2 DEF Frame
<1> HIDE DEF f
<1>4. PICK n \in Nat : n = Len(stack)
  BY <1>2, LenProperties
<1>5. /\ Len(stack') = n + 1 /\ stack'[n + 1] = f
      /\ \A i \in 1..n : stack'[i] = stack[i]
  BY <1>1, <1>2, <1>3, <1>4, Pushed
<1>6. \A i \in 1..(n + 1) : i \in 1..n \/ i = n + 1
  BY <1>4
<1>7. Tentative' = Tentative \union {cur} /\ cur \notin Tentative
  BY <1>1, <1>2 DEF Tentative
<1>8. StackModules' \subseteq StackModules \union {cur}
  BY <1>3, <1>4, <1>5, <1>6 DEF StackModules
<1>9. \A i \in 1..n : stack[i].mod # cur
  BY <1>4, <1>7 DEF Chain, StackModules
<1>10. \A i, j \in 1..(n + 1) : stack'[i].mod = stack'[j].mod => i = j
  BY <1>3, <1>4, <1>5, <1>6, <1>9 DEF Chain
<1>11. \A i \in 1..(n + 1) : stack'[i].todo \subseteq deps[stack'[i].mod]
  BY <1>3, <1>4, <1>5, <1>6 DEF Chain
<1>12. ASSUME NEW i \in 1..n PROVE stack'[i + 1].mod \in deps[stack'[i].mod]
  <2>1. CASE i = n
    <3>1. n # 0 /\ stack # <<>>
      BY <1>4, <2>1, EmptySeq
    <3>2. cur \in deps[stack[n].mod]
      BY <1>1, <1>4, <3>1 DEF Chain, Top
    <3> QED BY <1>3, <1>5, <2>1, <3>2
  <2>2. CASE i # n
    <3>1. i \in 1..(n - 1) /\ i + 1 \in 1..n
      BY <2>2
    <3>2. stack[i + 1].mod \in deps[stack[i].mod]
      BY <1>4, <3>1 DEF Chain
    <3> QED BY <1>5, <3>1, <3>2
  <2> QED BY <2>1, <2>2
<1>13. \A i \in 1..(Len(stack') - 1) : i \in 1..n
  BY <1>5
<1> QED BY <1>1, <1>5, <1>7, <1>8, <1>10, <1>11, <1>12, <1>13 DEF Chain

LEMMA ChainVisit ==
    ASSUME Inv, Chain, NextDependency PROVE Chain' /\ Reason'
<1>1. PICK n \in Top.todo :
        /\ stack' = Visit(n)
        /\ cur' = n
        /\ pc' = IF n \in dead[Top.mod] THEN "dirty" ELSE "call"
  BY DEF NextDependency
<1>2. /\ UNCHANGED <<deps, dead, state, checked>>
      /\ stack \in Seq(Frame) /\ stack # <<>>
  BY DEF NextDependency, cacheVars, Inv, TypeOK, Frame
<1> DEFINE f == [mod |-> Top.mod, todo |-> Top.todo \ {n}]
<1>3. f.mod = Top.mod /\ f.todo = Top.todo \ {n} /\ f \in Frame
  BY <1>2, TopFrame
<1>4. stack' = [stack EXCEPT ![Len(stack)] = f]
  BY <1>1 DEF Visit
<1> HIDE DEF f
<1>5. /\ stack' # <<>> /\ Len(stack') = Len(stack) /\ stack'[Len(stack)] = f
      /\ \A i \in 1..(Len(stack) - 1) : stack'[i] = stack[i]
      /\ Len(stack) \in Nat \ {0}
  BY <1>2, <1>3, <1>4, Replaced, Popped
<1>6. \A i \in 1..Len(stack) : i \in 1..(Len(stack) - 1) \/ i = Len(stack)
  BY <1>5
<1>7. \A i \in 1..Len(stack) :
        stack'[i].mod = stack[i].mod /\ stack'[i].todo \subseteq stack[i].todo
  BY <1>3, <1>5, <1>6 DEF Top
<1>8. StackModules' = StackModules /\ Tentative' = Tentative /\ Top'.mod = Top.mod
  BY <1>2, <1>3, <1>5, <1>7 DEF StackModules, Tentative, Top
<1>9. n \in deps[Top.mod]
  BY <1>1, <1>5 DEF Chain, Top
<1>10. \A i \in 1..(Len(stack) - 1) : i \in 1..Len(stack) /\ i + 1 \in 1..Len(stack)
  BY <1>5
<1>11. \A i \in 1..(Len(stack) - 1) : stack'[i + 1].mod \in deps[stack'[i].mod]
  BY <1>7, <1>10 DEF Chain
<1>12. Chain'
  BY <1>1, <1>2, <1>5, <1>7, <1>8, <1>9, <1>11 DEF Chain
<1> QED BY <1>1, <1>2, <1>5, <1>8, <1>12 DEF Reason

\* A call that returns leaves the path to its caller.
LEMMA ChainReturn ==
    ASSUME Inv, Chain, UNCHANGED <<deps, checked>>, stack # <<>>, stack' = Pop, cur' = Top.mod,
           \/ UNCHANGED state
           \/ state' = [state EXCEPT ![Top.mod] = "DependencyDirty"]
    PROVE  Chain'
<1>1. /\ stack \in Seq(Frame) /\ checked \subseteq Modules
      /\ state \in [Modules -> {"MSGood", "MSUnknown"} \union Bad]
  BY DEF Inv, TypeOK, Frame
<1>2. PICK n \in Nat : n = Len(stack') /\ Len(stack) = n + 1
  BY <1>1, BelowTop
<1>3. /\ \A i \in 1..n : stack'[i] = stack[i] /\ i \in 1..(n + 1)
      /\ n + 1 \in 1..(n + 1)
  BY <1>1, <1>2, BelowTop
<1>4. \A i \in 1..n : stack[i].mod # Top.mod
  BY <1>2, <1>3 DEF Chain, Top
<1>5. StackModules' \subseteq StackModules \ {Top.mod}
  BY <1>2, <1>3, <1>4 DEF StackModules
<1>6. Tentative \ {Top.mod} \subseteq Tentative'
  <2>1. \A m \in Modules : m # Top.mod => state'[m] = state[m]
    BY <1>1
  <2> QED BY <1>1, <2>1 DEF Tentative
<1>7. \A i, j \in 1..n : stack'[i].mod = stack'[j].mod => i = j
  BY <1>2, <1>3 DEF Chain
<1>8. \A i \in 1..n : stack'[i].todo \subseteq deps[stack'[i].mod]
  BY <1>2, <1>3 DEF Chain
<1>9. \A i \in 1..n : stack[i + 1].mod \in deps[stack[i].mod]
  BY <1>2 DEF Chain
<1>10. \A i \in 1..(n - 1) : i \in 1..n /\ i + 1 \in 1..n
  OBVIOUS
<1>11. \A i \in 1..(n - 1) : stack'[i + 1].mod \in deps[stack'[i].mod]
  BY <1>3, <1>9, <1>10
<1>12. stack' # <<>> => n \in 1..n
  <2>1. stack' \in Seq(Frame)
    BY <1>1, Popped DEF Pop
  <2> QED BY <1>2, <2>1, EmptySeq
<1>13. stack' # <<>> => Top.mod \in deps[Top'.mod]
  BY <1>2, <1>3, <1>9, <1>12 DEF Top
<1> QED BY <1>2, <1>5, <1>6, <1>7, <1>8, <1>11, <1>13 DEF Chain

LEMMA ChainInit == Init => Chain /\ Reason
<1> SUFFICES ASSUME Init PROVE Chain /\ Reason
  OBVIOUS
<1>1. stack = <<>> /\ pc = "idle"
  BY DEF Init
<1>2. Len(stack) = 0
  BY <1>1, EmptySeq
<1> QED BY <1>1, <1>2 DEF Chain, Reason, StackModules

LEMMA ChainStep ==
    ASSUME Inv, Chain, Reason, [Next]_vars PROVE Chain' /\ Reason'
<1> USE DEF cacheVars, compileVars, callVars
<1>1. /\ state \in [Modules -> {"MSGood", "MSUnknown"} \union Bad]
      /\ checked \subseteq Modules /\ cur \in Modules
  BY DEF Inv, TypeOK
<1>2. ASSUME NEW m \in Modules, Edit(m) \/ Taint(m) \/ LoadModule(m)
      PROVE  Chain' /\ Reason'
  <2>1. pc = "idle" /\ UNCHANGED stack /\ pc' \in {"idle", "call"}
    BY <1>2 DEF Edit, Taint, LoadModule
  <2> QED BY <2>1, AtRest, ChainEmpty DEF Reason
<1>3. CASE EndUncached \/ EndCached
  <2>1. pc = "idle" /\ UNCHANGED stack /\ pc' = "idle"
    BY <1>3 DEF EndUncached, EndCached, NextStep
  <2> QED BY <2>1, AtRest, ChainEmpty DEF Reason
<1>4. CASE DieOnUnknown \/ CheckSelfRaises
  <2>1. stack' = <<>> /\ pc' = "idle"
    BY <1>4 DEF DieOnUnknown, CheckSelfRaises, Raise
  <2> QED BY <2>1, ChainEmpty DEF Reason
<1>5. CASE FinishClean \/ FinishDirty
  <2>1. stack' = <<>> /\ pc' = "idle"
    BY <1>5 DEF FinishClean, FinishDirty
  <2> QED BY <2>1, ChainEmpty DEF Reason
<1>6. CASE AlreadyChecked
  <2>1. /\ UNCHANGED <<stack, deps, cur, state, checked>> /\ pc = "call"
        /\ pc' = IF state[cur] \in Bad THEN "dirty" ELSE "clean"
    BY <1>6 DEF AlreadyChecked
  <2>2. Tentative' = Tentative /\ BadModules' = BadModules
    BY <2>1 DEF Tentative, BadModules
  <2> QED BY <1>1, <2>1, <2>2, ChainSame DEF Reason, BadModules
<1>7. CASE StickToBad \/ CheckSelfDirty
  <2>1. /\ UNCHANGED <<stack, deps, cur>> /\ pc = "call" /\ pc' = "dirty"
        /\ cur \notin checked /\ checked' = checked \union {cur}
        /\ \/ state' = state /\ state[cur] \in Bad
           \/ state' = [state EXCEPT ![cur] = "SelfDirty"]
    BY <1>7 DEF StickToBad, CheckSelfDirty, FirstVisit, Mark
  <2>2. Tentative \subseteq Tentative' /\ cur \in BadModules'
    BY <1>1, <2>1 DEF Tentative, BadModules, Bad
  <2> QED BY <2>1, <2>2, ChainSame DEF Reason
<1>8. CASE CheckSelfClean
  BY <1>8, ChainPush DEF CheckSelfClean, Reason
<1>9. CASE NextDependency
  BY <1>9, ChainVisit
<1>10. CASE DependencyClean
  <2>1. UNCHANGED <<stack, deps, cur, state, checked>> /\ pc = "clean" /\ pc' = "body"
    BY <1>10 DEF DependencyClean
  <2> QED BY <2>1, ChainSame DEF Reason, Tentative
<1>11. CASE DependenciesDone
  <2>1. stack # <<>>
    BY <1>11 DEF DependenciesDone, Inv, TypeOK
  <2> QED BY <1>11, <2>1, ChainReturn DEF DependenciesDone, Reason
<1>12. CASE DependencyIsDirty
  <2>1. /\ UNCHANGED <<deps, checked>> /\ stack # <<>> /\ stack' = Pop /\ cur' = Top.mod
        /\ state' = [state EXCEPT ![Top.mod] = "DependencyDirty"]
    BY <1>12 DEF DependencyIsDirty
  <2>2. Top.mod \in Modules
    BY <2>1, TopFrame DEF Inv, TypeOK, Frame
  <2>3. cur' \in BadModules'
    BY <1>1, <2>1, <2>2 DEF BadModules, Bad
  <2> QED BY <2>1, <2>3, ChainReturn DEF Reason
<1>13. CASE UNCHANGED vars
  <2>1. UNCHANGED <<stack, deps, dead, cur, state, checked, pc>>
    BY <1>13 DEF vars
  <2>2. Top' = Top /\ BadModules' = BadModules /\ Tentative' = Tentative
    BY <2>1 DEF Top, BadModules, Tentative
  <2> QED BY <2>1, <2>2, ChainSame DEF Reason
<1> QED
  BY <1>2, <1>3, <1>4, <1>5, <1>6, <1>7, <1>8, <1>9, <1>10, <1>11, <1>12, <1>13
  DEF Next, Check

\* No module becomes bad.
LEMMA CauseSame ==
    ASSUME BadHasCause, UNCHANGED <<deps, dead>>, BadModules' = BadModules,
           \A m \in BadModules : state'[m] = state[m]
    PROVE  BadHasCause'
<1> SUFFICES ASSUME NEW S \in SUBSET Modules, CauseClosed(S)' PROVE BadModules' \subseteq S
  BY DEF BadHasCause
<1>1. CauseClosed(S)
  BY DEF CauseClosed
<1> QED BY <1>1 DEF BadHasCause

\* One module becomes bad by itself.
LEMMA CauseSelf ==
    ASSUME BadHasCause, UNCHANGED <<deps, dead>>, NEW m \in Modules,
           state \in [Modules -> {"MSGood", "MSUnknown"} \union Bad],
           state' = [state EXCEPT ![m] = "SelfDirty"]
    PROVE  BadHasCause'
<1> SUFFICES ASSUME NEW S \in SUBSET Modules, CauseClosed(S)' PROVE BadModules' \subseteq S
  BY DEF BadHasCause
<1>1. m \in BadModules' /\ state'[m] = "SelfDirty" /\ BadModules' = BadModules \union {m}
  BY DEF BadModules, Bad
<1>2. m \in S
  BY <1>1 DEF CauseClosed
<1>3. CauseClosed(S)
  BY <1>1, <1>2 DEF CauseClosed
<1> QED BY <1>1, <1>2, <1>3 DEF BadHasCause

\* The caller becomes bad: so was what it depends on, and that has a cause.
LEMMA CauseDependency ==
    ASSUME Inv, Chain, Reason, BadHasCause, DependencyIsDirty PROVE BadHasCause'
<1> DEFINE m == Top.mod
<1>1. /\ UNCHANGED <<deps, dead>> /\ pc = "dirty" /\ stack # <<>>
      /\ state' = [state EXCEPT ![m] = "DependencyDirty"]
      /\ state \in [Modules -> {"MSGood", "MSUnknown"} \union Bad]
  BY DEF DependencyIsDirty, cacheVars, Inv, TypeOK
<1>2. m \in Modules /\ m \in Tentative
  BY <1>1, BelowTop DEF DependencyIsDirty, Chain, Inv, TypeOK, Frame
<1>3. m \notin BadModules
  BY <1>2 DEF Tentative, BadModules, Bad
<1>4. cur \in deps[m] /\ (cur \in BadModules \/ cur \in dead[m])
  BY <1>1 DEF Chain, Reason
<1> HIDE DEF m
<1>5. /\ BadModules' = BadModules \union {m} /\ m \in BadModules'
      /\ \A n \in BadModules : state'[n] = state[n]
  BY <1>1, <1>2, <1>3 DEF BadModules, Bad
<1> SUFFICES ASSUME NEW S \in SUBSET Modules, CauseClosed(S)' PROVE BadModules' \subseteq S
  BY DEF BadHasCause
<1>6. CauseClosed(S)
  BY <1>1, <1>5 DEF CauseClosed
<1>7. BadModules \subseteq S
  BY <1>6 DEF BadHasCause
<1>8. m \in S
  <2>1. CASE cur \in BadModules
    BY <1>1, <1>4, <1>5, <1>7, <2>1 DEF CauseClosed
  <2>2. CASE cur \in dead[m]
    BY <1>1, <1>5, <2>2 DEF CauseClosed
  <2> QED BY <1>4, <2>1, <2>2
<1> QED BY <1>5, <1>7, <1>8

\* A replaced module is good, and a cause by itself for what still refers to
\* its old object.
LEMMA CauseCached ==
    ASSUME Inv, BadHasCause, EndCached PROVE BadHasCause'
<1>1. /\ \A m \in Modules \ retyped : deps'[m] = deps[m]
      /\ dead' = [m \in Modules |->
                    IF m \in retyped THEN {} ELSE dead[m] \union (deps[m] \intersect retyped)]
      /\ state' = [m \in Modules |-> IF m \in retyped THEN "MSGood" ELSE state[m]]
  BY DEF EndCached
<1>2. /\ BadModules' = BadModules \ retyped
      /\ \A m \in BadModules' : state'[m] = state[m] /\ m \in Modules
  BY <1>1 DEF BadModules, Bad
<1> SUFFICES ASSUME NEW S \in SUBSET Modules, CauseClosed(S)' PROVE BadModules' \subseteq S
  BY DEF BadHasCause
<1> DEFINE T == S \union retyped
<1>3. T \in SUBSET Modules
  BY DEF Inv, TypeOK
<1>4. ASSUME NEW m \in BadModules, state[m] = "SelfDirty" \/ dead[m] # {} PROVE m \in T
  BY <1>1, <1>2, <1>4 DEF CauseClosed
<1>5. ASSUME NEW m \in BadModules, deps[m] \intersect T # {} PROVE m \in T
  <2> SUFFICES ASSUME m \notin retyped PROVE m \in S
    OBVIOUS
  <2>1. m \in BadModules' /\ m \in Modules /\ deps'[m] = deps[m]
    BY <1>1, <1>2
  <2>2. CASE deps[m] \intersect retyped # {}
    <3>1. dead'[m] # {}
      BY <1>1, <2>1, <2>2
    <3> QED BY <2>1, <3>1 DEF CauseClosed
  <2>3. CASE deps[m] \intersect S # {}
    BY <2>1, <2>3 DEF CauseClosed
  <2> QED BY <1>5, <2>2, <2>3
<1> HIDE DEF T
<1>6. BadModules \subseteq T
  BY <1>3, <1>4, <1>5 DEF CauseClosed, BadHasCause
<1> QED BY <1>2, <1>6 DEF T

LEMMA CauseStep ==
    ASSUME Inv, Chain, Reason, BadHasCause, [Next]_vars PROVE BadHasCause'
<1> USE DEF cacheVars
<1>1. state \in [Modules -> {"MSGood", "MSUnknown"} \union Bad] /\ cur \in Modules
  BY DEF Inv, TypeOK
<1>2. ASSUME UNCHANGED <<state, deps, dead>> PROVE BadHasCause'
  BY <1>2, CauseSame DEF BadModules
<1>3. ASSUME NEW m \in Modules, Edit(m) \/ LoadModule(m) PROVE BadHasCause'
  BY <1>2, <1>3 DEF Edit, LoadModule
<1>4. ASSUME NEW m \in Modules, Taint(m) PROVE BadHasCause'
  BY <1>1, <1>4, CauseSelf DEF Taint
<1>5. CASE EndUncached \/ AlreadyChecked \/ StickToBad
  BY <1>2, <1>5 DEF EndUncached, AlreadyChecked, StickToBad
<1>6. CASE DieOnUnknown
  BY <1>2, <1>6 DEF DieOnUnknown, Raise
<1>7. CASE NextDependency \/ DependencyClean \/ DependenciesDone
  BY <1>2, <1>7 DEF NextDependency, DependencyClean, DependenciesDone
<1>8. CASE EndCached
  BY <1>8, CauseCached
<1>9. CASE CheckSelfDirty
  BY <1>1, <1>9, CauseSelf DEF CheckSelfDirty
<1>10. CASE DependencyIsDirty
  BY <1>10, CauseDependency
<1>11. CASE CheckSelfClean \/ CheckSelfRaises
  <2>1. /\ UNCHANGED <<deps, dead>> /\ state[cur] = "MSGood"
        /\ state' = [state EXCEPT ![cur] = "MSUnknown"]
    BY <1>11 DEF CheckSelfClean, CheckSelfRaises, FirstVisit, Raise
  <2>2. BadModules' = BadModules /\ \A m \in BadModules : state'[m] = state[m]
    BY <1>1, <2>1 DEF BadModules, Bad
  <2> QED BY <2>1, <2>2, CauseSame
<1>12. CASE FinishClean \/ FinishDirty
  <2>1. UNCHANGED <<deps, dead>>
    BY <1>12 DEF FinishClean, FinishDirty
  <2>2. FinishClean => clean \subseteq Tentative
    BY DEF FinishClean, Inv, Shape, Assuming
  <2>3. PICK S \in SUBSET Modules :
          /\ \A m \in S : state[m] = "MSUnknown"
          /\ state' = [m \in Modules |-> IF m \in S THEN "MSGood" ELSE state[m]]
    <3>1. CASE FinishClean
      <4>1. clean \in SUBSET Modules /\ \A m \in clean : state[m] = "MSUnknown"
        BY <2>2, <3>1 DEF Tentative, Inv, TypeOK
      <4> QED BY <3>1, <4>1 DEF FinishClean
    <3>2. CASE FinishDirty
      <4>1. Assumed \in SUBSET Modules /\ \A m \in Assumed : state[m] = "MSUnknown"
        BY DEF Assumed, Inv, TypeOK
      <4> QED BY <3>2, <4>1 DEF FinishDirty
    <3> QED BY <1>12, <3>1, <3>2
  <2>4. BadModules' = BadModules /\ \A m \in BadModules : state'[m] = state[m]
    BY <1>1, <2>3 DEF BadModules, Bad
  <2> QED BY <2>1, <2>4, CauseSame
<1>13. CASE UNCHANGED vars
  BY <1>2, <1>13 DEF vars
<1> QED
  BY <1>3, <1>4, <1>5, <1>6, <1>7, <1>8, <1>9, <1>10, <1>11, <1>12, <1>13 DEF Next, Check

(***************************************************************************)
(* Whatever the graph and its cycles, whatever was tainted, edited, typed  *)
(* anew or cut short by an exception: every bad module is connected by bad *)
(* dependencies to one that is dirty itself or refers to a replaced object.*)
(***************************************************************************)
THEOREM EveryBadHasCause == Spec => []BadHasCause
<1>1. Init => BadHasCause
  BY DEF Init, BadHasCause, BadModules, Bad
<1>2. Chain /\ Reason /\ BadHasCause /\ Inv /\ [Next]_vars => (Chain /\ Reason /\ BadHasCause)'
  BY ChainStep, CauseStep
<1> QED BY <1>1, <1>2, ChainInit, InvAlways, PTL DEF Spec
=============================================================================
