---------------------------- MODULE CheckModule ----------------------------
(***************************************************************************)
(* Reuse of cached modules in the compilation server.                      *)
(*                                                                         *)
(* A compilation looks up every module it needs (TypeloadModule.load_module'*)
(* calls Server.type_module).  check_module walks the dependency graph of  *)
(* the cached module, marks what it visits, assumes the modules it has     *)
(* not finished to be clean (the graph has cycles) and either confirms the *)
(* whole visited subgraph or takes the assumptions back.  A module that is *)
(* clean is added to the compilation together with its dependencies; the   *)
(* others are typed anew.                                                  *)
(*                                                                         *)
(* The recursion of check is an explicit stack, one step per return point. *)
(* m_checked and m_added are only ever compared with the compilation step, *)
(* so `checked' and `added' are the sets of modules for which they equal it*)
(* and the number of compilations is not bounded.  The experimental policy *)
(* Retype and the NoCheck* policies, which turn checks off, are left out.  *)
(***************************************************************************)
EXTENDS Integers, Sequences

CONSTANTS
    Modules,         \* paths of the modules in the cache
    MacroModules,    \* those of kind MMacro; the others are MCode
    ContentModules,  \* those with the policy CheckFileContentModification
    Graphs           \* the dependency graphs the sources may have

ASSUME ConstantsAssumption ==
    /\ MacroModules \subseteq Modules
    /\ ContentModules \subseteq Modules
    /\ Graphs \subseteq [Modules -> SUBSET Modules]

VARIABLES
    deps,      \* m_deps of each cached module, by path
    dead,      \* the m_deps that lead to an object the cache has replaced
    disk,      \* the source file compared with m_time and the parsed content
    state,     \* m_cache_state; "SelfDirty" and "DependencyDirty" are MSBad
    checked,   \* modules with m_checked = compilation_step
    added,     \* modules with m_added = compilation_step
    retyped,   \* modules this compilation typed from source
    raised,    \* an exception left check_module in this compilation
    pc, cur,   \* what the running call of check does, and for which module
    stack,     \* the pending calls of check and the dependencies they have left
    clean,     \* unknown_state_modules of the running check_module
    passed,    \* history: own checks that succeeded in this compilation
    revoked    \* history: confirmed modules invalidated in this compilation

cacheVars   == <<deps, dead, disk>>
compileVars == <<added, retyped, raised, revoked>>
callVars    == <<pc, cur, stack, clean>>
vars == <<cacheVars, state, checked, compileVars, callVars, passed>>

Bad == {"SelfDirty", "DependencyDirty"}
BadModules == {m \in Modules : state[m] \in Bad}

\* Confirmed: judged reusable for good; tentative: assumed to be.
Confirmed == {m \in checked : state[m] = "MSGood"}
Tentative == {m \in checked : state[m] = "MSUnknown"}

Top == stack[Len(stack)]
Pop == SubSeq(stack, 1, Len(stack) - 1)
Visit(n) == [stack EXCEPT ![Len(stack)] = [mod |-> Top.mod, todo |-> Top.todo \ {n}]]

Init ==
    /\ deps \in Graphs
    /\ dead = [m \in Modules |-> {}]
    /\ disk = [m \in Modules |-> "same"]
    /\ state = [m \in Modules |-> "MSGood"]
    /\ checked = {} /\ added = {} /\ retyped = {} /\ raised = FALSE
    /\ pc = "idle" /\ cur \in Modules /\ stack = <<>> /\ clean = {}
    /\ passed = {} /\ revoked = {}
-----------------------------------------------------------------------------
(* The environment: edits, server/invalidate, compilations *)

\* An edit: only the time, the declarations, or a syntax error.  Edits that
\* race with the parsing of the same file are the subject of ModuleCache.
Edit(m) ==
    /\ pc = "idle" /\ m \notin retyped
    /\ \E d \in {"touched", "changed", "broken"} : disk' = [disk EXCEPT ![m] = d]
    /\ UNCHANGED <<deps, dead, state, checked, compileVars, callVars, passed>>

\* taint_modules: server/invalidate, or a macro calling invalidateFiles.
Taint(m) ==
    /\ pc = "idle"
    /\ state' = [state EXCEPT ![m] = "SelfDirty"]
    /\ revoked' = revoked \union ({m} \intersect Confirmed)
    /\ UNCHANGED <<cacheVars, checked, added, retyped, raised, callVars, passed>>

\* The compilation step is increased, so no mark is the current one any more.
NextStep ==
    /\ pc = "idle"
    /\ checked' = {} /\ added' = {} /\ retyped' = {} /\ raised' = FALSE
    /\ passed' = {} /\ revoked' = {}
    /\ UNCHANGED callVars

\* The compilation had errors, or was a display request that does not cache.
EndUncached == NextStep /\ UNCHANGED <<cacheVars, state>>

\* cache_context: the new objects replace the old ones in the cache, but not
\* in the m_deps of the modules that were not part of this compilation.
EndCached ==
    /\ NextStep
    /\ ~raised /\ retyped # {}
    /\ \E g \in Graphs :
        /\ \A m \in Modules \ retyped : g[m] = deps[m]
        /\ \A m \in retyped : g[m] \subseteq added \union retyped
        /\ deps' = g
    /\ dead' = [m \in Modules |->
                  IF m \in retyped THEN {} ELSE dead[m] \union (deps[m] \intersect retyped)]
    /\ state' = [m \in Modules |-> IF m \in retyped THEN "MSGood" ELSE state[m]]
    /\ disk' = [m \in Modules |-> IF m \in retyped THEN "same" ELSE disk[m]]

\* load_module' misses module_lut and calls type_module, which finds m cached.
LoadModule(m) ==
    /\ pc = "idle" /\ m \notin added \union retyped
    /\ pc' = "call" /\ cur' = m /\ clean' = {}
    /\ UNCHANGED <<cacheVars, state, checked, compileVars, stack, passed>>
-----------------------------------------------------------------------------
(* check_module *)

\* An exception other than Dirty unwinds every pending call.
Raise ==
    /\ raised' = TRUE /\ pc' = "idle" /\ stack' = <<>> /\ clean' = {}
    /\ UNCHANGED <<cacheVars, added, retyped, revoked, cur>>

Mark == checked' = checked \union {cur}

\* The mark matches: the assumption made on the first visit is the answer.
AlreadyChecked ==
    /\ pc = "call" /\ cur \in checked
    /\ pc' = IF state[cur] \in Bad THEN "dirty" ELSE "clean"
    /\ UNCHANGED <<cacheVars, state, checked, compileVars, cur, stack, clean, passed>>

StickToBad ==
    /\ pc = "call" /\ cur \notin checked /\ state[cur] \in Bad
    /\ Mark
    /\ pc' = "dirty"
    /\ UNCHANGED <<cacheVars, state, compileVars, cur, stack, clean, passed>>

DieOnUnknown ==
    /\ pc = "call" /\ cur \notin checked /\ state[cur] = "MSUnknown"
    /\ Mark
    /\ Raise
    /\ UNCHANGED <<state, passed>>

\* check_file: the time differs, and under the content policy the file is parsed
\* and its declarations are compared. A file that does not parse raises, and so
\* may check_module_path, which makes the macro context for a macro module.
FileDirty(m)  == disk[m] # "same" /\ ~(m \in ContentModules /\ disk[m] = "touched")
SelfRaises(m) == (m \in ContentModules /\ disk[m] = "broken") \/ m \in MacroModules

\* Faulty: a bad module is given another chance.
FirstVisit_Retry == pc = "call" /\ cur \notin checked /\ state[cur] # "MSUnknown" /\ Mark

FirstVisit == pc = "call" /\ cur \notin checked /\ state[cur] = "MSGood" /\ Mark

CheckSelfClean ==
    /\ FirstVisit /\ ~FileDirty(cur)
    /\ state' = [state EXCEPT ![cur] = "MSUnknown"]
    /\ passed' = passed \union {cur}
    /\ stack' = Append(stack, [mod |-> cur, todo |-> deps[cur]])
    /\ pc' = "body"
    /\ UNCHANGED <<cacheVars, compileVars, cur, clean>>

\* A display request that ignores parser errors compares what could be parsed.
CheckSelfDirty ==
    /\ FirstVisit /\ FileDirty(cur)
    /\ state' = [state EXCEPT ![cur] = "SelfDirty"]
    /\ pc' = "dirty"
    /\ UNCHANGED <<cacheVars, compileVars, cur, stack, clean, passed>>

\* Faulty: a check that raises counts as passed.
CheckSelfRaises_Clean ==
    /\ FirstVisit /\ SelfRaises(cur)
    /\ state' = [state EXCEPT ![cur] = "MSUnknown"]
    /\ clean' = clean \union {cur} /\ pc' = "clean"
    /\ UNCHANGED <<cacheVars, compileVars, cur, stack, passed>>

CheckSelfRaises ==
    /\ FirstVisit /\ SelfRaises(cur)
    /\ state' = [state EXCEPT ![cur] = "MSUnknown"]
    /\ Raise
    /\ UNCHANGED passed

\* Faulty: the walk over m_deps never advances.
NextDependency_Again ==
    /\ pc = "body"
    /\ \E n \in Top.todo :
        cur' = n /\ pc' = IF n \in dead[Top.mod] THEN "dirty" ELSE "call"
    /\ UNCHANGED <<cacheVars, state, checked, compileVars, stack, clean, passed>>

\* Faulty: looks the dependency up in the cache by its path.
NextDependency_ByPath ==
    /\ pc = "body"
    /\ \E n \in Top.todo :
        /\ stack' = Visit(n)
        /\ cur' = n /\ pc' = "call"
    /\ UNCHANGED <<cacheVars, state, checked, compileVars, clean, passed>>

\* check_dependencies visits them in the order of m_id, which says nothing
\* about the graph: any order.  A replaced object is bad and stays so.
NextDependency ==
    /\ pc = "body"
    /\ \E n \in Top.todo :
        /\ stack' = Visit(n)
        /\ cur' = n
        /\ pc' = IF n \in dead[Top.mod] THEN "dirty" ELSE "call"
    /\ UNCHANGED <<cacheVars, state, checked, compileVars, clean, passed>>

DependencyClean ==
    /\ pc = "clean" /\ stack # <<>>
    /\ pc' = "body"
    /\ UNCHANGED <<cacheVars, state, checked, compileVars, cur, stack, clean, passed>>

DependenciesDone ==
    /\ pc = "body" /\ Top.todo = {}
    /\ clean' = clean \union {Top.mod}
    /\ cur' = Top.mod /\ stack' = Pop /\ pc' = "clean"
    /\ UNCHANGED <<cacheVars, state, checked, compileVars, passed>>

\* Faulty: the dirty dependency does not end the loop of the caller.
DependencyIsDirty_Resume ==
    /\ pc = "dirty" /\ stack # <<>>
    /\ state' = [state EXCEPT ![Top.mod] = "DependencyDirty"]
    /\ cur' = Top.mod /\ stack' = Pop /\ pc' = "body"
    /\ UNCHANGED <<cacheVars, checked, compileVars, clean, passed>>

DependencyIsDirty ==
    /\ pc = "dirty" /\ stack # <<>>
    /\ state' = [state EXCEPT ![Top.mod] = "DependencyDirty"]
    /\ cur' = Top.mod /\ stack' = Pop
    /\ UNCHANGED <<cacheVars, checked, compileVars, pc, clean, passed>>

\* add_modules: m and what it reaches through modules of its kind.
SameKind(m, n) == (m \in MacroModules) = (n \in MacroModules)

AddClosed(m, S) ==
    \A x \in S : \A y \in deps[x] \ added : SameKind(m, y) => y \in S

AddModules(m) ==
    {x \in Modules : \A S \in SUBSET Modules : m \in S /\ AddClosed(m, S) => x \in S}

FinishClean ==
    /\ pc = "clean" /\ stack = <<>>
    /\ state' = [m \in Modules |-> IF m \in clean THEN "MSGood" ELSE state[m]]
    /\ added' = added \union AddModules(cur)
    /\ pc' = "idle" /\ clean' = {}
    /\ UNCHANGED <<cacheVars, checked, retyped, raised, revoked, cur, stack, passed>>

Assumed == {m \in clean : state[m] = "MSUnknown"}

\* Faulty: leaves what was assumed in its state.
FinishDirty_Leave ==
    /\ pc = "dirty" /\ stack = <<>>
    /\ retyped' = retyped \union {cur} /\ pc' = "idle" /\ clean' = {}
    /\ UNCHANGED <<cacheVars, state, checked, added, raised, revoked, cur, stack, passed>>

\* Faulty: m_checked keeps the current step.
FinishDirty_KeepMark ==
    /\ pc = "dirty" /\ stack = <<>>
    /\ state' = [m \in Modules |-> IF m \in Assumed THEN "MSGood" ELSE state[m]]
    /\ retyped' = retyped \union {cur} /\ pc' = "idle" /\ clean' = {}
    /\ UNCHANGED <<cacheVars, checked, added, raised, revoked, cur, stack, passed>>

\* Faulty: gives up everything the call has visited.
FinishDirty_GiveUpAll ==
    /\ pc = "dirty" /\ stack = <<>>
    /\ state' = [m \in Modules |-> IF m \in Assumed THEN "DependencyDirty" ELSE state[m]]
    /\ retyped' = retyped \union {cur} /\ pc' = "idle" /\ clean' = {}
    /\ UNCHANGED <<cacheVars, checked, added, raised, revoked, cur, stack, passed>>

\* Take the assumptions back and type cur from its source, unless that does
\* not parse.
FinishDirty ==
    /\ pc = "dirty" /\ stack = <<>>
    /\ checked' = checked \ Assumed
    /\ state' = [m \in Modules |-> IF m \in Assumed THEN "MSGood" ELSE state[m]]
    /\ retyped' = IF disk[cur] = "broken" THEN retyped ELSE retyped \union {cur}
    /\ raised' = (raised \/ disk[cur] = "broken")
    /\ pc' = "idle" /\ clean' = {}
    /\ UNCHANGED <<cacheVars, added, revoked, cur, stack, passed>>
-----------------------------------------------------------------------------
Check ==
    \/ AlreadyChecked \/ StickToBad \/ DieOnUnknown
    \/ CheckSelfClean \/ CheckSelfDirty \/ CheckSelfRaises
    \/ NextDependency \/ DependencyClean \/ DependenciesDone \/ DependencyIsDirty
    \/ FinishClean \/ FinishDirty

Next ==
    \/ \E m \in Modules : Edit(m) \/ Taint(m) \/ LoadModule(m)
    \/ EndUncached \/ EndCached
    \/ Check

\* The compiler runs a call of check_module to its end.
Spec == Init /\ [][Next]_vars /\ WF_vars(Check)
-----------------------------------------------------------------------------
(* Properties *)

\* The types; a call of check that walks over m_deps is on the stack.
TypeOK ==
    /\ deps \in Graphs
    /\ dead \in [Modules -> SUBSET Modules]
    /\ disk \in [Modules -> {"same", "touched", "changed", "broken"}]
    /\ state \in [Modules -> {"MSGood", "MSUnknown"} \union Bad]
    /\ checked \subseteq Modules /\ added \subseteq Modules
    /\ retyped \subseteq Modules /\ clean \subseteq Modules
    /\ passed \subseteq Modules /\ revoked \subseteq Modules
    /\ raised \in BOOLEAN
    /\ pc \in {"idle", "call", "body", "clean", "dirty"}
    /\ cur \in Modules
    /\ stack \in Seq([mod : Modules, todo : SUBSET Modules])
    /\ pc = "body" => stack # <<>>

(***************************************************************************)
(* "If the entire subgraph is clean, we can set all modules to good state":*)
(* a module the server vouches for passed its own check and depends only   *)
(* on such modules and on none that was replaced, although the checks of   *)
(* modules on a cycle rely on one another's unfinished results.  Modules a *)
(* macro invalidates after they were confirmed are the exception.          *)
(***************************************************************************)
ConfirmedClosed ==
    ~raised => \A m \in Confirmed :
        m \in passed /\ dead[m] = {} /\ deps[m] \subseteq Confirmed \union revoked

(***************************************************************************)
(* A compilation never holds a reused module next to a newly typed version *)
(* of one of its dependencies: the types of the two would not unify.       *)
(***************************************************************************)
NoMixedVersions ==
    ~raised => \A m \in added \ revoked :
        m \notin retyped /\ dead[m] = {} /\ deps[m] \intersect retyped \subseteq revoked

(***************************************************************************)
(* A module is only ever given up for a reason: from every MSBad module a  *)
(* path of MSBad dependencies leads to one whose own file or tainting made *)
(* it dirty, or to a replaced object.  An assumption made on a cycle must  *)
(* not survive as a DependencyDirty that nothing causes.                   *)
(***************************************************************************)
CauseClosed(S) ==
    /\ \A m \in BadModules : state[m] = "SelfDirty" \/ dead[m] # {} => m \in S
    /\ \A m \in BadModules : deps[m] \intersect S # {} => m \in S

BadHasCause == \A S \in SUBSET Modules : CauseClosed(S) => BadModules \subseteq S

\* Between two calls of check_module no module is left in the assumed state,
\* unless an exception may end a call (the content policy, the macro context):
\* die_on_unknown would end the next compilation that meets it.
NothingAssumedAtRest == pc = "idle" => \A m \in Modules : state[m] # "MSUnknown"

(***************************************************************************)
(* "If we are already dirty, stick to it": a bad module object never       *)
(* becomes good again; only caching a newly typed module in its place does *)
(* away with it.                                                           *)
(***************************************************************************)
StickyBad ==
    [][\A m \in BadModules : m \in BadModules' \/ (m \in retyped /\ retyped' = {})]_vars

\* However the graph is cyclic, every call of check_module returns.
CheckReturns == pc # "idle" ~> pc = "idle"
=============================================================================
