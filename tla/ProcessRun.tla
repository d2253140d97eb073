----------------------------- MODULE ProcessRun -----------------------------
(***************************************************************************)
(* process_stubs.c as a whole: it is compiled for Unix (Process) or for    *)
(* Windows, where process_run writes a command line first (CommandLine).   *)
(***************************************************************************)
EXTENDS Process, CommandLine

VARIABLE system

vars == <<system, procvars, cmdvars>>

\* On Unix no line is written, and it does not matter what for.
Init ==
    /\ ProcInit /\ CmdInit
    /\ system \in {"unix", "windows"}
    /\ system = "unix" => vargs = Null

OnUnix == system = "unix" /\ ProcNext /\ UNCHANGED <<system, cmdvars>>
OnWindows == system = "windows" /\ CmdNext /\ UNCHANGED <<system, procvars>>

Next == OnUnix \/ OnWindows

Fairness ==
    /\ WF_vars(system = "unix" /\ CallStep /\ UNCHANGED <<system, cmdvars>>)
    /\ \A h \in Handle : WF_vars(system = "unix" /\ KidStep(h) /\ UNCHANGED <<system, cmdvars>>)

Spec == Init /\ [][Next]_vars /\ Fairness
=============================================================================
