--------------------------- MODULE DirectoryCache ---------------------------
(***************************************************************************)
(* The directory cache of the compilation server: how a request learns     *)
(* that another file of the class path has come in front of the one a      *)
(* cached module was typed from.  One module M of the root package, one    *)
(* signature.  A request is one or more compilations; the files may change *)
(* between any two of its steps.                                           *)
(*                                                                         *)
(* Times count the changes of the file system.  The whole seconds of file  *)
(* times show as files that are no younger than they should be.            *)
(***************************************************************************)
EXTENDS Integers, Sequences, SequencesExt

CONSTANTS
    Dirs,      \* directories
    Paths,     \* class paths of the requests, the first directory wins
    MaxTime,   \* bound on the changes of the file system
    MaxDelays  \* bound on the delays of requests that were cut off

ASSUME ConstantsAssumption ==
    /\ Dirs # {} /\ Paths \subseteq Seq(Dirs) \ {<<>>}
    /\ MaxTime \in Nat \ {0} /\ MaxDelays \in Nat \ {0}

VARIABLES
    clock,
    dirTime,    \* time of each directory, 0 if there is none
    file,       \* time of M.hx in each directory, 0 if there is none
    listed,     \* cs.directories has an entry for the signature
    known,      \* c_mtime of the directories in that entry, 0 for the others
    delays,     \* sctx.delays: the class paths whose directories they list
    asked, changed, \* sctx.changed_directories: whether there is an entry, and which
    classPath,  \* sctx.class_paths, and com.class_path while a request runs
    read, found, \* readdir_cache: directories read, and those that had M.hx
    cached,     \* the cached module: the file it was typed from and its state
    typed,      \* the file this compilation has typed M from
    pc,
    overlooked, \* history: directories whose M.hx the server has passed over
    began       \* history: the clock when the running request began

disk   == <<clock, dirTime, file>>
dirs   == <<listed, known, delays>>
memo   == <<asked, changed>>
com    == <<classPath, read, found, typed>>
vars == <<disk, dirs, memo, com, cached, pc, overlooked, began>>

Times    == 0..MaxTime
NoDirs   == [d \in Dirs |-> 0]
NoModule == [dir |-> CHOOSE d \in Dirs : TRUE, time |-> 0]

Init ==
    /\ clock = 1
    /\ dirTime = [d \in Dirs |-> 1]
    /\ file \in [Dirs -> {0, 1}]
    /\ listed = FALSE /\ known = NoDirs /\ delays = <<>>
    /\ asked = FALSE /\ changed = {}
    /\ classPath = <<>> /\ read = {} /\ found = {} /\ typed = NoModule
    /\ cached = [dir |-> NoModule.dir, time |-> 0, state |-> "none"]
    /\ pc = "idle" /\ overlooked = {} /\ began = 0
-----------------------------------------------------------------------------
(* The file system *)

Change ==
    /\ clock < MaxTime /\ clock' = clock + 1
    /\ UNCHANGED <<dirs, memo, com, cached, pc, overlooked, began>>

\* A file that is moved or copied may keep the time it had.
Create(d) ==
    /\ Change /\ dirTime[d] # 0 /\ file[d] = 0
    /\ \E t \in 1..clock' : file' = [file EXCEPT ![d] = t]
    /\ dirTime' = [dirTime EXCEPT ![d] = clock']

Delete(d) ==
    /\ Change /\ file[d] # 0
    /\ file' = [file EXCEPT ![d] = 0]
    /\ dirTime' = [dirTime EXCEPT ![d] = clock']

\* Written in place, a file leaves its directory as it was.
Rewrite(d) ==
    /\ Change /\ file[d] # 0
    /\ file' = [file EXCEPT ![d] = clock']
    /\ UNCHANGED dirTime

RemoveDir(d) ==
    /\ Change /\ dirTime[d] # 0
    /\ dirTime' = [dirTime EXCEPT ![d] = 0]
    /\ file' = [file EXCEPT ![d] = 0]

MakeDir(d) ==
    /\ Change /\ dirTime[d] = 0
    /\ dirTime' = [dirTime EXCEPT ![d] = clock']
    /\ UNCHANGED file
-----------------------------------------------------------------------------
(* A request *)

\* after_arg_parsing: a new class path clears the directories.
Compile(path) ==
    /\ classPath' = path /\ read' = {} /\ found' = {} /\ typed' = NoModule
    /\ IF classPath \in {<<>>, path}
          THEN UNCHANGED <<listed, known, overlooked>>
          ELSE listed' = FALSE /\ known' = NoDirs /\ overlooked' = {}
    /\ pc' = "lookup"
    /\ UNCHANGED <<disk, delays, cached>>

\* Faulty: forgets to clear changed_directories.
Begin_NoReset(path) ==
    /\ pc = "idle"
    /\ Compile(path)
    /\ began' = clock
    /\ UNCHANGED memo

Begin(path) ==
    /\ pc = "idle"
    /\ asked' = FALSE /\ changed' = {}
    /\ Compile(path)
    /\ began' = clock

\* --next: another compilation of the same request.
NextCompilation(path) ==
    /\ pc = "compiled"
    /\ Compile(path)
    /\ UNCHANGED <<memo, began>>

\* get_changed_directories, for M or for any other module that is checked.
Asking == pc \in {"lookup", "type", "typed"} /\ ~asked

AskNewContext ==
    /\ Asking /\ ~listed /\ Len(delays) < MaxDelays
    /\ asked' = TRUE /\ changed' = {}
    /\ listed' = TRUE
    /\ delays' = <<classPath>> \o delays
    /\ UNCHANGED <<disk, known, com, cached, pc, overlooked, began>>

AskDirectories ==
    /\ Asking /\ listed
    /\ asked' = TRUE
    /\ changed' = {d \in Dirs : 0 < known[d] /\ known[d] < dirTime[d]}
    /\ known' = [d \in Dirs |-> IF known[d] = 0 THEN 0 ELSE dirTime[d]]
    /\ overlooked' = {d \in overlooked \union changed' : dirTime[d] # 0}
    /\ UNCHANGED <<disk, listed, delays, com, cached, pc, began>>

\* find_file reads a directory once in a compilation, for whatever module, and
\* only after those that come before it.
ReadDirectory(d) ==
    /\ pc \in {"lookup", "type"} /\ d \notin read
    /\ \E i \in 1..Len(classPath) :
        classPath[i] = d /\ \A j \in 1..i-1 : classPath[j] \in read
    /\ read' = read \union {d}
    /\ found' = IF file[d] = 0 THEN found ELSE found \union {d}
    /\ UNCHANGED <<disk, dirs, memo, classPath, typed, cached, pc, overlooked, began>>

\* check_module_shadowing and check_file
Check == pc = "lookup" /\ asked /\ cached.state = "good"

Shadowed == \E d \in changed : file[d] > cached.time

Modified == file[cached.dir] # cached.time

Reuse ==
    /\ Check /\ ~Shadowed /\ ~Modified
    /\ overlooked' = (overlooked \ changed)
          \union {d \in changed : known[d] # 0 /\ file[d] \in 1..cached.time}
    /\ pc' = "reused"
    /\ UNCHANGED <<disk, dirs, memo, com, cached, began>>

GiveUp ==
    /\ Check /\ (Shadowed \/ Modified)
    /\ cached' = [cached EXCEPT !.state = "bad"]
    /\ pc' = "type"
    /\ UNCHANGED <<disk, dirs, memo, com, overlooked, began>>

Goto(next) ==
    /\ pc' = next
    /\ UNCHANGED <<disk, dirs, memo, com, cached, overlooked, began>>

NotCached == pc = "lookup" /\ cached.state # "good" /\ Goto("type")

NotNeeded == pc = "lookup" /\ Goto("compiled")

First(d) ==
    /\ d \in found
    /\ \E i \in 1..Len(classPath) :
        classPath[i] = d /\ \A j \in 1..i-1 : classPath[j] \in read \ found

\* make_module
Type(d) ==
    /\ pc = "type" /\ First(d) /\ file[d] # 0
    /\ typed' = [dir |-> d, time |-> file[d]]
    /\ overlooked' = {e \in read \ found : known[e] # 0 /\ file[e] # 0}
    /\ pc' = "typed"
    /\ UNCHANGED <<disk, dirs, memo, classPath, read, found, cached, began>>

NotFound ==
    /\ pc = "type"
    /\ \/ ToSet(classPath) \subseteq read \ found
       \/ \E d \in Dirs : First(d) /\ file[d] = 0
    /\ Goto("compiled")

\* after_compilation: cache_context, unless there were errors or the request
\* does not populate the cache.
EndCached ==
    /\ pc = "typed" /\ pc' = "compiled"
    /\ cached' = [dir |-> typed.dir, time |-> typed.time, state |-> "good"]
    /\ UNCHANGED <<disk, dirs, memo, com, overlooked, began>>

EndUncached == pc \in {"typed", "reused"} /\ Goto("compiled")

Leave ==
    /\ pc' = "idle"
    /\ read' = {} /\ found' = {} /\ typed' = NoModule /\ began' = 0
    /\ UNCHANGED <<disk, memo, classPath, cached>>

\* M.hx in directory d comes before the one in directory e.
Before(d, e) ==
    /\ file[d] # 0
    /\ \E i \in 1..Len(classPath) :
        classPath[i] = d /\ \A j \in 1..i : classPath[j] # e

\* run_delays, the newest first: each replaces the list by the directories
\* that exist on its class path. What has come before the cached file by then is
\* passed over.
RunDelays ==
    /\ pc = "compiled" /\ Leave
    /\ delays' = <<>>
    /\ IF delays = <<>>
          THEN UNCHANGED <<listed, known, overlooked>>
          ELSE /\ listed' = TRUE
               /\ known' = [d \in Dirs |-> IF d \in ToSet(Last(delays)) THEN dirTime[d] ELSE 0]
               /\ overlooked' = {d \in Dirs : known'[d] # 0 /\ Before(d, cached.dir)}

\* An exception, as when the client is gone: the delays stay.
CutOff == pc # "idle" /\ Leave /\ UNCHANGED <<dirs, overlooked>>
-----------------------------------------------------------------------------
Files ==
    \E d \in Dirs : Create(d) \/ Delete(d) \/ Rewrite(d) \/ RemoveDir(d) \/ MakeDir(d)

Server ==
    \/ \E path \in Paths : Begin(path) \/ NextCompilation(path)
    \/ AskNewContext \/ AskDirectories
    \/ \E d \in Dirs : ReadDirectory(d) \/ Type(d)
    \/ Reuse \/ GiveUp \/ NotCached \/ NotNeeded \/ NotFound
    \/ EndCached \/ EndUncached \/ RunDelays \/ CutOff

Next == Files \/ Server

Spec == Init /\ [][Next]_vars
-----------------------------------------------------------------------------
(* Properties *)

DiskOK ==
    clock \in Times /\ dirTime \in [Dirs -> Times] /\ file \in [Dirs -> Times]

DirsOK ==
    /\ listed \in BOOLEAN /\ known \in [Dirs -> Times]
    /\ asked \in BOOLEAN /\ changed \subseteq Dirs
    /\ overlooked \subseteq {d \in Dirs : known[d] # 0}
    /\ listed \/ \A d \in Dirs : known[d] = 0

DelaysOK == delays \in Seq(Paths) /\ Len(delays) <= MaxDelays

RequestOK ==
    /\ pc \in {"idle", "lookup", "type", "typed", "reused", "compiled"}
    /\ classPath \in Paths \/ (classPath = <<>> /\ pc = "idle")
    /\ read \subseteq Dirs /\ found \subseteq read
    /\ cached \in [dir : Dirs, time : Times, state : {"none", "good", "bad"}]
    /\ typed \in [dir : Dirs, time : Times]
    /\ cached.state # "none" => cached.time # 0
    /\ pc = "typed" => typed.time # 0
    /\ began \in Times

\* The types; what is cached or typed has a file, and only listed directories a time.
TypeOK == DiskOK /\ DirsOK /\ DelaysOK /\ RequestOK

(***************************************************************************)
(* A request that reuses M does not miss a file that shadows it, unless    *)
(* the server does not know the directory, has passed over the file        *)
(* before, or the directory changed after the request began.               *)
(***************************************************************************)
ShadowingIsSeen ==
    [][pc = "lookup" /\ pc' = "reused" =>
        \A d \in Dirs : Before(d, cached.dir) =>
            known[d] = 0 \/ d \in overlooked' \/ dirTime[d] > began]_vars
=============================================================================
