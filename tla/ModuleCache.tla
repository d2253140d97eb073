---------------------------- MODULE ModuleCache -----------------------------
(***************************************************************************)
(* One source file in the compilation server: its text and modification    *)
(* time on disk, the parsed file and the typed module the server keeps of  *)
(* it, and the steps in which a request consults and replaces them.  Other *)
(* modules appear only as the errors that keep a context from being cached *)
(* (the graph of modules is the subject of CheckModule).                   *)
(***************************************************************************)
EXTENDS Integers

CONSTANTS
    Contents,       \* texts of the file
    Unparsable,     \* those with a syntax error
    None,           \* nothing cached, nothing compiled
    MaxTime,        \* bound on modification times
    Racing,         \* the file may be written while a request runs
    SameSecond,     \* a write may leave the modification time as it was
    ContentPolicy,  \* the module has the policy CheckFileContentModification
    Explores        \* there are requests that parse without typing

ASSUME ConstantsAssumption ==
    /\ Unparsable \subseteq Contents
    /\ MaxTime \in Nat
    /\ {Racing, SameSecond, ContentPolicy, Explores} \subseteq BOOLEAN

VARIABLES
    content, mtime,  \* the file on disk
    cfile,           \* context_cache.files: [time, content], or None
    cached,          \* context_cache.modules: [time, content, state], or None
    module,          \* the module this compilation has typed, or None
    pc,              \* what the running request does next
    caller,          \* who called parse_file: "compare", "load", "explore"
    ftime, data,     \* locals of parse_file: the time, the declarations
    old,             \* content_changed: the declarations parsed before
    seen, result,    \* history: as in FreshCompile
    late,            \* history: the file was written after data was its text
    mistimed,        \* history: make_module gave the cached module the time of
                     \* such a later write
    overtaken        \* history: an exploration has since parsed the file the
                     \* content policy compares the cached module's text with

Times   == 0..MaxTime
Parsed  == [time : Times, content : Contents \ Unparsable]
Typed   == [time : Times, content : Contents \ Unparsable,
            state : {"good", "bad", "unknown"}]

ASSUME NoneAssumption == None \notin Contents \union Parsed \union Typed

disk    == <<content, mtime>>
marks   == <<late, mistimed, overtaken>>
locals  == <<caller, ftime, data, old>>
history == <<seen, result>>
vars == <<disk, marks, cfile, cached, module, pc, locals, history>>

Init ==
    /\ content \in Contents /\ mtime = 0
    /\ cfile = None /\ cached = None /\ module = None
    /\ pc = "idle" /\ caller = "load" /\ ftime = 0 /\ data = None /\ old = None
    /\ seen = {} /\ result = None
    /\ late = FALSE /\ mistimed = FALSE /\ overtaken = FALSE
-----------------------------------------------------------------------------
\* file_time has a resolution of one second (sys_filetime).
Write ==
    /\ pc = "idle" \/ Racing
    /\ content' \in Contents
    /\ \/ mtime < MaxTime /\ mtime' = mtime + 1
       \/ SameSecond /\ mtime' = mtime
    /\ seen' = IF seen = {} THEN {} ELSE seen \union {content'}
    /\ late' = (late \/ pc \in {"parse", "parsed"})
    /\ UNCHANGED <<mistimed, overtaken, cfile, cached, module, pc, locals, result>>

\* server/invalidate, a display request in a file that was not parsed, or a
\* macro of the running compilation: taint_modules and remove_files.
Invalidate ==
    /\ pc \in {"idle", "typed"}
    /\ cfile' = None
    /\ cached' = IF cached = None THEN None ELSE [cached EXCEPT !.state = "bad"]
    /\ UNCHANGED <<disk, marks, module, pc, locals, history>>

ParseFile(who) == caller' = who /\ data' = None /\ pc' = "stat"

Answer(r) == result' = r /\ seen' = {} /\ pc' = "idle"

Compile ==
    /\ pc = "idle"
    /\ seen' = {content} /\ result' = None
    /\ pc' = "lookup"
    /\ UNCHANGED <<disk, marks, cfile, cached, module, locals>>

\* DisplayToplevel.read_class_paths: every file of the class path is parsed.
Explore ==
    /\ pc = "idle" /\ Explores
    /\ ParseFile("explore")
    /\ UNCHANGED <<disk, marks, cfile, cached, module, ftime, old, history>>
-----------------------------------------------------------------------------
(* type_module and check_file *)

\* Not in the cache, or already known to be bad: parse and type it.
LookupFails ==
    /\ pc = "lookup"
    /\ IF cached = None THEN TRUE ELSE cached.state = "bad"
    /\ ParseFile("load")
    /\ UNCHANGED <<disk, marks, cfile, cached, module, ftime, old, history>>

\* An exception once left check_module: every later check of the module dies.
LookupDies ==
    /\ pc = "lookup" /\ cached # None /\ cached.state = "unknown"
    /\ Answer(None)
    /\ UNCHANGED <<disk, marks, cfile, cached, module, locals>>

CheckFile == pc = "lookup" /\ cached # None /\ cached.state = "good"

FileUnmodified ==
    /\ CheckFile /\ mtime = cached.time
    /\ Answer(cached.content)
    /\ UNCHANGED <<disk, marks, cfile, cached, module, locals>>

\* Without the policy, or without the file as it was parsed, a new time is
\* all it takes.
FileModified ==
    /\ CheckFile /\ mtime # cached.time
    /\ ~ContentPolicy \/ cfile = None
    /\ cached' = [cached EXCEPT !.state = "bad"]
    /\ ParseFile("load")
    /\ UNCHANGED <<disk, marks, cfile, module, ftime, old, history>>

CompareContent ==
    /\ CheckFile /\ mtime # cached.time /\ ContentPolicy /\ cfile # None
    /\ old' = cfile.content
    /\ cached' = [cached EXCEPT !.state = "unknown"]
    /\ ParseFile("compare")
    /\ UNCHANGED <<disk, marks, cfile, module, ftime, history>>

\* Faulty: looks up the old declarations after the file was parsed again.
ContentUnchanged_LookupLast ==
    /\ pc = "parsed" /\ caller = "compare" /\ data = cfile.content
    /\ cached' = [cached EXCEPT !.state = "good"]
    /\ Answer(cached.content)
    /\ UNCHANGED <<disk, marks, cfile, module, locals>>

ContentUnchanged ==
    /\ pc = "parsed" /\ caller = "compare" /\ data = old
    /\ cached' = [cached EXCEPT !.state = "good"]
    /\ Answer(cached.content)
    /\ UNCHANGED <<disk, marks, cfile, module, locals>>

ContentChanged ==
    /\ pc = "parsed" /\ caller = "compare" /\ data # old
    /\ cached' = [cached EXCEPT !.state = "bad"]
    /\ ParseFile("load")
    /\ UNCHANGED <<disk, marks, cfile, module, ftime, old, history>>
-----------------------------------------------------------------------------
(* parse_file *)

Stat ==
    /\ pc = "stat"
    /\ ftime' = mtime /\ pc' = "parse" /\ late' = FALSE
    /\ UNCHANGED <<disk, mistimed, overtaken, cfile, cached, module, caller, data, old, history>>

ParseHit ==
    /\ pc = "parse" /\ cfile # None /\ cfile.time = ftime
    /\ data' = cfile.content /\ pc' = "parsed"
    /\ UNCHANGED <<disk, marks, cfile, cached, module, caller, ftime, old, history>>

CacheMiss == pc = "parse" /\ IF cfile = None THEN TRUE ELSE cfile.time # ftime

\* Faulty: asks for the time once the text is read, as make_module does.
ParseRead_TimeLast ==
    /\ CacheMiss /\ data \notin Unparsable
    /\ IF data = None
          THEN data' = content /\ UNCHANGED <<cfile, pc>>
          ELSE cfile' = [time |-> mtime, content |-> data] /\ pc' = "parsed" /\ UNCHANGED data
    /\ UNCHANGED <<disk, marks, cached, module, caller, ftime, old, history>>

ParseRead ==
    /\ CacheMiss /\ content \notin Unparsable
    /\ cfile' = [time |-> ftime, content |-> content]
    /\ data' = content /\ pc' = "parsed" /\ late' = FALSE
    /\ overtaken' = (overtaken \/ (caller = "explore" /\ ContentPolicy))
    /\ UNCHANGED <<disk, mistimed, cached, module, caller, ftime, old, history>>

\* A syntax error is not cached and ends the request.
ParseFails ==
    /\ CacheMiss /\ content \in Unparsable
    /\ IF caller = "explore" THEN pc' = "idle" /\ UNCHANGED history ELSE Answer(None)
    /\ UNCHANGED <<disk, marks, cfile, cached, module, locals>>

ExploreDone ==
    /\ pc = "parsed" /\ caller = "explore"
    /\ pc' = "idle"
    /\ UNCHANGED <<disk, marks, cfile, cached, module, locals, history>>
-----------------------------------------------------------------------------
(* Typing and the end of the compilation *)

\* make_module asks for the time of the file once more.
MakeModule ==
    /\ pc = "parsed" /\ caller = "load"
    /\ module' = [time |-> mtime, content |-> data, state |-> "good"]
    /\ pc' = "typed"
    /\ UNCHANGED <<disk, marks, cfile, cached, locals, history>>

\* cache_context
EndCached ==
    /\ pc = "typed"
    /\ cached' = module /\ module' = None
    /\ mistimed' = late /\ overtaken' = FALSE
    /\ Answer(module.content)
    /\ UNCHANGED <<disk, late, cfile, locals>>

\* Faulty: the typed module is still there when the request is over.
EndUncached_NoReset ==
    /\ pc = "typed"
    /\ Answer(module.content)
    /\ UNCHANGED <<disk, marks, cfile, cached, module, locals>>

\* An error elsewhere, or a request that does not populate the cache.
EndUncached ==
    /\ pc = "typed"
    /\ module' = None
    /\ Answer(module.content)
    /\ UNCHANGED <<disk, marks, cfile, cached, locals>>
-----------------------------------------------------------------------------
Next ==
    \/ Write \/ Invalidate \/ Compile \/ Explore
    \/ LookupFails \/ LookupDies \/ FileUnmodified \/ FileModified
    \/ CompareContent \/ ContentUnchanged \/ ContentChanged
    \/ Stat \/ ParseHit \/ ParseRead \/ ParseFails \/ ExploreDone
    \/ MakeModule \/ EndCached \/ EndUncached

Spec == Init /\ [][Next]_vars
-----------------------------------------------------------------------------
(* Properties *)

\* The types; make_module has run exactly between typing and the end.
TypeOK ==
    /\ content \in Contents /\ mtime \in Times
    /\ cfile \in Parsed \union {None}
    /\ cached \in Typed \union {None}
    /\ module \in Typed \union {None}
    /\ pc \in {"idle", "lookup", "stat", "parse", "parsed", "typed"}
    /\ caller \in {"compare", "load", "explore"}
    /\ ftime \in Times
    /\ data \in (Contents \ Unparsable) \union {None}
    /\ old \in (Contents \ Unparsable) \union {None}
    /\ seen \subseteq Contents /\ result \in Contents \union {None}
    /\ late \in BOOLEAN /\ mistimed \in BOOLEAN /\ overtaken \in BOOLEAN
    /\ pc = "parsed" => data # None
    /\ caller = "compare" => cached # None
    /\ pc = "typed" <=> module # None

(***************************************************************************)
(* The parser cache never offers an old text under the present time of the *)
(* file, even when the file is written between the steps of parse_file:    *)
(* that is why the time is asked for before the text is read.              *)
(***************************************************************************)
ParseCacheFresh == cfile # None /\ cfile.time = mtime => cfile.content = content

(***************************************************************************)
(* "If it exists, a check is made to determine if it's still valid"        *)
(* (server.ml:766): every compilation that succeeds uses a text the file   *)
(* held while it ran, whatever was parsed, cached and invalidated before   *)
(* and whenever the file is written, also between two steps of a request.  *)
(* Two steps may serve an older text: the reuse by its time of a module    *)
(* whose text make_module gave the time of a later write, and the reuse by *)
(* its content of a module an exploration has parsed the file behind.      *)
(***************************************************************************)
Fresh == INSTANCE FreshCompile
         WITH Contents <- Contents, None <- None, content <- content, seen <- seen, result <- result

ServesFreshText ==
    /\ Fresh!Init
    /\ [][\/ mistimed /\ FileUnmodified
          \/ overtaken /\ ContentUnchanged
          \/ Fresh!Next]_(Fresh!vars)
=============================================================================
