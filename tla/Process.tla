------------------------------ MODULE Process ------------------------------
(***************************************************************************)
(* src/libs/extc/process_stubs.c on Unix: processes that are started with  *)
(* three pipes each.  The program is one thread (no call gives up the      *)
(* runtime lock of OCaml), so a call that blocks blocks everything.  No    *)
(* descriptor is closed on exec: a child keeps a copy of whatever is open  *)
(* when it is forked, the ends of the pipes of earlier children included.  *)
(***************************************************************************)
EXTENDS Integers, Sequences, FiniteSets, FiniteSetsExt, Functions

CONSTANTS
    Handle,     \* the calls of process_run, and what they return
    Fd,         \* the numbers above those of the standard streams
    Pid,
    Capacity,   \* the bytes that a pipe holds
    KidStreams, \* the streams that children write to
    None, Freed

Stream == {"in", "out", "err"}
End == Handle \X Stream \X {"r", "w"}
NoFd == -1

\* A process_run that has opened some of its pipes, and what it returns at last.
Opening == [h : Handle, pipes : Seq(Fd \X Fd), forked : BOOLEAN]
Vprocess == [iwrite : Fd \union {NoFd}, oread : Fd, eread : Fd, pid : Pid]

ASSUME ProcessAssumption ==
    /\ Fd \subseteq Nat /\ Capacity \in Nat \ {0} /\ KidStreams \subseteq {"out", "err"}
    /\ None \notin End /\ None \notin Opening /\ None \notin Vprocess /\ Freed \notin Vprocess

VARIABLES
    fds,        \* the table of descriptors of the program
    run,        \* process_run under way: its handle and its pipes so far
    proc,       \* vprocess of every handle, Freed after
    call,       \* a call that may block: handle, operation, stream, bytes to write
    kid,        \* the children, with the ends of pipes they hold
    content,    \* bytes in every pipe
    ended,      \* a signal has ended the program
    lost,       \* history: numbers of pipes whose process_run has failed
    again,      \* history: exit or kill was called on a handle after exit returned
    strayed     \* history: exit or kill went to the child of another handle

hist == <<lost, again, strayed>>
procvars == <<fds, run, proc, call, kid, content, ended, hist>>

Free == {n \in Fd : fds[n] = None}
Held == Range(fds) \ {None}
HasEnd(e) == e \in Held \/ \E h \in Handle : e \in kid[h].held

Alive(h) == kid[h].state \in {"forked", "running"}
UsesPid(h, pid) == kid[h].pid = pid /\ (Alive(h) \/ kid[h].state = "zombie")
-----------------------------------------------------------------------------
ProcInit ==
    /\ fds = [n \in Fd |-> None]
    /\ run = None /\ call = None /\ ended = FALSE
    /\ proc = [h \in Handle |-> None]
    /\ kid = [h \in Handle |-> [state |-> "none", pid |-> 0, held |-> {}, output |-> None]]
    /\ content = [p \in Handle \X Stream |-> 0]
    /\ lost = {} /\ again = FALSE /\ strayed = FALSE

Ready == ~ended /\ run = None /\ call = None

\* The handle is a vprocess that was not closed.
Usable(h) == Ready /\ proc[h] \notin {None, Freed}

do_close(numbers) == fds' = [n \in Fd |-> IF n \in numbers THEN None ELSE fds[n]]
-----------------------------------------------------------------------------
(* process_run *)

Run(h) ==
    /\ Ready /\ proc[h] = None
    /\ run' = [h |-> h, pipes |-> << >>, forked |-> FALSE]
    /\ UNCHANGED <<fds, proc, call, kid, content, ended, hist>>

\* pipe: input, output and error in turn, each on the two lowest free numbers.
PipeOpens ==
    LET s == <<"in", "out", "err">>[Len(run.pipes) + 1]
        r == Min(Free)
        w == Min(Free \ {r})
    IN  /\ run # None /\ Len(run.pipes) < 3 /\ Cardinality(Free) >= 2
        /\ fds' = [fds EXCEPT ![r] = <<run.h, s, "r">>, ![w] = <<run.h, s, "w">>]
        /\ run' = [run EXCEPT !.pipes = Append(@, <<r, w>>)]
        /\ UNCHANGED <<proc, call, kid, content, ended, hist>>

Raise(h) == run' = None /\ proc' = [proc EXCEPT ![h] = Freed]

\* The pipes that were opened before the one that fails are not closed.
PipeFails ==
    /\ run # None /\ Len(run.pipes) < 3
    /\ Raise(run.h)
    /\ lost' = lost \union UNION {Range(run.pipes[i]) : i \in DOMAIN run.pipes}
    /\ UNCHANGED <<fds, call, kid, content, ended, again, strayed>>

Opened == run # None /\ Len(run.pipes) = 3 /\ ~run.forked

Fork(pid) ==
    /\ Opened /\ \A g \in Handle : ~UsesPid(g, pid)
    /\ kid' = [kid EXCEPT ![run.h] =
                  [state |-> "forked", pid |-> pid, held |-> Held, output |-> None]]
    /\ run' = [run EXCEPT !.forked = TRUE]
    /\ UNCHANGED <<fds, proc, call, content, ended, hist>>

\* Faulty: the ends of the parent are taken for closed already.
ForkFails_Leak ==
    /\ Opened
    /\ Raise(run.h)
    /\ do_close({run.pipes[1][1], run.pipes[2][2], run.pipes[3][2]})
    /\ UNCHANGED <<call, kid, content, ended, hist>>

ForkFails ==
    /\ Opened
    /\ Raise(run.h)
    /\ do_close(UNION {Range(run.pipes[i]) : i \in 1 .. 3})
    /\ UNCHANGED <<call, kid, content, ended, hist>>

\* The parent gives up the ends of its child and returns.
Started ==
    /\ run # None /\ run.forked
    /\ do_close({run.pipes[1][1], run.pipes[2][2], run.pipes[3][2]})
    /\ proc' = [proc EXCEPT ![run.h] =
                   [iwrite |-> run.pipes[1][2], oread |-> run.pipes[2][1],
                    eread |-> run.pipes[3][1], pid |-> kid[run.h].pid]]
    /\ run' = None
    /\ UNCHANGED <<call, kid, content, ended, hist>>
-----------------------------------------------------------------------------
(* The child *)

\* Faulty: the child keeps the end from which its input is written.
KidExecs_KeepInput(h) ==
    /\ kid[h].state = "forked"
    /\ kid' = [kid EXCEPT ![h].state = "running",
                          ![h].held = @ \ {<<h, "out", "r">>, <<h, "err", "r">>}]
    /\ UNCHANGED <<fds, run, proc, call, content, ended, hist>>

\* dup2 adds a second descriptor for an end and takes none away.
KidExecs(h) ==
    /\ kid[h].state = "forked"
    /\ kid' = [kid EXCEPT ![h].state = "running",
                          ![h].held = @ \ {<<h, "in", "w">>, <<h, "out", "r">>, <<h, "err", "r">>}]
    /\ UNCHANGED <<fds, run, proc, call, content, ended, hist>>

\* The end of a process, by itself or by a signal, closes what it holds.
Dead(h) == [kid[h] EXCEPT !.state = "zombie", !.held = {}, !.output = None]

\* execvp fails: a message, and exit(1).
KidNotFound(h) ==
    /\ kid[h].state = "forked"
    /\ kid' = [kid EXCEPT ![h] = Dead(h)]
    /\ content' = [content EXCEPT ![<<h, "err">>] = IF @ < Capacity THEN @ + 1 ELSE @]
    /\ UNCHANGED <<fds, run, proc, call, ended, hist>>

Reading(h) == kid[h].state = "running" /\ kid[h].output = None

\* The programs of the model copy their input, to any stream, until it ends.
KidReads(h) ==
    /\ Reading(h) /\ content[<<h, "in">>] > 0
    /\ content' = [content EXCEPT ![<<h, "in">>] = @ - 1]
    /\ \E s \in KidStreams : kid' = [kid EXCEPT ![h].output = s]
    /\ UNCHANGED <<fds, run, proc, call, ended, hist>>

KidWrites(h) ==
    /\ kid[h].output # None
    /\ IF HasEnd(<<h, kid[h].output, "r">>)
       THEN /\ content[<<h, kid[h].output>>] < Capacity
            /\ content' = [content EXCEPT ![<<h, kid[h].output>>] = @ + 1]
            /\ kid' = [kid EXCEPT ![h].output = None]
       ELSE kid' = [kid EXCEPT ![h] = Dead(h)] /\ UNCHANGED content
    /\ UNCHANGED <<fds, run, proc, call, ended, hist>>

KidSeesEof(h) ==
    /\ Reading(h) /\ content[<<h, "in">>] = 0 /\ ~HasEnd(<<h, "in", "w">>)
    /\ kid' = [kid EXCEPT ![h] = Dead(h)]
    /\ UNCHANGED <<fds, run, proc, call, content, ended, hist>>

\* A child may also end without reading its input to the end.
KidExits(h) ==
    /\ Reading(h)
    /\ kid' = [kid EXCEPT ![h] = Dead(h)]
    /\ UNCHANGED <<fds, run, proc, call, content, ended, hist>>
-----------------------------------------------------------------------------
(* Reading, writing, waiting *)

Blocking(h, op, s, len) ==
    /\ call' = [h |-> h, op |-> op, s |-> s, left |-> len]
    /\ UNCHANGED <<fds, run, proc, kid, content, ended>>

process_read(h, s) == Usable(h) /\ Blocking(h, "read", s, 0) /\ UNCHANGED hist

\* The number of a closed input is -1, and write raises at once. The length is
\* bounded by what a pipe holds and one byte more.
process_stdin_write(h) ==
    /\ Usable(h) /\ proc[h].iwrite # NoFd
    /\ \E len \in 1 .. Capacity + 1 : Blocking(h, "write", "in", len)
    /\ UNCHANGED hist

Reaped(h) == ~UsesPid(h, proc[h].pid)

process_exit(h) ==
    /\ Usable(h) /\ Blocking(h, "exit", "in", 0)
    /\ again' = (again \/ Reaped(h))
    /\ UNCHANGED <<lost, strayed>>

InCall(op) == call # None /\ call.op = op

\* read returns what there is, up to the length that was asked for.
ReadReturns ==
    /\ InCall("read")
    /\ \E n \in 1 .. content[<<call.h, call.s>>] :
           content' = [content EXCEPT ![<<call.h, call.s>>] = @ - n]
    /\ call' = None
    /\ UNCHANGED <<fds, run, proc, kid, ended, hist>>

\* Nothing is left and nobody can write: read returns 0 and the stub raises.
ReadRaises ==
    /\ InCall("read")
    /\ content[<<call.h, call.s>>] = 0 /\ ~HasEnd(<<call.h, call.s, "w">>)
    /\ call' = None
    /\ UNCHANGED <<fds, run, proc, kid, content, ended, hist>>

\* write puts what fits into the pipe and waits for room for the rest.
WriteBytes(n) ==
    /\ HasEnd(<<call.h, "in", "r">>)
    /\ content[<<call.h, "in">>] + n <= Capacity
    /\ content' = [content EXCEPT ![<<call.h, "in">>] = @ + n]
    /\ UNCHANGED <<fds, run, proc, kid, ended, hist>>

WritePart ==
    /\ InCall("write")
    /\ \E n \in 1 .. call.left - 1 :
           WriteBytes(n) /\ call' = [h |-> call.h, op |-> "write", s |-> "in", left |-> call.left - n]

WriteReturns ==
    /\ InCall("write")
    /\ WriteBytes(call.left)
    /\ call' = None

\* Nobody can read: SIGPIPE, which nothing in the program handles, ends it.
WriteEnds ==
    /\ InCall("write") /\ ~HasEnd(<<call.h, "in", "r">>)
    /\ ended' = TRUE
    /\ do_close(Fd)
    /\ call' = None
    /\ UNCHANGED <<run, proc, kid, content, hist>>

\* Faulty: waitpid(-1), any child.
ExitReturns_Any ==
    /\ InCall("exit")
    /\ \E g \in Handle :
           /\ kid[g].state = "zombie"
           /\ kid' = [kid EXCEPT ![g].state = "gone"]
           /\ strayed' = (strayed \/ g # call.h)
    /\ call' = None
    /\ UNCHANGED <<fds, run, proc, content, ended, lost, again>>

\* The child with the number of the handle has ended; its status is given out once,
\* or, if a signal has ended the child, the stub raises: either way the call is over.
ExitReturns ==
    /\ InCall("exit")
    /\ \E g \in Handle :
           /\ UsesPid(g, proc[call.h].pid) /\ kid[g].state = "zombie"
           /\ kid' = [kid EXCEPT ![g].state = "gone"]
           /\ strayed' = (strayed \/ g # call.h)
    /\ call' = None
    /\ UNCHANGED <<fds, run, proc, content, ended, lost, again>>

\* No child has the number any more: waitpid fails.
ExitRaises ==
    /\ InCall("exit")
    /\ ~\E g \in Handle : UsesPid(g, proc[call.h].pid)
    /\ call' = None
    /\ UNCHANGED <<fds, run, proc, kid, content, ended, hist>>

\* A signal reaches whichever child has the number.
process_kill(h) ==
    LET target == {g \in Handle : UsesPid(g, proc[h].pid)}
    IN  /\ Usable(h)
        /\ kid' = [g \in Handle |-> IF g \in target /\ Alive(g) THEN Dead(g) ELSE kid[g]]
        /\ again' = (again \/ Reaped(h))
        /\ strayed' = (strayed \/ ~(target \subseteq {h}))
        /\ UNCHANGED <<fds, run, proc, call, content, ended, lost>>
-----------------------------------------------------------------------------
(* Closing *)

\* Faulty: the number of the descriptor is kept.
process_stdin_close_Keep(h) ==
    /\ Usable(h) /\ proc[h].iwrite # NoFd
    /\ do_close({proc[h].iwrite})
    /\ UNCHANGED <<run, proc, call, kid, content, ended, hist>>

\* A second close of the input raises and changes nothing.
process_stdin_close(h) ==
    /\ Usable(h) /\ proc[h].iwrite # NoFd
    /\ do_close({proc[h].iwrite})
    /\ proc' = [proc EXCEPT ![h].iwrite = NoFd]
    /\ UNCHANGED <<run, call, kid, content, ended, hist>>

process_close(h) ==
    /\ Usable(h)
    /\ do_close({proc[h].eread, proc[h].oread, proc[h].iwrite})
    /\ proc' = [proc EXCEPT ![h] = Freed]
    /\ UNCHANGED <<run, call, kid, content, ended, hist>>
-----------------------------------------------------------------------------
RunStep == PipeOpens \/ PipeFails \/ (\E pid \in Pid : Fork(pid)) \/ ForkFails \/ Started
KidStep(h) == KidExecs(h) \/ KidNotFound(h) \/ KidReads(h) \/ KidWrites(h) \/ KidSeesEof(h)
CallStep ==
    \/ ReadReturns \/ ReadRaises \/ WritePart \/ WriteReturns \/ WriteEnds
    \/ ExitReturns \/ ExitRaises

Program(h) ==
    \/ Run(h)
    \/ \E s \in {"out", "err"} : process_read(h, s)
    \/ process_stdin_write(h) \/ process_exit(h)
    \/ process_kill(h) \/ process_stdin_close(h) \/ process_close(h)

ProcNext ==
    \/ RunStep \/ CallStep
    \/ \E h \in Handle : Program(h) \/ KidStep(h) \/ KidExits(h)

\* The kernel completes a call that can be completed, and every child runs.
ProcFairness ==
    /\ WF_procvars(CallStep)
    /\ \A h \in Handle : WF_procvars(KidStep(h))

ProcSpec == ProcInit /\ [][ProcNext]_procvars /\ ProcFairness
-----------------------------------------------------------------------------
(* Properties *)

Live(h) == proc[h] \notin {None, Freed}

Kids ==
    [state : {"none", "forked", "running", "zombie", "gone"}, pid : Pid \union {0},
     held : SUBSET End, output : KidStreams \union {None}]

\* The types; the dead hold nothing; before its process_run a handle has no pipes.
ProcTypeOK ==
    /\ fds \in [Fd -> End \union {None}]
    /\ \A h \in Handle :
           /\ kid[h] \in Kids
           /\ ~Alive(h) => kid[h].held = {}
           /\ proc[h] = None /\ (run = None \/ run.h # h) =>
                  kid[h].state = "none" /\ \A e \in Held : e[1] # h
           /\ Live(h) => {proc[h].oread, proc[h].eread} \subseteq Fd
                         /\ proc[h].iwrite \in Fd \union {NoFd} /\ proc[h].pid \in Pid
    /\ content \in [Handle \X Stream -> 0 .. Capacity]
    /\ {again, strayed, ended} \subseteq BOOLEAN /\ lost \subseteq Fd

(***************************************************************************)
(* The numbers in a vprocess name the ends of its own pipes for as long as *)
(* it is not closed.  The kernel gives a number out again as soon as it is *)
(* closed: a number that is closed twice is by then an end of another      *)
(* process, whose input would end or whose output would be cut off.        *)
(***************************************************************************)
HandlesKeepTheirEnds ==
    \A h \in Handle : Live(h) /\ ~ended =>
        /\ fds[proc[h].oread] = <<h, "out", "r">>
        /\ fds[proc[h].eread] = <<h, "err", "r">>
        /\ proc[h].iwrite # NoFd => fds[proc[h].iwrite] = <<h, "in", "w">>

(***************************************************************************)
(* Between two calls, what is open belongs to a process that was not       *)
(* closed, except for the pipes of a process_run in which pipe failed.     *)
(***************************************************************************)
NothingElseIsOpen ==
    run = None /\ ~ended =>
        \A n \in Fd \ Free :
            n \in lost \/ \E h \in Handle :
                             Live(h) /\ n \in {proc[h].oread, proc[h].eread, proc[h].iwrite}

(***************************************************************************)
(* exit gives the status of the handle's own child and kill reaches no     *)
(* other, though process numbers are used again, as long as neither is     *)
(* called on a handle whose status was already given out.                  *)
(***************************************************************************)
OwnChildOnly == strayed => again

InputsClosed == \A h \in Handle : <<h, "in", "w">> \notin Held
Choked(h) == kid[h].output # None /\ content[<<h, kid[h].output>>] = Capacity

(***************************************************************************)
(* A call that blocks returns: write always, read and exit when the inputs *)
(* of all processes are closed (an open one is held by every process that  *)
(* was started later as well), unless a child waits for room in a pipe     *)
(* that the program, blocked in the call, does not read.                   *)
(***************************************************************************)
CallsReturn ==
    call # None /\ (call.op = "write" \/ InputsClosed)
        ~> call = None \/ \E h \in Handle : Choked(h)
=============================================================================
