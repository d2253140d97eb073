---------------------------- MODULE ProcessProofs ----------------------------
(***************************************************************************)
(* Proofs about ProcessRun, for every number of processes, descriptors,    *)
(* process ids and bytes in a pipe, and for all commands and arguments.    *)
(*                                                                         *)
(* On Unix, two arguments.  Every open number has one reason to be open: a *)
(* vprocess that was not closed, a process_run under way, or a pipe that   *)
(* failed (Accounted); and what it names tells whose it is, so that        *)
(* closing the ends of one process leaves those of all others              *)
(* (EndsSurvive).  And fork gives out no number of a child that can still  *)
(* be waited for, so as long as the child of a handle can be, it alone has *)
(* the number (OwnKids).                                                   *)
(*                                                                         *)
(* On Windows, two more.  The pieces of the buffer, put together from the  *)
(* oldest, are the text so far, and no piece has more characters than      *)
(* there is room for (Holds).  And a program that had read the text so far *)
(* would have read the arguments before the i-th and the first j - 1       *)
(* characters of the i-th, but for the backslashes that wait for what      *)
(* follows (ReadSoFar).                                                    *)
(***************************************************************************)
EXTENDS ProcessRun, TLAPS, SequenceTheorems, FiniteSetTheorems, WellFoundedInduction

\* The part of the types that the arguments need.
Types ==
    /\ fds \in [Fd -> End \union {None}]
    /\ proc \in [Handle -> Vprocess \union {None, Freed}]
    /\ kid \in [Handle -> Kids]
    /\ run # None =>
         /\ run \in Opening /\ proc[run.h] = None
         /\ run.forked => Len(run.pipes) = 3 /\ kid[run.h].pid \in Pid
    /\ lost \subseteq Fd

StreamAt == <<"in", "out", "err">>

\* The pipes of a process_run under way are where it put them.
PipesInPlace ==
    run # None => \A k \in 1 .. Len(run.pipes) :
        /\ fds[run.pipes[k][1]] = <<run.h, StreamAt[k], "r">>
        /\ fds[run.pipes[k][2]] = <<run.h, StreamAt[k], "w">>

Owned(n) == \E h \in Handle : Live(h) /\ n \in {proc[h].oread, proc[h].eread, proc[h].iwrite}
Piped(n) == run # None /\ \E k \in 1 .. Len(run.pipes) : n \in {run.pipes[k][1], run.pipes[k][2]}

\* What is open has one of three reasons.
Accounted == \A n \in Fd : fds[n] # None => n \in lost \/ Owned(n) \/ Piped(n)

Descriptors == HandlesKeepTheirEnds /\ (~ended => PipesInPlace /\ Accounted)
\* No two children that can be waited for have one number, and exit waits for
\* the child of its handle, if there still was one when it was called.
OwnKids ==
    /\ \A h \in Handle : kid[h].output # None => Alive(h)
    /\ \A g, h \in Handle : UsesPid(g, kid[h].pid) /\ UsesPid(h, kid[h].pid) => g = h
    /\ call # None => run = None /\ call.h \in Handle
    /\ InCall("exit") => again \/ UsesPid(call.h, proc[call.h].pid)
    /\ strayed => again

Inv == Types /\ Descriptors /\ OwnKids
-----------------------------------------------------------------------------
(* Types *)

\* A non-empty set of numbers has a least one.
LEMMA HasLeast ==
    ASSUME NEW T, T \subseteq Nat, T # {}
    PROVE  Min(T) \in T
<1> DEFINE R == OpToRel(<, Nat)
<1>1. IsWellFoundedOn(R, Nat)
  BY NatLessThanWellFounded
<1>2. \A x, y \in Nat : y < x => <<y, x>> \in R
  BY DEF OpToRel
<1> HIDE DEF R
<1>3. PICK x \in T : \A y \in T : ~(<<y, x>> \in R)
  BY <1>1, WFMin
<1>4. \A y \in T : x \in Nat /\ y \in Nat /\ ~(y < x)
  BY <1>2, <1>3, Zenon
<1>5. \A y \in T : x =< y
  BY <1>4
<1> QED BY <1>5 DEF Min

\* A pipe takes two numbers that were free.
LEMMA TwoFree ==
    ASSUME Cardinality(Free) >= 2
    PROVE  Min(Free) \in Free /\ Min(Free \ {Min(Free)}) \in Free \ {Min(Free)}
<1>1. Free \subseteq Nat
  BY ProcessAssumption DEF Free
<1>2. Free # {}
  <2> SUFFICES ASSUME Free = {} PROVE FALSE
    OBVIOUS
  <2> QED BY FS_EmptySet
<1>3. Min(Free) \in Free
  BY <1>1, <1>2, HasLeast
<1>4. Free \ {Min(Free)} # {}
  <2> SUFFICES ASSUME Free = {Min(Free)} PROVE FALSE
    BY <1>3
  <2>1. Cardinality({Min(Free)}) = 1
    BY FS_Singleton
  <2> QED BY <2>1
<1> QED BY <1>1, <1>3, <1>4, HasLeast

LEMMA TypesInit == ProcInit => Types
<1> SUFFICES ASSUME ProcInit PROVE Types
  OBVIOUS
<1>1. kid \in [Handle -> Kids]
  BY DEF ProcInit, Kids
<1> QED BY <1>1 DEF ProcInit, Types

\* What is left of a child that has ended.
LEMMA KidIsTyped ==
    ASSUME Types, NEW h \in Handle
    PROVE  /\ Dead(h) \in Kids /\ Dead(h).pid = kid[h].pid
           /\ Dead(h).state = "zombie" /\ Dead(h).output = None
<1> QED BY DEF Types, Dead, Kids

LEMMA TypesStep == Types /\ [ProcNext]_procvars => Types'
<1> SUFFICES ASSUME Types, [ProcNext]_procvars PROVE Types'
  OBVIOUS
<1>1. ASSUME NEW h \in Handle, Run(h) PROVE Types'
  <2>1. <<>> \in Seq(Fd \X Fd)
    BY EmptySeq
  <2> QED BY <1>1, <2>1 DEF Types, Run, hist, Opening
<1>2. CASE PipeOpens
  <2> DEFINE r == Min(Free)
             w == Min(Free \ {r})
             s == <<"in", "out", "err">>[Len(run.pipes) + 1]
  <2>1. r \in Fd /\ w \in Fd
    BY <1>2, TwoFree DEF PipeOpens, Free
  <2>2. run \in Opening /\ Len(run.pipes) < 3 /\ proc[run.h] = None /\ ~run.forked
    BY <1>2 DEF PipeOpens, Types
  <2>3. run.h \in Handle /\ run.pipes \in Seq(Fd \X Fd) /\ Len(run.pipes) \in Nat
    BY <2>2, LenProperties DEF Opening
  <2>4. s \in Stream
    BY <2>2, <2>3 DEF Stream
  <2>5. /\ fds' = [fds EXCEPT ![r] = <<run.h, s, "r">>, ![w] = <<run.h, s, "w">>]
        /\ run' = [run EXCEPT !.pipes = Append(@, <<r, w>>)]
        /\ UNCHANGED <<proc, kid, lost>>
    BY <1>2 DEF PipeOpens, hist
  <2> HIDE DEF r, w, s
  <2>6. fds' \in [Fd -> End \union {None}]
    BY <2>3, <2>4, <2>5 DEF Types, End
  <2>7. Append(run.pipes, <<r, w>>) \in Seq(Fd \X Fd)
    BY <2>1, <2>3, AppendProperties
  <2>8. run' \in Opening /\ run'.h = run.h /\ ~run'.forked
    BY <2>2, <2>5, <2>7 DEF Opening
  <2> QED BY <2>2, <2>5, <2>6, <2>8 DEF Types
<1>3. CASE PipeFails
  <2>1. run \in Opening
    BY <1>3 DEF PipeFails, Types
  <2>2. lost' \subseteq Fd
    <3>1. run.pipes \in Seq(Fd \X Fd)
      BY <2>1 DEF Opening
    <3>2. \A k \in DOMAIN run.pipes : run.pipes[k] \in Fd \X Fd
      BY <3>1
    <3>3. \A q \in Fd \X Fd : Range(q) \subseteq Fd
      BY DEF Range
    <3> QED BY <1>3, <3>2, <3>3 DEF PipeFails, Types
  <2> QED BY <1>3, <2>1, <2>2 DEF PipeFails, Types, Raise, Opening
<1>4. ASSUME NEW pid \in Pid, Fork(pid) PROVE Types'
  <2>1. run \in Opening /\ Len(run.pipes) = 3 /\ proc[run.h] = None /\ run.h \in Handle
    BY <1>4 DEF Fork, Opened, Types, Opening
  <2> DEFINE new == [state |-> "forked", pid |-> pid, held |-> Held, output |-> None]
  <2>2. new \in Kids
    BY DEF Kids, Held, Range, Types
  <2>3. kid' = [kid EXCEPT ![run.h] = new] /\ run' = [run EXCEPT !.forked = TRUE]
    BY <1>4 DEF Fork
  <2>4. kid' \in [Handle -> Kids] /\ kid'[run.h].pid = pid
    <3>1. new.pid = pid
      OBVIOUS
    <3> HIDE DEF new
    <3> QED BY <2>1, <2>2, <2>3, <3>1 DEF Types
  <2>5. run' \in Opening /\ run'.h = run.h /\ run'.pipes = run.pipes
    BY <2>1, <2>3 DEF Opening
  <2> QED BY <1>4, <2>1, <2>4, <2>5 DEF Fork, hist, Types
<1>5. CASE ForkFails \/ Started
  <2>1. run # None /\ run \in Opening /\ run.h \in Handle
    BY <1>5 DEF ForkFails, Started, Opened, Types, Opening
  <2>2. fds' \in [Fd -> End \union {None}]
    BY <1>5 DEF ForkFails, Started, do_close, Types
  <2>3. CASE ForkFails
    BY <2>1, <2>2, <2>3 DEF ForkFails, Raise, Types, hist
  <2>4. CASE Started
    <3>1. run.pipes \in Seq(Fd \X Fd) /\ Len(run.pipes) = 3 /\ kid[run.h].pid \in Pid
      BY <2>1, <2>4 DEF Started, Types, Opening
    <3>2. run.pipes[1] \in Fd \X Fd /\ run.pipes[2] \in Fd \X Fd /\ run.pipes[3] \in Fd \X Fd
      BY <3>1
    <3>3. [iwrite |-> run.pipes[1][2], oread |-> run.pipes[2][1],
           eread |-> run.pipes[3][1], pid |-> kid[run.h].pid] \in Vprocess
      BY <3>1, <3>2 DEF Vprocess
    <3> QED BY <2>1, <2>2, <2>4, <3>3 DEF Started, Types, hist
  <2> QED BY <1>5, <2>3, <2>4
<1>6. CASE CallStep
  <2>1. kid' \in [Handle -> Kids] /\ \A h \in Handle : kid'[h].pid = kid[h].pid
    <3>1. CASE ExitReturns
      <4>1. PICK g \in Handle : kid' = [kid EXCEPT ![g].state = "gone"]
        BY <3>1 DEF ExitReturns
      <4> QED BY <4>1 DEF Types, Kids
    <3>2. CASE UNCHANGED kid
      BY <3>2 DEF Types
    <3> QED BY <1>6, <3>1, <3>2 DEF CallStep, ReadReturns, ReadRaises, WritePart, WriteReturns, WriteBytes, WriteEnds, ExitRaises
  <2>2. fds' \in [Fd -> End \union {None}] /\ UNCHANGED <<run, proc, lost>>
    BY <1>6 DEF CallStep, ReadReturns, ReadRaises, WritePart, WriteReturns, WriteBytes,
                WriteEnds, ExitReturns, ExitRaises, hist, do_close, Types
  <2> QED BY <2>1, <2>2 DEF Types, Opening
<1>7. ASSUME NEW h \in Handle, Program(h), ~Run(h) PROVE Types'
  <2>1. UNCHANGED <<run, lost>> /\ run = None
    BY <1>7 DEF Program, process_read, process_stdin_write, process_exit, process_kill,
                process_stdin_close, process_close, Blocking, hist, Usable, Ready
  <2>2. kid' \in [Handle -> Kids]
    <3>1. CASE process_kill(h)
      BY <3>1, KidIsTyped DEF process_kill, Types
    <3> QED BY <1>7, <3>1 DEF Program, process_read, process_stdin_write, process_exit,
                process_stdin_close, process_close, Blocking, Types
  <2>3. fds' \in [Fd -> End \union {None}]
    BY <1>7 DEF Program, process_read, process_stdin_write, process_exit, process_kill,
                process_stdin_close, process_close, Blocking, do_close, Types
  <2>4. proc' \in [Handle -> Vprocess \union {None, Freed}]
    <3>1. CASE process_stdin_close(h)
      <4>1. proc[h] \in Vprocess
        BY <3>1 DEF process_stdin_close, Usable, Types
      <4>2. proc' = [proc EXCEPT ![h].iwrite = NoFd]
        BY <3>1 DEF process_stdin_close
      <4> QED BY <4>1, <4>2 DEF Types, Vprocess
    <3>2. CASE process_close(h)
      BY <3>2 DEF process_close, Types
    <3> QED BY <1>7, <3>1, <3>2 DEF Program, process_read, process_stdin_write, process_exit,
                process_kill, Blocking, Types
  <2> QED BY <2>1, <2>2, <2>3, <2>4 DEF Types
<1>8. ASSUME NEW h \in Handle, KidStep(h) \/ KidExits(h) PROVE Types'
  <2>1. kid' \in [Handle -> Kids] /\ \A g \in Handle : kid'[g].pid = kid[g].pid
    <3>1. CASE KidExecs(h)
      <4> DEFINE held == kid[h].held \ {<<h, "in", "w">>, <<h, "out", "r">>, <<h, "err", "r">>}
                 k == [kid[h] EXCEPT !.state = "running", !.held = held]
      <4>1. kid' = [kid EXCEPT ![h] = k]
        BY <3>1 DEF KidExecs, Types, Kids
      <4>2. kid[h] \in Kids /\ held \subseteq kid[h].held
        BY DEF Types
      <4> HIDE DEF held
      <4>3. k \in Kids /\ k.pid = kid[h].pid
        BY <4>2 DEF Kids
      <4> HIDE DEF k
      <4> QED BY <4>1, <4>3 DEF Types
    <3>2. CASE KidNotFound(h) \/ KidWrites(h) \/ KidSeesEof(h) \/ KidExits(h)
      <4>1. CASE kid' = [kid EXCEPT ![h] = Dead(h)]
        BY <4>1, KidIsTyped DEF Types
      <4>2. CASE kid' = [kid EXCEPT ![h].output = None]
        BY <4>2 DEF Types, Kids
      <4> QED BY <3>2, <4>1, <4>2 DEF KidNotFound, KidWrites, KidSeesEof, KidExits
    <3>3. CASE KidReads(h)
      BY <3>3 DEF KidReads, Types, Kids
    <3> QED BY <1>8, <3>1, <3>2, <3>3 DEF KidStep
  <2>2. UNCHANGED <<fds, run, proc, lost>>
    BY <1>8 DEF KidStep, KidExecs, KidNotFound, KidReads, KidWrites, KidSeesEof, KidExits, hist
  <2> QED BY <2>1, <2>2 DEF Types, Opening
<1>9. CASE UNCHANGED procvars
  BY <1>9 DEF procvars, hist, Types
<1> QED BY <1>1, <1>2, <1>3, <1>4, <1>5, <1>6, <1>7, <1>8, <1>9 DEF ProcNext, RunStep
-----------------------------------------------------------------------------
(* Descriptors *)

LEMMA RunFields ==
    ASSUME Types, run # None
    PROVE  /\ run.h \in Handle /\ proc[run.h] = None /\ ~Live(run.h)
           /\ run.pipes \in Seq(Fd \X Fd) /\ Len(run.pipes) \in Nat
           /\ \A k \in 1 .. Len(run.pipes) : run.pipes[k] \in Fd \X Fd
           /\ \A k \in 1 .. Len(run.pipes) : Range(run.pipes[k]) = {run.pipes[k][1], run.pipes[k][2]}
<1>1. run.h \in Handle /\ proc[run.h] = None /\ ~Live(run.h)
  BY DEF Types, Opening, Live
<1>2. run.pipes \in Seq(Fd \X Fd)
  BY DEF Types, Opening
<1>3. Len(run.pipes) \in Nat /\ \A k \in 1 .. Len(run.pipes) : run.pipes[k] \in Fd \X Fd
  BY <1>2, LenProperties
<1>4. \A q \in Fd \X Fd : Range(q) = {q[1], q[2]}
  <2> SUFFICES ASSUME NEW q \in Fd \X Fd PROVE Range(q) = {q[1], q[2]}
    OBVIOUS
  <2>1. DOMAIN q = {1, 2}
    OBVIOUS
  <2> QED BY <2>1 DEF Range
<1> QED BY <1>1, <1>2, <1>3, <1>4

LEMMA LiveFields ==
    ASSUME Types, NEW h \in Handle, Live(h)
    PROVE  /\ proc[h].oread \in Fd /\ proc[h].eread \in Fd
           /\ proc[h].iwrite \in Fd \union {NoFd} /\ proc[h].pid \in Pid
<1> QED BY DEF Types, Live, Vprocess

LEMMA DescriptorsRun ==
    ASSUME Types, Descriptors, NEW g \in Handle, Run(g)
    PROVE  Descriptors'
<1>1. run = None /\ run'.pipes = <<>> /\ UNCHANGED <<fds, proc, lost, ended>>
  BY DEF Run, Ready, hist
<1>2. PipesInPlace'
  BY <1>1 DEF PipesInPlace
<1>3. Accounted => Accounted'
  BY <1>1 DEF Accounted, Owned, Piped, Live
<1> QED BY <1>1, <1>2, <1>3 DEF Descriptors, HandlesKeepTheirEnds, Live

LEMMA DescriptorsPipeOpens ==
    ASSUME Types, Descriptors, PipeOpens
    PROVE  Descriptors'
<1> DEFINE r == Min(Free)
           w == Min(Free \ {r})
           k1 == Len(run.pipes) + 1
<1>1. r \in Fd /\ w \in Fd /\ r # w /\ fds[r] = None /\ fds[w] = None
  BY TwoFree DEF PipeOpens, Free
<1>2. run # None /\ Len(run.pipes) < 3
  BY DEF PipeOpens
<1>3. /\ fds' = [fds EXCEPT ![r] = <<run.h, StreamAt[k1], "r">>, ![w] = <<run.h, StreamAt[k1], "w">>]
      /\ run' = [run EXCEPT !.pipes = Append(@, <<r, w>>)]
      /\ UNCHANGED <<proc, lost, ended>>
  BY DEF PipeOpens, hist, StreamAt
<1> HIDE DEF r, w
<1>4. /\ fds'[r] = <<run.h, StreamAt[k1], "r">> /\ fds'[w] = <<run.h, StreamAt[k1], "w">>
      /\ \A n \in Fd : n # r /\ n # w => fds'[n] = fds[n]
      /\ \A n \in Fd : fds[n] # None => fds'[n] = fds[n]
  BY <1>1, <1>3 DEF Types
<1>5. run'.pipes = Append(run.pipes, <<r, w>>) /\ run'.h = run.h /\ run' # None
  <2>1. run \in Opening
    BY <1>2 DEF Types
  <2>2. Append(run.pipes, <<r, w>>) \in Seq(Fd \X Fd)
    BY <1>1, <2>1 DEF Opening
  <2>3. run' \in Opening
    BY <1>3, <2>1, <2>2 DEF Opening
  <2> QED BY <1>3, <2>1, <2>3, ProcessAssumption DEF Opening
<1>6. /\ Len(run'.pipes) = k1 /\ run'.pipes[k1] = <<r, w>>
      /\ \A k \in 1 .. Len(run.pipes) : run'.pipes[k] = run.pipes[k]
  BY <1>1, <1>2, <1>5, RunFields, AppendProperties
<1>7. HandlesKeepTheirEnds'
  <2> SUFFICES ASSUME NEW h \in Handle, Live(h), ~ended
      PROVE  /\ fds'[proc[h].oread] = <<h, "out", "r">>
             /\ fds'[proc[h].eread] = <<h, "err", "r">>
             /\ proc[h].iwrite # NoFd => fds'[proc[h].iwrite] = <<h, "in", "w">>
    BY <1>3 DEF HandlesKeepTheirEnds, Live
  <2>1. /\ fds[proc[h].oread] = <<h, "out", "r">>
        /\ fds[proc[h].eread] = <<h, "err", "r">>
        /\ proc[h].iwrite # NoFd => fds[proc[h].iwrite] = <<h, "in", "w">>
    BY DEF Descriptors, HandlesKeepTheirEnds
  <2>2. <<h, "out", "r">> # None /\ <<h, "err", "r">> # None /\ <<h, "in", "w">> # None
    BY ProcessAssumption DEF End, Stream
  <2> QED BY <1>4, <2>1, <2>2, LiveFields
<1>8. ASSUME ~ended PROVE PipesInPlace'
  <2> SUFFICES ASSUME NEW k \in 1 .. k1
      PROVE  /\ fds'[run'.pipes[k][1]] = <<run.h, StreamAt[k], "r">>
             /\ fds'[run'.pipes[k][2]] = <<run.h, StreamAt[k], "w">>
    BY <1>5, <1>6 DEF PipesInPlace
  <2>1. CASE k = k1
    BY <1>4, <1>6, <2>1
  <2>2. CASE k # k1
    <3>1. k \in 1 .. Len(run.pipes) /\ StreamAt[k] \in Stream
      BY <1>2, <2>2, RunFields DEF StreamAt, Stream
    <3>2. /\ fds[run.pipes[k][1]] = <<run.h, StreamAt[k], "r">>
          /\ fds[run.pipes[k][2]] = <<run.h, StreamAt[k], "w">>
      BY <1>2, <1>8, <3>1 DEF Descriptors, PipesInPlace
    <3>3. <<run.h, StreamAt[k], "r">> # None /\ <<run.h, StreamAt[k], "w">> # None
      BY <1>2, <3>1, RunFields, ProcessAssumption DEF End
    <3>4. run.pipes[k] \in Fd \X Fd /\ run'.pipes[k] = run.pipes[k]
      BY <1>2, <1>6, <3>1, RunFields
    <3> QED BY <1>4, <3>2, <3>3, <3>4
  <2> QED BY <2>1, <2>2
<1>9. ASSUME ~ended PROVE Accounted'
  <2> SUFFICES ASSUME NEW n \in Fd, fds'[n] # None PROVE n \in lost \/ Owned(n)' \/ Piped(n)'
    BY <1>3 DEF Accounted
  <2>1. CASE n = r \/ n = w
    <3>1. k1 \in 1 .. Len(run'.pipes)
      BY <1>2, <1>6, RunFields
    <3>2. n \in {run'.pipes[k1][1], run'.pipes[k1][2]}
      BY <1>6, <2>1
    <3> QED BY <1>5, <3>1, <3>2 DEF Piped
  <2>2. CASE n # r /\ n # w
    <3>1. n \in lost \/ Owned(n) \/ Piped(n)
      BY <1>4, <1>9, <2>2 DEF Descriptors, Accounted
    <3>2. Owned(n) => Owned(n)'
      BY <1>3 DEF Owned, Live
    <3>3. Piped(n) => Piped(n)'
      <4> SUFFICES ASSUME NEW k \in 1 .. Len(run.pipes), n \in {run.pipes[k][1], run.pipes[k][2]}
          PROVE  Piped(n)'
        BY DEF Piped
      <4>1. k \in 1 .. Len(run'.pipes)
        BY <1>2, <1>6, RunFields
      <4> QED BY <1>5, <1>6, <4>1 DEF Piped
    <3> QED BY <3>1, <3>2, <3>3
  <2> QED BY <2>1, <2>2
<1> QED BY <1>3, <1>7, <1>8, <1>9 DEF Descriptors

LEMMA DescriptorsPipeFails ==
    ASSUME Types, Descriptors, PipeFails
    PROVE  Descriptors'
<1>1. /\ run # None /\ run' = None /\ proc' = [proc EXCEPT ![run.h] = Freed]
      /\ UNCHANGED <<fds, ended>>
      /\ lost' = lost \union UNION {Range(run.pipes[k]) : k \in DOMAIN run.pipes}
  BY DEF PipeFails, Raise
<1>2. \A h \in Handle : Live(h)' <=> Live(h)
  BY <1>1, RunFields DEF Types, Live
<1>3. \A h \in Handle : Live(h) => proc'[h] = proc[h]
  BY <1>1, RunFields DEF Types
<1>4. HandlesKeepTheirEnds'
  BY <1>1, <1>2, <1>3 DEF Descriptors, HandlesKeepTheirEnds
<1>5. ASSUME ~ended PROVE Accounted'
  <2> SUFFICES ASSUME NEW n \in Fd, fds[n] # None PROVE n \in lost' \/ Owned(n)'
    BY <1>1 DEF Accounted
  <2>1. n \in lost \/ Owned(n) \/ Piped(n)
    BY <1>5 DEF Descriptors, Accounted
  <2>2. Owned(n) => Owned(n)'
    BY <1>2, <1>3 DEF Owned
  <2>3. ASSUME Piped(n) PROVE n \in lost'
    <3>1. PICK k \in 1 .. Len(run.pipes) : n \in Range(run.pipes[k])
      BY <1>1, <2>3, RunFields DEF Piped
    <3>2. k \in DOMAIN run.pipes
      BY <1>1, RunFields
    <3> QED BY <1>1, <3>1, <3>2
  <2> QED BY <1>1, <2>1, <2>2, <2>3
<1> QED BY <1>1, <1>4, <1>5 DEF Descriptors, PipesInPlace

\* Between fork and the return of process_run.
LEMMA ThreePipes ==
    ASSUME Types, Descriptors, ~ended, run # None, Len(run.pipes) = 3
    PROVE  /\ run.pipes[1] \in Fd \X Fd /\ run.pipes[2] \in Fd \X Fd /\ run.pipes[3] \in Fd \X Fd
           /\ fds[run.pipes[1][1]] = <<run.h, "in", "r">> /\ fds[run.pipes[1][2]] = <<run.h, "in", "w">>
           /\ fds[run.pipes[2][1]] = <<run.h, "out", "r">> /\ fds[run.pipes[2][2]] = <<run.h, "out", "w">>
           /\ fds[run.pipes[3][1]] = <<run.h, "err", "r">> /\ fds[run.pipes[3][2]] = <<run.h, "err", "w">>
           /\ \A n : Piped(n) <=> n \in {run.pipes[1][1], run.pipes[1][2], run.pipes[2][1],
                                         run.pipes[2][2], run.pipes[3][1], run.pipes[3][2]}
<1>1. \A k \in 1 .. 3 : /\ fds[run.pipes[k][1]] = <<run.h, StreamAt[k], "r">>
                        /\ fds[run.pipes[k][2]] = <<run.h, StreamAt[k], "w">>
  BY DEF Descriptors, PipesInPlace
<1>2. \A k \in 1 .. 3 : run.pipes[k] \in Fd \X Fd
  BY RunFields
<1>3. \A k : k \in 1 .. 3 <=> k = 1 \/ k = 2 \/ k = 3
  OBVIOUS
<1>4. StreamAt[1] = "in" /\ StreamAt[2] = "out" /\ StreamAt[3] = "err"
  BY DEF StreamAt
<1> QED BY <1>1, <1>2, <1>3, <1>4 DEF Piped

\* Closing ends of other processes does not disturb a handle.
LEMMA EndsSurvive ==
    ASSUME Types, HandlesKeepTheirEnds, ~ended, NEW h \in Handle, Live(h),
           NEW closed, do_close(closed), \A n \in closed \intersect Fd : fds[n][1] # h
    PROVE  /\ fds'[proc[h].oread] = <<h, "out", "r">>
           /\ fds'[proc[h].eread] = <<h, "err", "r">>
           /\ proc[h].iwrite # NoFd => fds'[proc[h].iwrite] = <<h, "in", "w">>
<1>1. /\ fds[proc[h].oread] = <<h, "out", "r">>
      /\ fds[proc[h].eread] = <<h, "err", "r">>
      /\ proc[h].iwrite # NoFd => fds[proc[h].iwrite] = <<h, "in", "w">>
  BY DEF HandlesKeepTheirEnds
<1>2. \A s, d : <<h, s, d>>[1] = h
  OBVIOUS
<1>3. /\ proc[h].oread \notin closed /\ proc[h].eread \notin closed
      /\ proc[h].iwrite # NoFd => proc[h].iwrite \notin closed
  BY <1>1, <1>2, LiveFields
<1>4. \A n \in Fd : n \notin closed => fds'[n] = fds[n]
  BY DEF do_close
<1> QED BY <1>1, <1>3, <1>4, LiveFields

LEMMA DescriptorsForkFails ==
    ASSUME Types, Descriptors, ForkFails
    PROVE  Descriptors'
<1> DEFINE closed == UNION {Range(run.pipes[k]) : k \in 1 .. 3}
<1>1. /\ run # None /\ Len(run.pipes) = 3 /\ run' = None /\ proc' = [proc EXCEPT ![run.h] = Freed]
      /\ fds' = [n \in Fd |-> IF n \in closed THEN None ELSE fds[n]]
      /\ UNCHANGED <<lost, ended>>
  BY DEF ForkFails, Opened, Raise, do_close, hist
<1>2. \A h \in Handle : Live(h)' <=> Live(h)
  BY <1>1, RunFields DEF Types, Live
<1>3. \A h \in Handle : Live(h) => proc'[h] = proc[h] /\ h # run.h
  BY <1>1, RunFields DEF Types
<1> SUFFICES ASSUME ~ended PROVE Descriptors'
  BY <1>1 DEF Descriptors, HandlesKeepTheirEnds
<1>4. closed = {run.pipes[1][1], run.pipes[1][2], run.pipes[2][1],
                run.pipes[2][2], run.pipes[3][1], run.pipes[3][2]}
  <2>1. \A k : k \in 1 .. 3 <=> k = 1 \/ k = 2 \/ k = 3
    OBVIOUS
  <2>2. \A k \in 1 .. 3 : Range(run.pipes[k]) = {run.pipes[k][1], run.pipes[k][2]}
    BY <1>1, RunFields
  <2> QED BY <2>1, <2>2
<1> HIDE DEF closed
<1>a. PICK g \in Handle : g = run.h
  BY <1>1, RunFields
<1>5. \A n \in closed : fds[n][1] = g
  <2>1. /\ fds[run.pipes[1][1]] = <<g, "in", "r">> /\ fds[run.pipes[1][2]] = <<g, "in", "w">>
        /\ fds[run.pipes[2][1]] = <<g, "out", "r">> /\ fds[run.pipes[2][2]] = <<g, "out", "w">>
        /\ fds[run.pipes[3][1]] = <<g, "err", "r">> /\ fds[run.pipes[3][2]] = <<g, "err", "w">>
    BY <1>a, <1>1, ThreePipes
  <2>2. /\ fds[run.pipes[1][1]][1] = g /\ fds[run.pipes[1][2]][1] = g
        /\ fds[run.pipes[2][1]][1] = g /\ fds[run.pipes[2][2]][1] = g
        /\ fds[run.pipes[3][1]][1] = g /\ fds[run.pipes[3][2]][1] = g
    <3>1. \A q : (\E s, d : q = <<g, s, d>>) => q[1] = g
      OBVIOUS
    <3> QED BY <2>1, <3>1, Zenon
  <2> QED BY <1>4, <2>2, Zenon
<1>6. HandlesKeepTheirEnds'
  <2> SUFFICES ASSUME NEW h \in Handle, Live(h)
      PROVE  /\ fds'[proc[h].oread] = <<h, "out", "r">>
             /\ fds'[proc[h].eread] = <<h, "err", "r">>
             /\ proc[h].iwrite # NoFd => fds'[proc[h].iwrite] = <<h, "in", "w">>
    BY <1>1, <1>2, <1>3 DEF HandlesKeepTheirEnds
  <2>1. do_close(closed) /\ HandlesKeepTheirEnds
    BY <1>1 DEF do_close, Descriptors
  <2> QED BY <1>3, <1>a, <1>5, <2>1, EndsSurvive
<1>7. Accounted'
  <2> SUFFICES ASSUME NEW n \in Fd, fds'[n] # None PROVE n \in lost \/ Owned(n)'
    BY <1>1 DEF Accounted
  <2>1. n \notin closed /\ fds[n] # None
    BY <1>1
  <2>2. ~Piped(n)
    BY <1>1, <1>4, <2>1, ThreePipes
  <2>3. n \in lost \/ Owned(n)
    BY <2>1, <2>2 DEF Descriptors, Accounted
  <2> QED BY <1>2, <1>3, <2>3 DEF Owned
<1> QED BY <1>1, <1>6, <1>7 DEF Descriptors, PipesInPlace

LEMMA DescriptorsStarted ==
    ASSUME Types, Descriptors, Started
    PROVE  Descriptors'
<1> DEFINE closed == {run.pipes[1][1], run.pipes[2][2], run.pipes[3][2]}
           new == [iwrite |-> run.pipes[1][2], oread |-> run.pipes[2][1],
                   eread |-> run.pipes[3][1], pid |-> kid[run.h].pid]
<1>1. /\ run # None /\ Len(run.pipes) = 3 /\ run' = None /\ proc' = [proc EXCEPT ![run.h] = new]
      /\ do_close(closed) /\ kid[run.h].pid \in Pid
      /\ UNCHANGED <<lost, ended>>
  BY DEF Started, Types, hist
<1>a. PICK g \in Handle : g = run.h
  BY <1>1, RunFields
<1>2. new \in Vprocess /\ Live(g)' /\ proc'[g] = new
  <2>1. run.pipes[1] \in Fd \X Fd /\ run.pipes[2] \in Fd \X Fd /\ run.pipes[3] \in Fd \X Fd
    BY <1>a, <1>1, RunFields
  <2>2. new \in Vprocess
    BY <1>1, <2>1 DEF Vprocess
  <2> HIDE DEF new
  <2>3. proc'[g] = new
    BY <1>a, <1>1, RunFields DEF Types
  <2> QED BY <2>2, <2>3, ProcessAssumption DEF Live
<1>3. \A h \in Handle : h # g => proc'[h] = proc[h] /\ (Live(h)' <=> Live(h))
  BY <1>a, <1>1, RunFields DEF Types, Live
<1> SUFFICES ASSUME ~ended PROVE Descriptors'
  BY <1>1 DEF Descriptors, HandlesKeepTheirEnds
<1>b. /\ run.pipes[1] \in Fd \X Fd /\ run.pipes[2] \in Fd \X Fd /\ run.pipes[3] \in Fd \X Fd
      /\ fds[run.pipes[1][1]] = <<g, "in", "r">> /\ fds[run.pipes[1][2]] = <<g, "in", "w">>
      /\ fds[run.pipes[2][1]] = <<g, "out", "r">> /\ fds[run.pipes[2][2]] = <<g, "out", "w">>
      /\ fds[run.pipes[3][1]] = <<g, "err", "r">> /\ fds[run.pipes[3][2]] = <<g, "err", "w">>
  BY <1>a, <1>1, ThreePipes
<1>4. \A n \in closed : n \in Fd /\ fds[n][1] = g
  <2>1. /\ run.pipes[1][1] \in Fd /\ run.pipes[2][2] \in Fd /\ run.pipes[3][2] \in Fd
        /\ fds[run.pipes[1][1]][1] = g /\ fds[run.pipes[2][2]][1] = g
        /\ fds[run.pipes[3][2]][1] = g
    BY <1>b
  <2> QED BY <2>1, Zenon
<1>5. \A n \in Fd : n \notin closed => fds'[n] = fds[n]
  BY <1>1 DEF do_close
<1>6. /\ new.iwrite \in Fd \ closed /\ new.oread \in Fd \ closed /\ new.eread \in Fd \ closed
      /\ fds[new.iwrite] = <<g, "in", "w">> /\ fds[new.oread] = <<g, "out", "r">>
      /\ fds[new.eread] = <<g, "err", "r">>
  <2>1. new.iwrite = run.pipes[1][2] /\ new.oread = run.pipes[2][1] /\ new.eread = run.pipes[3][1]
    OBVIOUS
  <2> HIDE DEF new
  <2>2. new.iwrite \in Fd /\ new.oread \in Fd /\ new.eread \in Fd
    BY <1>b, <2>1
  <2>3. /\ fds[new.iwrite] = <<g, "in", "w">> /\ fds[new.oread] = <<g, "out", "r">>
        /\ fds[new.eread] = <<g, "err", "r">>
    BY <1>b, <2>1
  <2>4. \A n \in closed : fds[n] \in {<<g, "in", "r">>, <<g, "out", "w">>, <<g, "err", "w">>}
    BY <1>b, Zenon
  <2> HIDE DEF closed
  <2>5. new.iwrite \notin closed /\ new.oread \notin closed /\ new.eread \notin closed
    BY <2>3, <2>4
  <2> QED BY <2>2, <2>3, <2>5
<1>7. \A n \in Fd : Piped(n) => n \in closed \/ n \in {new.iwrite, new.oread, new.eread}
  BY <1>a, <1>1, ThreePipes
<1> HIDE DEF closed, new
<1>8. HandlesKeepTheirEnds'
  <2> SUFFICES ASSUME NEW h \in Handle, Live(h)'
      PROVE  /\ fds'[proc'[h].oread] = <<h, "out", "r">>
             /\ fds'[proc'[h].eread] = <<h, "err", "r">>
             /\ proc'[h].iwrite # NoFd => fds'[proc'[h].iwrite] = <<h, "in", "w">>
    BY DEF HandlesKeepTheirEnds
  <2>1. CASE h = g
    BY <1>2, <1>5, <1>6, <2>1
  <2>2. CASE h # g
    <3>1. HandlesKeepTheirEnds
      BY DEF Descriptors
    <3> QED BY <1>1, <1>3, <1>4, <2>2, <3>1, EndsSurvive
  <2> QED BY <2>1, <2>2
<1>9. Accounted'
  <2> SUFFICES ASSUME NEW n \in Fd, fds'[n] # None PROVE n \in lost \/ Owned(n)'
    BY <1>1 DEF Accounted
  <2>1. n \notin closed /\ fds[n] # None
    BY <1>1, <1>5 DEF do_close
  <2>2. n \in lost \/ Owned(n) \/ Piped(n)
    BY <2>1 DEF Descriptors, Accounted
  <2>3. Owned(n) => Owned(n)'
    <3>1. ~Live(g)
      BY <1>a, <1>1, RunFields
    <3> QED BY <1>3, <3>1 DEF Owned
  <2>4. Piped(n) => Owned(n)'
    <3> QED BY <1>2, <1>7, <2>1 DEF Owned
  <2> QED BY <2>2, <2>3, <2>4
<1> QED BY <1>1, <1>8, <1>9 DEF Descriptors, PipesInPlace

LEMMA DescriptorsCloseStdin ==
    ASSUME Types, Descriptors, NEW g \in Handle, process_stdin_close(g)
    PROVE  Descriptors'
<1> DEFINE closed == {proc[g].iwrite}
<1>1. /\ Live(g) /\ proc[g].iwrite # NoFd /\ run = None
      /\ do_close(closed) /\ proc' = [proc EXCEPT ![g].iwrite = NoFd]
      /\ UNCHANGED <<run, lost, ended>>
  BY DEF process_stdin_close, Usable, Ready, Live, hist
<1>2. /\ proc'[g] \in Vprocess /\ proc'[g].iwrite = NoFd
      /\ proc'[g].oread = proc[g].oread /\ proc'[g].eread = proc[g].eread
  <2>1. proc[g] \in Vprocess
    BY <1>1 DEF Types, Live
  <2>2. proc'[g] = [proc[g] EXCEPT !.iwrite = NoFd]
    BY <1>1 DEF Types
  <2> QED BY <2>1, <2>2 DEF Vprocess
<1>3. Live(g)'
  BY <1>2, ProcessAssumption DEF Live
<1>4. \A h \in Handle : h # g => proc'[h] = proc[h] /\ (Live(h)' <=> Live(h))
  BY <1>1 DEF Types, Live
<1> SUFFICES ASSUME ~ended PROVE Descriptors'
  BY <1>1 DEF Descriptors, HandlesKeepTheirEnds
<1>5. /\ fds[proc[g].oread] = <<g, "out", "r">> /\ fds[proc[g].eread] = <<g, "err", "r">>
      /\ fds[proc[g].iwrite] = <<g, "in", "w">>
  BY <1>1 DEF Descriptors, HandlesKeepTheirEnds
<1>6. \A n \in closed : fds[n][1] = g
  BY <1>5
<1>7. \A n \in Fd : n \notin closed => fds'[n] = fds[n]
  BY <1>1 DEF do_close
<1>8. HandlesKeepTheirEnds'
  <2> SUFFICES ASSUME NEW h \in Handle, Live(h)'
      PROVE  /\ fds'[proc'[h].oread] = <<h, "out", "r">>
             /\ fds'[proc'[h].eread] = <<h, "err", "r">>
             /\ proc'[h].iwrite # NoFd => fds'[proc'[h].iwrite] = <<h, "in", "w">>
    BY DEF HandlesKeepTheirEnds
  <2>1. CASE h = g
    <3>1. proc[g].oread \in Fd \ closed /\ proc[g].eread \in Fd \ closed
      BY <1>1, <1>5, LiveFields
    <3> QED BY <1>2, <1>5, <1>7, <2>1, <3>1
  <2>2. CASE h # g
    <3>1. HandlesKeepTheirEnds
      BY DEF Descriptors
    <3> HIDE DEF closed
    <3> QED BY <1>1, <1>4, <1>6, <2>2, <3>1, EndsSurvive
  <2> QED BY <2>1, <2>2
<1>9. Accounted'
  <2> SUFFICES ASSUME NEW n \in Fd, fds'[n] # None PROVE n \in lost \/ Owned(n)'
    BY <1>1 DEF Accounted
  <2>1. n \notin closed /\ fds[n] # None
    BY <1>1, <1>7 DEF do_close
  <2>2. n \in lost \/ Owned(n)
    BY <1>1, <2>1 DEF Descriptors, Accounted, Piped
  <2>3. Owned(n) => Owned(n)'
    BY <1>2, <1>3, <1>4, <2>1 DEF Owned
  <2> QED BY <2>2, <2>3
<1> QED BY <1>1, <1>8, <1>9 DEF Descriptors, PipesInPlace

LEMMA DescriptorsClose ==
    ASSUME Types, Descriptors, NEW g \in Handle, process_close(g)
    PROVE  Descriptors'
<1> DEFINE closed == {proc[g].eread, proc[g].oread, proc[g].iwrite}
<1>1. /\ Live(g) /\ run = None
      /\ do_close(closed) /\ proc' = [proc EXCEPT ![g] = Freed]
      /\ UNCHANGED <<run, lost, ended>>
  BY DEF process_close, Usable, Ready, Live, hist
<1>2. \A h \in Handle : Live(h)' => h # g /\ proc'[h] = proc[h] /\ Live(h)
  BY <1>1 DEF Types, Live
<1>3. \A h \in Handle : Live(h) /\ h # g => Live(h)' /\ proc'[h] = proc[h]
  BY <1>1 DEF Types, Live
<1> SUFFICES ASSUME ~ended PROVE Descriptors'
  BY <1>1 DEF Descriptors, HandlesKeepTheirEnds
<1>4. \A n \in closed \intersect Fd : fds[n][1] = g
  <2>1. /\ fds[proc[g].oread] = <<g, "out", "r">> /\ fds[proc[g].eread] = <<g, "err", "r">>
        /\ proc[g].iwrite # NoFd => fds[proc[g].iwrite] = <<g, "in", "w">>
    BY <1>1 DEF Descriptors, HandlesKeepTheirEnds
  <2>2. NoFd \notin Fd
    BY ProcessAssumption DEF NoFd
  <2> QED BY <2>1, <2>2
<1>5. \A n \in Fd : n \notin closed => fds'[n] = fds[n]
  BY <1>1 DEF do_close
<1>6. HandlesKeepTheirEnds'
  <2> SUFFICES ASSUME NEW h \in Handle, Live(h)'
      PROVE  /\ fds'[proc'[h].oread] = <<h, "out", "r">>
             /\ fds'[proc'[h].eread] = <<h, "err", "r">>
             /\ proc'[h].iwrite # NoFd => fds'[proc'[h].iwrite] = <<h, "in", "w">>
    BY DEF HandlesKeepTheirEnds
  <2>1. HandlesKeepTheirEnds
    BY DEF Descriptors
  <2> HIDE DEF closed
  <2> QED BY <1>1, <1>2, <1>4, <2>1, EndsSurvive
<1>7. Accounted'
  <2> SUFFICES ASSUME NEW n \in Fd, fds'[n] # None PROVE n \in lost \/ Owned(n)'
    BY <1>1 DEF Accounted
  <2>1. n \notin closed /\ fds[n] # None
    BY <1>1, <1>5 DEF do_close
  <2>2. n \in lost \/ Owned(n)
    BY <1>1, <2>1 DEF Descriptors, Accounted, Piped
  <2>3. Owned(n) => Owned(n)'
    BY <1>3, <2>1 DEF Owned
  <2> QED BY <2>2, <2>3
<1> QED BY <1>1, <1>6, <1>7 DEF Descriptors, PipesInPlace

\* The other steps open and close nothing.
LEMMA DescriptorsRest ==
    ASSUME Types, Descriptors, UNCHANGED <<fds, proc, lost, ended>>,
           run' = run \/ \E pid \in Pid : Fork(pid)
    PROVE  Descriptors'
<1>1. UNCHANGED <<fds, proc, lost, ended>>
  OBVIOUS
<1>2. /\ run' # None => run # None
      /\ run # None => run'.h = run.h /\ run'.pipes = run.pipes
  <2>1. CASE run' = run
    BY <2>1
  <2>2. ASSUME NEW pid \in Pid, Fork(pid)
        PROVE  run # None /\ run'.h = run.h /\ run'.pipes = run.pipes
    <3>1. run # None /\ run \in Opening /\ run' = [run EXCEPT !.forked = TRUE]
      BY <2>2 DEF Fork, Opened, Types
    <3> QED BY <3>1 DEF Opening
  <2> QED BY <2>1, <2>2
<1>3. HandlesKeepTheirEnds'
  BY <1>1 DEF Descriptors, HandlesKeepTheirEnds, Live
<1>4. ASSUME run # None => run' # None PROVE Descriptors'
  <2>1. \A n : (Owned(n) => Owned(n)') /\ (Piped(n) => Piped(n)')
    BY <1>1, <1>2, <1>4 DEF Owned, Piped, Live
  <2>2. ~ended => Accounted'
    BY <1>1, <2>1 DEF Descriptors, Accounted
  <2>3. ~ended => PipesInPlace'
    BY <1>1, <1>2 DEF Descriptors, PipesInPlace
  <2> QED BY <1>1, <1>3, <2>2, <2>3 DEF Descriptors
<1>5. run # None => run' # None
  <2>1. ASSUME NEW pid \in Pid, Fork(pid) PROVE run' # None
    <3>1. run \in Opening /\ run' = [run EXCEPT !.forked = TRUE]
      BY <2>1 DEF Fork, Opened, Types
    <3>2. run' \in Opening
      BY <3>1 DEF Opening
    <3> QED BY <3>2, ProcessAssumption
  <2> QED BY <2>1
<1> QED BY <1>4, <1>5

LEMMA DescriptorsStep == Types /\ Descriptors /\ [ProcNext]_procvars => Descriptors'
<1> SUFFICES ASSUME Types, Descriptors, [ProcNext]_procvars PROVE Descriptors'
  OBVIOUS
<1>1. CASE RunStep
  <2>1. ASSUME NEW pid \in Pid, Fork(pid) PROVE Descriptors'
    <3>1. UNCHANGED <<fds, proc, lost, ended>>
      BY <2>1 DEF Fork, hist
    <3> QED BY <2>1, <3>1, DescriptorsRest
  <2> QED BY <1>1, <2>1, DescriptorsPipeOpens, DescriptorsPipeFails, DescriptorsForkFails,
             DescriptorsStarted DEF RunStep
<1>2. CASE CallStep
  <2>1. CASE WriteEnds
    BY <2>1 DEF WriteEnds, Descriptors, HandlesKeepTheirEnds
  <2>2. CASE ~WriteEnds
    <3>1. UNCHANGED <<fds, run, proc, lost, ended>>
      BY <1>2, <2>2 DEF CallStep, ReadReturns, ReadRaises, WritePart, WriteReturns, WriteBytes, ExitReturns, ExitRaises, hist
    <3> QED BY <3>1, DescriptorsRest
  <2> QED BY <2>1, <2>2
<1>3. ASSUME NEW h \in Handle, Program(h) PROVE Descriptors'
  <2>1. CASE Run(h) \/ process_stdin_close(h) \/ process_close(h)
    BY <2>1, DescriptorsRun, DescriptorsCloseStdin, DescriptorsClose
  <2>2. CASE ~(Run(h) \/ process_stdin_close(h) \/ process_close(h))
    <3>1. UNCHANGED <<fds, run, proc, lost, ended>>
      BY <1>3, <2>2 DEF Program, process_read, process_stdin_write, process_exit, process_kill,
                        Blocking, hist
    <3> QED BY <3>1, DescriptorsRest
  <2> QED BY <2>1, <2>2
<1>4. ASSUME NEW h \in Handle, KidStep(h) \/ KidExits(h) PROVE Descriptors'
  <2>1. UNCHANGED <<fds, run, proc, lost, ended>>
    BY <1>4 DEF KidStep, KidExecs, KidNotFound, KidReads, KidWrites, KidSeesEof, KidExits, hist
  <2> QED BY <2>1, DescriptorsRest
<1>5. CASE UNCHANGED procvars
  BY <1>5, DescriptorsRest DEF procvars, hist
<1> QED BY <1>1, <1>2, <1>3, <1>4, <1>5 DEF ProcNext
-----------------------------------------------------------------------------
(* Children *)

\* A step that takes no number for a new child.
LEMMA KidsAge ==
    ASSUME Types, OwnKids,
           \A h \in Handle : kid'[h].pid = kid[h].pid,
           \A h \in Handle : \A pid : UsesPid(h, pid)' => UsesPid(h, pid)
    PROVE  \A g, h \in Handle : UsesPid(g, kid[h].pid)' /\ UsesPid(h, kid[h].pid)' => g = h
<1> SUFFICES ASSUME NEW g \in Handle, NEW h \in Handle,
                    UsesPid(g, kid[h].pid)', UsesPid(h, kid[h].pid)'
             PROVE  g = h
  OBVIOUS
<1>1. PICK pid : pid = kid[h].pid /\ pid = kid'[h].pid
  OBVIOUS
<1>2. UsesPid(g, pid)' /\ UsesPid(h, pid)'
  BY <1>1
<1>3. UsesPid(g, pid) /\ UsesPid(h, pid)
  BY <1>2
<1> QED BY <1>1, <1>3 DEF OwnKids

\* What a child does, and a signal to it, leaves its number with it.
LEMMA KidSteps ==
    ASSUME Types, OwnKids, NEW h \in Handle, KidStep(h) \/ KidExits(h) \/ process_kill(h)
    PROVE  /\ \A g \in Handle : kid'[g].pid = kid[g].pid
           /\ \A g \in Handle : \A pid : UsesPid(g, pid)' <=> UsesPid(g, pid)
           /\ \A g \in Handle : kid'[g].output # None => Alive(g)'
<1> DEFINE Same(g) == /\ kid'[g].pid = kid[g].pid
                      /\ kid'[g].state \in {"forked", "running", "zombie"} <=>
                             kid[g].state \in {"forked", "running", "zombie"}
<1>1. \A g \in Handle : Same(g)
  <2>1. CASE KidExecs(h)
    BY <2>1 DEF KidExecs, Types, Kids
  <2>2. ASSUME NEW g \in Handle, kid' = [kid EXCEPT ![g] = Dead(g)], Alive(g)
        PROVE \A f \in Handle : Same(f)
    BY <2>2, KidIsTyped DEF Types, Alive
  <2>3. CASE KidReads(h)
    BY <2>3 DEF KidReads, Types, Kids
  <2>4. CASE KidWrites(h) /\ kid' = [kid EXCEPT ![h].output = None]
    BY <2>4 DEF Types, Kids
  <2>5. CASE process_kill(h)
    BY <2>5, KidIsTyped DEF process_kill, Types, Alive
  <2>6. CASE KidNotFound(h) \/ KidSeesEof(h) \/ KidExits(h)
    BY <2>2, <2>6 DEF KidNotFound, KidSeesEof, KidExits, Reading, Alive
  <2>7. CASE KidWrites(h) /\ kid' = [kid EXCEPT ![h] = Dead(h)]
    BY <2>2, <2>7 DEF KidWrites, OwnKids
  <2> QED BY <2>1, <2>3, <2>4, <2>5, <2>6, <2>7 DEF KidStep, KidWrites
<1>2. \A g \in Handle : \A pid : UsesPid(g, pid)' <=> UsesPid(g, pid)
  BY <1>1 DEF UsesPid, Alive
<1>3. \A g \in Handle : kid'[g].output # None => Alive(g)'
  <2>1. CASE KidExecs(h)
    BY <2>1 DEF KidExecs, Types, Kids, OwnKids, Alive
  <2>2. ASSUME NEW g \in Handle, kid' = [kid EXCEPT ![g] = Dead(g)]
        PROVE \A f \in Handle : kid'[f].output # None => Alive(f)'
    BY <2>2, KidIsTyped DEF Types, OwnKids, Alive
  <2>3. CASE KidReads(h)
    BY <2>3 DEF KidReads, Reading, Types, Kids, OwnKids, Alive
  <2>4. CASE KidWrites(h) /\ kid' = [kid EXCEPT ![h].output = None]
    BY <2>4 DEF Types, Kids, OwnKids, Alive
  <2>5. CASE process_kill(h)
    BY <2>5, KidIsTyped DEF process_kill, Types, OwnKids, Alive
  <2>6. CASE KidNotFound(h) \/ KidSeesEof(h) \/ KidExits(h)
    BY <2>2, <2>6 DEF KidNotFound, KidSeesEof, KidExits
  <2> QED BY <2>1, <2>2, <2>3, <2>4, <2>5, <2>6 DEF KidStep, KidWrites
<1> QED BY <1>1, <1>2, <1>3

LEMMA OwnKidsStep == Types /\ OwnKids /\ [ProcNext]_procvars => OwnKids'
<1> SUFFICES ASSUME Types, OwnKids, [ProcNext]_procvars PROVE OwnKids'
  OBVIOUS
\* A step that changes no child and neither calls nor returns.
<1>1. ASSUME UNCHANGED <<kid, call, proc, again, strayed>>, call # None => UNCHANGED run
      PROVE  OwnKids'
  BY <1>1 DEF OwnKids, Alive, UsesPid, InCall
<1>2. CASE RunStep
  <2>1. run # None /\ call = None
    BY <1>2 DEF RunStep, PipeOpens, PipeFails, Fork, ForkFails, Started, Opened, OwnKids
  <2>2. ASSUME UNCHANGED <<kid, call, again, strayed>> PROVE OwnKids'
    BY <2>1, <2>2 DEF OwnKids, Alive, UsesPid, InCall
  <2>3. ASSUME NEW pid \in Pid, Fork(pid) PROVE OwnKids'
    <3>1. /\ run.h \in Handle /\ \A g \in Handle : ~UsesPid(g, pid)
          /\ UNCHANGED <<call, again, strayed>>
      BY <2>1, <2>3 DEF Fork, Types, Opening, hist
    <3>2. PICK new : /\ new.pid = pid /\ new.state = "forked" /\ new.output = None
                     /\ kid' = [kid EXCEPT ![run.h] = new]
      <4>1. PICK new : /\ new = [state |-> "forked", pid |-> pid, held |-> Held, output |-> None]
                       /\ kid' = [kid EXCEPT ![run.h] = new]
        BY <2>3 DEF Fork
      <4> QED BY <4>1
    <3>3. PICK f \in Handle : f = run.h
      BY <3>1
    <3>4. kid'[f] = new /\ \A g \in Handle : g # f => kid'[g] = kid[g]
      BY <3>2, <3>3 DEF Types
    <3>5. /\ \A g \in Handle : g # f => /\ kid'[g].pid = kid[g].pid
                                        /\ \A p : UsesPid(g, p)' <=> UsesPid(g, p)
                                        /\ ~UsesPid(g, pid)'
          /\ \A p : UsesPid(f, p)' <=> p = pid
      BY <3>1, <3>2, <3>4 DEF UsesPid, Alive
    <3>6. \A g, h \in Handle : UsesPid(g, kid[h].pid)' /\ UsesPid(h, kid[h].pid)' => g = h
      <4> SUFFICES ASSUME NEW g \in Handle, NEW h \in Handle,
                          UsesPid(g, kid[h].pid)', UsesPid(h, kid[h].pid)'
                   PROVE  g = h
        OBVIOUS
      <4>1. PICK p : p = kid'[h].pid
        OBVIOUS
      <4>2. UsesPid(g, p)' /\ UsesPid(h, p)'
        BY <4>1
      <4>3. CASE g # f /\ h # f
        BY <3>5, <4>1, <4>2, <4>3 DEF OwnKids
      <4>4. CASE g = f \/ h = f
        BY <3>5, <4>2, <4>4
      <4> QED BY <4>3, <4>4
    <3>7. \A h \in Handle : kid'[h].output # None => Alive(h)'
      BY <3>2, <3>4 DEF OwnKids, Alive
    <3> QED BY <2>1, <3>1, <3>6, <3>7 DEF OwnKids, InCall
  <2> QED BY <1>2, <2>2, <2>3 DEF RunStep, PipeOpens, PipeFails, ForkFails, Started, hist
<1>3. CASE CallStep
  <2>0. CASE WritePart
    <3>1. /\ UNCHANGED <<kid, run, proc, again, strayed>>
          /\ call # None /\ call'.h = call.h /\ call'.op # "exit"
      BY <2>0 DEF WritePart, WriteBytes, InCall, hist
    <3> QED BY <3>1 DEF OwnKids, Alive, UsesPid, InCall
  <2>1. ~WritePart => call' = None
    BY <1>3 DEF CallStep, ReadReturns, ReadRaises, WriteReturns, WriteEnds, ExitReturns, ExitRaises
  <2>2. CASE ExitReturns /\ ~WritePart
    <3>1. PICK g \in Handle :
              /\ UsesPid(g, proc[call.h].pid) /\ kid[g].state = "zombie"
              /\ kid' = [kid EXCEPT ![g].state = "gone"]
              /\ strayed' = (strayed \/ g # call.h)
      BY <2>2 DEF ExitReturns
    <3>2. /\ \A h \in Handle : kid'[h].pid = kid[h].pid /\ kid'[h].output = kid[h].output
          /\ \A h \in Handle : h # g => kid'[h].state = kid[h].state
          /\ kid'[g].state = "gone"
      BY <3>1 DEF Types, Kids
    <3>3. \A h \in Handle : \A pid : UsesPid(h, pid)' => UsesPid(h, pid)
      BY <3>2 DEF UsesPid, Alive
    <3>4. \A h \in Handle : kid'[h].output # None => Alive(h)'
      BY <3>1, <3>2 DEF OwnKids, Alive
    <3>5. again' = again /\ (g = call.h \/ again)
      <4>1. call.h \in Handle /\ (again \/ UsesPid(call.h, proc[call.h].pid))
        BY <2>2 DEF ExitReturns, InCall, OwnKids
      <4>2. proc[call.h].pid = kid[g].pid
        BY <3>1 DEF UsesPid
      <4> QED BY <2>2, <3>1, <4>1, <4>2 DEF ExitReturns, OwnKids
    <3>6. \A f, h \in Handle : UsesPid(f, kid[h].pid)' /\ UsesPid(h, kid[h].pid)' => f = h
      BY <3>2, <3>3, KidsAge
    <3> QED BY <2>1, <2>2, <3>1, <3>4, <3>5, <3>6 DEF OwnKids, InCall
  <2>3. CASE ~ExitReturns /\ ~WritePart
    <3>1. UNCHANGED <<kid, again, strayed>>
      BY <1>3, <2>3 DEF CallStep, ReadReturns, ReadRaises, WriteReturns, WriteBytes, WriteEnds, ExitRaises, hist
    <3> QED BY <2>1, <2>3, <3>1 DEF OwnKids, Alive, UsesPid, InCall
  <2> QED BY <2>0, <2>1, <2>2, <2>3
<1>4. ASSUME NEW h \in Handle, Program(h) PROVE OwnKids'
  <2>1. call = None
    BY <1>4 DEF Program, Run, process_read, process_stdin_write, process_exit, process_kill,
                process_stdin_close, process_close, Usable, Ready
  <2>2. CASE Run(h) \/ process_stdin_close(h) \/ process_close(h)
    BY <2>1, <2>2 DEF Run, process_stdin_close, process_close, hist, OwnKids, Alive, UsesPid, InCall
  <2>3. CASE (\E s \in {"out", "err"} : process_read(h, s)) \/ process_stdin_write(h)
    <3>1. UNCHANGED <<kid, run, proc, again, strayed>> /\ call'.h = h /\ call'.op # "exit" /\ run = None
      BY <2>3 DEF process_read, process_stdin_write, Blocking, hist, Usable, Ready
    <3> QED BY <3>1 DEF OwnKids, Alive, UsesPid, InCall
  <2>4. CASE process_exit(h)
    <3>1. /\ UNCHANGED <<kid, run, proc, strayed>> /\ call'.h = h /\ run = None
          /\ again' = (again \/ Reaped(h))
      BY <2>4 DEF process_exit, Blocking, Usable, Ready
    <3> QED BY <3>1 DEF OwnKids, Alive, UsesPid, InCall, Reaped
  <2>5. CASE process_kill(h)
    <3>1. /\ call' = call
          /\ again' = (again \/ Reaped(h))
          /\ strayed' = (strayed \/ ~({g \in Handle : UsesPid(g, proc[h].pid)} \subseteq {h}))
      BY <2>5 DEF process_kill
    <3>2. \A f, g \in Handle : UsesPid(f, kid[g].pid)' /\ UsesPid(g, kid[g].pid)' => f = g
      BY <2>5, KidSteps, KidsAge
    <3>3. \A g \in Handle : kid'[g].output # None => Alive(g)'
      BY <2>5, KidSteps
    <3>4. ~Reaped(h) => {g \in Handle : UsesPid(g, proc[h].pid)} \subseteq {h}
      BY DEF Reaped, UsesPid, OwnKids
    <3> QED BY <2>1, <3>1, <3>2, <3>3, <3>4 DEF OwnKids, InCall
  <2> QED BY <1>4, <2>2, <2>3, <2>4, <2>5 DEF Program
<1>5. ASSUME NEW h \in Handle, KidStep(h) \/ KidExits(h) PROVE OwnKids'
  <2>1. UNCHANGED <<run, proc, call, again, strayed>>
    BY <1>5 DEF KidStep, KidExecs, KidNotFound, KidReads, KidWrites, KidSeesEof, KidExits, hist
  <2>2. \A f, g \in Handle : UsesPid(f, kid[g].pid)' /\ UsesPid(g, kid[g].pid)' => f = g
    BY <1>5, KidSteps, KidsAge
  <2>3. \A g \in Handle : kid'[g].output # None => Alive(g)'
    BY <1>5, KidSteps
  <2>4. InCall("exit")' => again \/ UsesPid(call.h, proc[call.h].pid)'
    <3>1. SUFFICES ASSUME InCall("exit"), ~again PROVE UsesPid(call.h, proc[call.h].pid)'
      BY <2>1 DEF InCall
    <3>2. PICK g \in Handle : g = call.h
      BY <3>1 DEF InCall, OwnKids
    <3>3. UsesPid(g, proc[g].pid)
      BY <3>1, <3>2 DEF OwnKids
    <3>4. PICK p : p = proc[g].pid
      OBVIOUS
    <3>5. UsesPid(g, p)'
      BY <1>5, <3>3, <3>4, KidSteps
    <3> QED BY <2>1, <3>2, <3>4, <3>5
  <2> QED BY <2>1, <2>2, <2>3, <2>4 DEF OwnKids, InCall
<1>6. CASE UNCHANGED procvars
  BY <1>1, <1>6 DEF procvars, hist
<1> QED BY <1>2, <1>3, <1>4, <1>5, <1>6 DEF ProcNext
-----------------------------------------------------------------------------
LEMMA InvInit == ProcInit => Inv
<1> SUFFICES ASSUME ProcInit PROVE Inv
  OBVIOUS
<1>1. Descriptors
  BY DEF ProcInit, Descriptors, HandlesKeepTheirEnds, PipesInPlace, Accounted, Live
<1>2. OwnKids
  BY DEF ProcInit, OwnKids, UsesPid, Alive, InCall
<1> QED BY <1>1, <1>2, TypesInit DEF Inv

\* On Windows nothing of Process changes.
LEMMA InvAlways == Spec => []Inv
<1>1. Init => Inv
  BY InvInit DEF Init
<1>2. Inv /\ [Next]_vars => Inv'
  <2>1. [Next]_vars => [ProcNext]_procvars
    BY DEF Next, OnUnix, OnWindows, vars
  <2> QED BY <2>1, TypesStep, DescriptorsStep, OwnKidsStep DEF Inv
<1> QED BY <1>1, <1>2, PTL DEF Spec

(***************************************************************************)
(* Until it is closed, the numbers in a vprocess name the ends of its own  *)
(* pipes, whatever other processes open and close in between.              *)
(***************************************************************************)
THEOREM OwnEndsStay == Spec => []HandlesKeepTheirEnds
<1>1. Inv => HandlesKeepTheirEnds
  BY DEF Inv, Descriptors
<1> QED BY <1>1, InvAlways, PTL

(***************************************************************************)
(* Between two calls, every open number belongs to a process that was not  *)
(* closed, but for those that a failing pipe has left behind.              *)
(***************************************************************************)
THEOREM NumbersAreClosed == Spec => []NothingElseIsOpen
<1>1. Inv => NothingElseIsOpen
  BY DEF Inv, Descriptors, Accounted, Owned, Piped, Free, NothingElseIsOpen
<1> QED BY <1>1, InvAlways, PTL

(***************************************************************************)
(* exit and kill meet no child but the handle's own, as long as neither is *)
(* called on a handle whose status was given out.                          *)
(***************************************************************************)
THEOREM StrangersAreSpared == Spec => []OwnChildOnly
<1>1. Inv => OwnChildOnly
  BY DEF Inv, OwnKids, OwnChildOnly
<1> QED BY <1>1, InvAlways, PTL

-----------------------------------------------------------------------------
(* Folds and recursion up to a number *)

\* Recursion up to a number, from a value for each step.
LEMMA CountsUp ==
    ASSUME NEW n \in Nat, NEW P, 0 \in P, \A k \in 0..(n - 1) : k \in P => k + 1 \in P
    PROVE  \A k \in 0..n : k \in P
<1> DEFINE Missing == {k \in 0..n : k \notin P}
           R == OpToRel(<, Nat)
<1>1. SUFFICES ASSUME Missing # {} PROVE FALSE
  BY <1>1
<1>2. IsWellFoundedOn(R, Nat)
  BY NatLessThanWellFounded
<1>3. \A x, y \in Nat : y < x => <<y, x>> \in R
  BY DEF OpToRel
<1>4. Missing \subseteq Nat
  OBVIOUS
<1> HIDE DEF R
<1>5. PICK k \in Missing : \A x \in Missing : ~(<<x, k>> \in R)
  <2> HIDE DEF Missing
  <2> QED BY <1>1, <1>2, <1>4, WFMin
<1>6. k - 1 \in 0..(n - 1)
  BY <1>5
<1>7. k - 1 \notin Missing
  <2>1. k \in Nat /\ k - 1 \in Nat /\ k - 1 < k
    BY <1>4, <1>5, <1>6
  <2>2. <<k - 1, k>> \in R
    BY <1>3, <2>1
  <2> QED BY <1>5, <2>2
<1>8. k - 1 \in P
  BY <1>6, <1>7
<1>9. (k - 1) + 1 \in P
  BY <1>6, <1>8
<1> QED BY <1>5, <1>9

\* The largest of some numbers.
LEMMA Largest ==
    ASSUME NEW n \in Nat, NEW T \in SUBSET (1..n), T # {}
    PROVE  Max(T) \in T /\ \A x \in T : x <= Max(T)
<1> DEFINE P == {k \in 0..n : \A S \in SUBSET (1..k) : S # {} => \E m \in S : \A x \in S : x <= m}
<1>1. 0 \in P
  <2>1. \A S \in SUBSET (1..0) : S = {}
    OBVIOUS
  <2>2. 0 \in 0..n
    OBVIOUS
  <2> QED BY <2>1, <2>2, Zenon
<1>2. ASSUME NEW k \in 0..(n - 1), k \in P PROVE k + 1 \in P
  <2> SUFFICES ASSUME NEW S \in SUBSET (1..(k + 1)), S # {}
               PROVE  \E m \in S : \A x \in S : x <= m
    OBVIOUS
  <2>1. CASE k + 1 \in S
    BY <2>1
  <2>2. CASE k + 1 \notin S
    <3>1. S \in SUBSET (1..k)
      BY <2>2
    <3> QED BY <1>2, <3>1
  <2> QED BY <2>1, <2>2
<1>3. n \in P
  <2> HIDE DEF P
  <2> QED BY <1>1, <1>2, CountsUp
<1>4. \E m \in T : \A x \in T : x <= m
  BY <1>3
<1>5. \E m \in T : \A x \in T : m >= x
  BY <1>4
<1>6. Max(T) \in T /\ \A x \in T : Max(T) >= x
  BY <1>5, Zenon DEF Max
<1> QED BY <1>6

\* The largest of the first k numbers is k.
LEMMA LargestUpTo ==
    ASSUME NEW n \in Nat, NEW k \in 1..n
    PROVE  Max(1..k) = k /\ (1..k) \ {k} = 1..(k - 1) /\ 1..k # {} /\ 1..k \in SUBSET (1..n)
<1>1. 1..k \in SUBSET (1..n) /\ k \in 1..k
  OBVIOUS
<1>2. Max(1..k) \in 1..k /\ \A x \in 1..k : x <= Max(1..k)
  BY <1>1, Largest
<1> QED BY <1>1, <1>2

\* f has a value for each set of indices, the one of a step with its largest.
FoldsSets(f, n, base, G) ==
    \A t \in SUBSET (1..n) : f[t] = IF t = {} THEN base ELSE G[Max(t), f[t \ {Max(t)}]]

(***************************************************************************)
(* A fold goes from the least index to the largest: its function on sets   *)
(* of indices exists.                                                      *)
(***************************************************************************)
LEMMA FoldExists ==
    ASSUME NEW n \in Nat, NEW D, NEW base \in D, NEW G \in [(1..n) \X D -> D]
    PROVE  \E f \in [SUBSET (1..n) -> D] : FoldsSets(f, n, base, G)
<1> DEFINE Works(f, k) ==
              \A t \in SUBSET (1..k) :
                 f[t] = IF t = {} THEN base ELSE G[Max(t), f[t \ {Max(t)}]]
           P == {k \in 0..n : \E f \in [SUBSET (1..k) -> D] : Works(f, k)}
<1>1. 0 \in P
  <2> DEFINE f == [t \in SUBSET (1..0) |-> base]
  <2>1. \A t \in SUBSET (1..0) : t = {}
    OBVIOUS
  <2>2. f \in [SUBSET (1..0) -> D] /\ Works(f, 0)
    BY <2>1
  <2> HIDE DEF f
  <2>3. \E g \in [SUBSET (1..0) -> D] : Works(g, 0)
    BY <2>2
  <2>4. 0 \in 0..n
    OBVIOUS
  <2> HIDE DEF Works
  <2> QED BY <2>3, <2>4
<1>2. ASSUME NEW k \in 0..(n - 1), k \in P PROVE k + 1 \in P
  <2>1. PICK g \in [SUBSET (1..k) -> D] : Works(g, k)
    BY <1>2
  <2> DEFINE f == [t \in SUBSET (1..(k + 1)) |->
                      IF k + 1 \in t THEN G[k + 1, g[t \ {k + 1}]] ELSE g[t]]
  <2>2. \A t \in SUBSET (1..(k + 1)) : k + 1 \notin t => t \in SUBSET (1..k)
    OBVIOUS
  <2>3. \A t \in SUBSET (1..(k + 1)) : t \ {k + 1} \in SUBSET (1..k)
    OBVIOUS
  <2>4. \A t \in SUBSET (1..k) : t \in SUBSET (1..(k + 1)) /\ k + 1 \notin t
    OBVIOUS
  <2>5. f \in [SUBSET (1..(k + 1)) -> D]
    <3> SUFFICES ASSUME NEW t \in SUBSET (1..(k + 1))
                 PROVE  (IF k + 1 \in t THEN G[k + 1, g[t \ {k + 1}]] ELSE g[t]) \in D
      OBVIOUS
    <3>1. CASE k + 1 \in t
      <4>1. k + 1 \in 1..n
        OBVIOUS
      <4>2. g[t \ {k + 1}] \in D
        BY <2>1, <2>3
      <4> QED BY <3>1, <4>1, <4>2
    <3>2. CASE k + 1 \notin t
      BY <2>1, <2>2, <3>2
    <3> QED BY <3>1, <3>2
  <2>6. \A t \in SUBSET (1..k) : f[t] = g[t]
    BY <2>4
  <2>7. ASSUME NEW t \in SUBSET (1..(k + 1))
        PROVE  f[t] = IF t = {} THEN base ELSE G[Max(t), f[t \ {Max(t)}]]
    <3>1. CASE k + 1 \in t
      <4>1. Max(t) = k + 1
        <5>1. k + 1 \in Nat /\ t # {}
          BY <3>1
        <5>2. Max(t) \in t /\ \A x \in t : x <= Max(t)
          BY <5>1, Largest
        <5>3. \A x \in t : x \in Int /\ x <= k + 1
          OBVIOUS
        <5>4. Max(t) \in Int /\ Max(t) <= k + 1 /\ k + 1 <= Max(t)
          BY <3>1, <5>2, <5>3, Zenon
        <5> QED BY <5>4
      <4>2. f[t] = G[k + 1, g[t \ {k + 1}]]
        BY <3>1
      <4>3. g[t \ {k + 1}] = f[t \ {k + 1}]
        BY <2>3, <2>6
      <4> HIDE DEF f
      <4> QED BY <3>1, <4>1, <4>2, <4>3
    <3>2. CASE k + 1 \notin t
      <4>1. t \in SUBSET (1..k) /\ t \ {Max(t)} \in SUBSET (1..k)
        BY <2>2, <3>2
      <4>2. f[t] = g[t] /\ f[t \ {Max(t)}] = g[t \ {Max(t)}]
        BY <2>6, <4>1
      <4>3. g[t] = IF t = {} THEN base ELSE G[Max(t), g[t \ {Max(t)}]]
        BY <2>1, <4>1
      <4> HIDE DEF f
      <4> QED BY <4>2, <4>3
    <3> QED BY <3>1, <3>2
  <2>8. Works(f, k + 1)
    BY <2>7
  <2> HIDE DEF f, Works
  <2>9. \E h \in [SUBSET (1..(k + 1)) -> D] : Works(h, k + 1)
    BY <2>5, <2>8
  <2>10. k + 1 \in 0..n
    OBVIOUS
  <2> QED BY <2>9, <2>10
<1>3. n \in P
  <2> HIDE DEF P
  <2> QED BY <1>1, <1>2, CountsUp
<1> QED BY <1>3 DEF FoldsSets

\* The same as far as the values are known to be in D.
FoldsWithin(f, n, D, base, G) ==
    /\ f[{}] = base
    /\ \A t \in SUBSET (1..n) :
          t # {} /\ f[t \ {Max(t)}] \in D => f[t] = G[Max(t), f[t \ {Max(t)}]]

\* v has a value for each number of steps.
StepsUp(v, n, base, G, last) ==
    /\ v[0] = base
    /\ \A k \in 1..n : v[k] = G[k, v[k - 1]]
    /\ v[n] = last

\* Seen from the sets 1..k, it has a value for each number of steps.
LEMMA FoldUnfolds ==
    ASSUME NEW n \in Nat, NEW D, NEW base \in D, NEW G \in [(1..n) \X D -> D], NEW iter,
           FoldsWithin(iter, n, D, base, G)
    PROVE  \E v \in [0..n -> D] : StepsUp(v, n, base, G, iter[1..n])
<1> DEFINE P == {k \in 0..n : iter[1..k] \in D}
           v == [k \in 0..n |-> iter[1..k]]
<1>1. ASSUME NEW k \in 1..n, iter[1..(k - 1)] \in D
      PROVE  iter[1..k] = G[k, iter[1..(k - 1)]]
  <2>1. Max(1..k) = k /\ (1..k) \ {k} = 1..(k - 1) /\ 1..k # {} /\ 1..k \in SUBSET (1..n)
    BY LargestUpTo
  <2> QED BY <1>1, <2>1 DEF FoldsWithin
<1>2. 1..0 = {} /\ 0 \in 0..n
  OBVIOUS
<1>3. 0 \in P
  BY <1>2 DEF FoldsWithin
<1>4. ASSUME NEW k \in 0..(n - 1), k \in P PROVE k + 1 \in P
  <2>1. k + 1 \in 1..n /\ k + 1 \in 0..n /\ (k + 1) - 1 = k
    OBVIOUS
  <2>2. iter[1..k] \in D
    BY <1>4
  <2>3. iter[1..(k + 1)] = G[k + 1, iter[1..k]]
    BY <1>1, <2>1, <2>2
  <2>4. G[k + 1, iter[1..k]] \in D
    BY <2>1, <2>2
  <2> QED BY <2>1, <2>3, <2>4
<1>5. \A k \in 0..n : k \in P
  <2> HIDE DEF P
  <2> QED BY <1>3, <1>4, CountsUp
<1>6. v \in [0..n -> D]
  BY <1>5
<1>7. v[0] = base
  BY <1>2 DEF FoldsWithin
<1>8. \A k \in 1..n : v[k] = G[k, v[k - 1]]
  <2> SUFFICES ASSUME NEW k \in 1..n PROVE v[k] = G[k, v[k - 1]]
    OBVIOUS
  <2>1. k \in 0..n /\ k - 1 \in 0..n
    OBVIOUS
  <2>2. iter[1..(k - 1)] \in D
    BY <1>5, <2>1
  <2> QED BY <1>1, <2>1, <2>2
<1>9. v[n] = iter[1..n]
  OBVIOUS
<1> HIDE DEF v
<1> QED BY <1>6, <1>7, <1>8, <1>9 DEF StepsUp

\* v has the buffer after each character of s.
AppendsUp(v, start, s) ==
    /\ v[0] = start
    /\ \A k \in 1..Len(s) : v[k] = buffer_append_char(v[k - 1], s[k])
    /\ Chars(start, s) = v[Len(s)]

\* Characters are appended one after the other.
LEMMA CharsFold ==
    ASSUME NEW D, NEW C, NEW start \in D, NEW s \in Seq(C),
           \A d \in D, c \in C : buffer_append_char(d, c) \in D
    PROVE  \E v \in [0..Len(s) -> D] : AppendsUp(v, start, s)
<1> DEFINE n == Len(s)
<1>1. n \in Nat /\ DOMAIN s = 1..n /\ \A k \in 1..n : s[k] \in C
  BY LenProperties
<1> DEFINE G == [p \in (1..n) \X D |-> buffer_append_char(p[2], s[p[1]])]
           Fold(f) == f = [t \in SUBSET (1..n) |->
                              IF t = {} THEN start
                              ELSE buffer_append_char(f[t \ {Max(t)}], s[Max(t)])]
           iter == CHOOSE f : Fold(f)
<1>2. Chars(start, s) = iter[1..n]
  BY <1>1 DEF Chars, FoldLeft, MapThenFoldSet
<1> HIDE DEF n
<1>3. G \in [(1..n) \X D -> D] /\ n \in Nat
  BY <1>1
<1>4. ASSUME NEW k \in 1..n, NEW d \in D PROVE G[k, d] = buffer_append_char(d, s[k])
  OBVIOUS
<1> HIDE DEF G
<1>5. \E f : Fold(f)
  <2>1. PICK f \in [SUBSET (1..n) -> D] : FoldsSets(f, n, start, G)
    BY <1>3, FoldExists
  <2>2. ASSUME NEW t \in SUBSET (1..n), t # {}
        PROVE  f[t] = buffer_append_char(f[t \ {Max(t)}], s[Max(t)])
    <3>1. Max(t) \in 1..n /\ f[t \ {Max(t)}] \in D
      BY <1>3, <2>1, <2>2, Largest
    <3>2. f[t] = G[Max(t), f[t \ {Max(t)}]]
      BY <2>1, <2>2 DEF FoldsSets
    <3> QED BY <1>4, <3>1, <3>2
  <2>3. f[{}] = start
    BY <2>1 DEF FoldsSets
  <2>4. Fold(f)
    BY <2>1, <2>2, <2>3
  <2> QED BY <2>4
<1>6. Fold(iter)
  <2> HIDE DEF Fold
  <2> QED BY <1>5
<1> HIDE DEF iter
<1>7. iter[{}] = start
  BY <1>6
<1>8. ASSUME NEW t \in SUBSET (1..n), t # {}, iter[t \ {Max(t)}] \in D
      PROVE  iter[t] = G[Max(t), iter[t \ {Max(t)}]]
  <2>1. Max(t) \in 1..n
    BY <1>3, <1>8, Largest
  <2>2. iter[t] = buffer_append_char(iter[t \ {Max(t)}], s[Max(t)])
    BY <1>6, <1>8
  <2> QED BY <1>4, <1>8, <2>1, <2>2
<1> HIDE DEF Fold
<1>9. PICK v \in [0..n -> D] : StepsUp(v, n, start, G, iter[1..n])
  <2>1. FoldsWithin(iter, n, D, start, G)
    BY <1>7, <1>8 DEF FoldsWithin
  <2> QED BY <1>3, <2>1, FoldUnfolds
<1>10. \A k \in 1..n : v[k] = buffer_append_char(v[k - 1], s[k])
  <2> SUFFICES ASSUME NEW k \in 1..n PROVE v[k] = buffer_append_char(v[k - 1], s[k])
    OBVIOUS
  <2>1. k - 1 \in 0..n
    BY <1>3
  <2>2. v[k - 1] \in D
    BY <1>9, <2>1
  <2> QED BY <1>4, <1>9, <2>2 DEF StepsUp
<1>11. n = Len(s)
  BY DEF n
<1> QED BY <1>2, <1>9, <1>10, <1>11 DEF StepsUp, AppendsUp

-----------------------------------------------------------------------------
(* The buffer of the command line *)

\* The characters of a text are told apart by their names; a piece holds some.
Texts == Seq(Character)
Piece == [str : Texts, size : Nat]
Buffers == [totlen : Nat, blen : Nat \ {0}, data : Seq(Piece)]

\* The text of a buffer is put together from its oldest piece.
LEMMA TextFold ==
    ASSUME NEW buf, buf.data \in Seq(Piece)
    PROVE  \E v \in [0..Len(buf.data) -> Texts] :
              /\ v[0] = << >>
              /\ \A k \in 1..Len(buf.data) : v[k] = buf.data[k].str \o v[k - 1]
              /\ buffer_to_string(buf) = v[Len(buf.data)]
<1> DEFINE n == Len(buf.data)
<1>1. n \in Nat /\ DOMAIN buf.data = 1..n /\ \A k \in 1..n : buf.data[k] \in Piece
  BY LenProperties
<1> DEFINE G == [p \in (1..n) \X Texts |-> buf.data[p[1]].str \o p[2]]
           Fold(f) == f = [t \in SUBSET (1..n) |->
                              IF t = {} THEN << >>
                              ELSE buf.data[Max(t)].str \o f[t \ {Max(t)}]]
           iter == CHOOSE f : Fold(f)
<1>2. buffer_to_string(buf) = iter[1..n]
  BY <1>1 DEF buffer_to_string, FoldLeft, MapThenFoldSet
<1> HIDE DEF n
<1>3. G \in [(1..n) \X Texts -> Texts] /\ n \in Nat /\ << >> \in Texts
  <2>1. \A piece \in Piece, d \in Texts : piece.str \o d \in Texts
    BY DEF Piece, Texts
  <2>2. << >> \in Texts
    BY DEF Texts
  <2> QED BY <1>1, <2>1, <2>2
<1>4. ASSUME NEW k \in 1..n, NEW d \in Texts PROVE G[k, d] = buf.data[k].str \o d
  OBVIOUS
<1> HIDE DEF G
<1>5. \E f : Fold(f)
  <2>1. PICK f \in [SUBSET (1..n) -> Texts] : FoldsSets(f, n, << >>, G)
    BY <1>3, FoldExists
  <2>2. ASSUME NEW t \in SUBSET (1..n), t # {}
        PROVE  f[t] = buf.data[Max(t)].str \o f[t \ {Max(t)}]
    <3>1. Max(t) \in 1..n /\ f[t \ {Max(t)}] \in Texts
      BY <1>3, <2>1, <2>2, Largest
    <3>2. f[t] = G[Max(t), f[t \ {Max(t)}]]
      BY <2>1, <2>2 DEF FoldsSets
    <3> QED BY <1>4, <3>1, <3>2
  <2>3. f[{}] = << >>
    BY <2>1 DEF FoldsSets
  <2>4. Fold(f)
    BY <2>1, <2>2, <2>3
  <2> QED BY <2>4
<1>6. Fold(iter)
  <2> HIDE DEF Fold
  <2> QED BY <1>5
<1> HIDE DEF iter
<1>7. iter[{}] = << >>
  BY <1>6
<1>8. ASSUME NEW t \in SUBSET (1..n), t # {}, iter[t \ {Max(t)}] \in Texts
      PROVE  iter[t] = G[Max(t), iter[t \ {Max(t)}]]
  <2>1. Max(t) \in 1..n
    BY <1>3, <1>8, Largest
  <2>2. iter[t] = buf.data[Max(t)].str \o iter[t \ {Max(t)}]
    BY <1>6, <1>8
  <2> QED BY <1>4, <1>8, <2>1, <2>2
<1> HIDE DEF Fold
<1>9. PICK v \in [0..n -> Texts] : StepsUp(v, n, << >>, G, iter[1..n])
  <2>1. FoldsWithin(iter, n, Texts, << >>, G)
    BY <1>7, <1>8 DEF FoldsWithin
  <2> QED BY <1>3, <2>1, FoldUnfolds
<1>10. \A k \in 1..n : v[k] = buf.data[k].str \o v[k - 1]
  <2> SUFFICES ASSUME NEW k \in 1..n PROVE v[k] = buf.data[k].str \o v[k - 1]
    OBVIOUS
  <2>1. k - 1 \in 0..n
    BY <1>3
  <2>2. v[k - 1] \in Texts
    BY <1>9, <2>1
  <2> QED BY <1>4, <1>9, <2>2 DEF StepsUp
<1>11. n = Len(buf.data)
  BY DEF n
<1> QED BY <1>2, <1>9, <1>10, <1>11 DEF StepsUp

\* The size of pieces stays a size.
LEMMA BlenType ==
    ASSUME NEW totlen \in Nat, NEW blen \in Nat \ {0}
    PROVE  Blen(totlen, blen) \in Nat \ {0}
<1> DEFINE D == Nat \ {0}
           Grown(d) == IF totlen < 4 * d THEN d ELSE 2 * d
           G == [p \in (1..totlen) \X D |-> Grown(p[2])]
           Rounds(f) == f = [k \in 0..totlen |-> IF k = 0 THEN blen ELSE
                                IF totlen < 4 * f[k - 1] THEN f[k - 1] ELSE 2 * f[k - 1]]
           after == CHOOSE f : Rounds(f)
<1>1. Blen(totlen, blen) = after[totlen]
  BY DEF Blen
<1>2. \A d \in D : Grown(d) \in D
  OBVIOUS
<1>3. G \in [(1..totlen) \X D -> D]
  <2> HIDE DEF Grown, D
  <2> QED BY <1>2
<1>4. ASSUME NEW k \in 1..totlen, NEW d \in D PROVE G[k, d] = Grown(d)
  <2> HIDE DEF Grown, D
  <2> QED OBVIOUS
<1>5. blen \in D
  OBVIOUS
<1> HIDE DEF G, D
<1>6. \E f : Rounds(f)
  <2>1. PICK f \in [SUBSET (1..totlen) -> D] : FoldsSets(f, totlen, blen, G)
    BY <1>3, <1>5, FoldExists
  <2>2. FoldsWithin(f, totlen, D, blen, G)
    BY <2>1 DEF FoldsSets, FoldsWithin
  <2>3. PICK v \in [0..totlen -> D] : StepsUp(v, totlen, blen, G, f[1..totlen])
    BY <1>3, <1>5, <2>2, FoldUnfolds
  <2>4. ASSUME NEW k \in 0..totlen
        PROVE  v[k] = IF k = 0 THEN blen ELSE
                      IF totlen < 4 * v[k - 1] THEN v[k - 1] ELSE 2 * v[k - 1]
    <3>1. CASE k = 0
      BY <2>3, <3>1 DEF StepsUp
    <3>2. CASE k # 0
      <4>1. k \in 1..totlen /\ k - 1 \in 0..totlen
        BY <3>2
      <4>2. v[k] = G[k, v[k - 1]] /\ v[k - 1] \in D
        BY <2>3, <4>1 DEF StepsUp
      <4>3. v[k] = Grown(v[k - 1])
        BY <1>4, <4>1, <4>2
      <4> QED BY <3>2, <4>3
    <3> QED BY <3>1, <3>2
  <2>5. Rounds(v)
    BY <2>3, <2>4
  <2> QED BY <2>5
<1>7. Rounds(after)
  <2> HIDE DEF Rounds
  <2> QED BY <1>6
<1> HIDE DEF after
<1> DEFINE P == {k \in 0..totlen : after[k] \in D}
<1>8. 0 \in P
  BY <1>5, <1>7
<1>9. ASSUME NEW k \in 0..(totlen - 1), k \in P PROVE k + 1 \in P
  <2>1. k + 1 \in 0..totlen /\ k + 1 # 0 /\ (k + 1) - 1 = k
    OBVIOUS
  <2>2. after[k + 1] = Grown(after[k])
    BY <1>7, <2>1
  <2> HIDE DEF Grown
  <2> QED BY <1>2, <1>9, <2>1, <2>2
<1>10. totlen \in P
  <2> HIDE DEF P
  <2> QED BY <1>8, <1>9, CountsUp
<1> QED BY <1>1, <1>10 DEF D

\* Texts are concatenated.
LEMMA TextsConcat ==
    /\ << >> \in Texts
    /\ \A x, y \in Texts : x \o y \in Texts /\ Len(x \o y) = Len(x) + Len(y)
    /\ \A x, y, z \in Texts : (x \o y) \o z = x \o (y \o z)
    /\ \A x \in Texts : x \o << >> = x /\ << >> \o x = x /\ Len(x) \in Nat
    /\ \A c \in Character : <<c>> \in Texts /\ Len(<<c>>) = 1
<1>1. << >> \in Texts
  BY DEF Texts
<1>2. ASSUME NEW x \in Texts, NEW y \in Texts
      PROVE  x \o y \in Texts /\ Len(x \o y) = Len(x) + Len(y)
  BY ConcatProperties DEF Texts
<1>3. ASSUME NEW x \in Texts, NEW y \in Texts, NEW z \in Texts
      PROVE  (x \o y) \o z = x \o (y \o z)
  BY ConcatAssociative DEF Texts
<1>4. ASSUME NEW x \in Texts PROVE x \o << >> = x /\ << >> \o x = x /\ Len(x) \in Nat
  BY ConcatEmptySeq, LenProperties DEF Texts
<1>5. ASSUME NEW c \in Character PROVE <<c>> \in Texts /\ Len(<<c>>) = 1
  <2>1. \A S : \A e \in S : <<e>> \in Seq(S) /\ Len(<<e>>) = 1
    OBVIOUS
  <2> QED BY <2>1, Zenon DEF Texts
<1> QED BY <1>1, <1>2, <1>3, <1>4, <1>5

\* The pieces after a new one has been put in front.
LEMMA Pushed ==
    ASSUME NEW data \in Seq(Piece), NEW piece \in Piece
    PROVE  /\ <<piece>> \o data \in Seq(Piece)
           /\ Len(data) \in Nat /\ Len(<<piece>> \o data) = Len(data) + 1
           /\ \A k \in 1..(Len(data) + 1) :
                 (<<piece>> \o data)[k] = IF k = 1 THEN piece ELSE data[k - 1]
<1>1. <<piece>> \in Seq(Piece) /\ Len(<<piece>>) = 1 /\ <<piece>>[1] = piece
  OBVIOUS
<1>2. Len(data) \in Nat
  BY LenProperties
<1>3. \A k \in 1..(Len(<<piece>>) + Len(data)) :
         (<<piece>> \o data)[k] = IF k <= Len(<<piece>>) THEN <<piece>>[k]
                                  ELSE data[k - Len(<<piece>>)]
  BY <1>1, ConcatProperties
<1>4. ASSUME NEW k \in 1..(Len(data) + 1)
      PROVE  (<<piece>> \o data)[k] = IF k = 1 THEN piece ELSE data[k - 1]
  <2>1. k \in 1..(1 + Len(data)) /\ (k <= 1 <=> k = 1)
    BY <1>2
  <2> QED BY <1>1, <1>3, <2>1
<1>5. <<piece>> \o data \in Seq(Piece) /\ Len(<<piece>> \o data) = Len(data) + 1
  BY <1>1, <1>2, ConcatProperties
<1> QED BY <1>2, <1>4, <1>5

\* A piece in front adds its text at the end.
LEMMA TextOfPush ==
    ASSUME NEW old, old.data \in Seq(Piece), NEW piece \in Piece,
           NEW new, new.data = <<piece>> \o old.data
    PROVE  /\ buffer_to_string(old) \in Texts
           /\ buffer_to_string(new) = buffer_to_string(old) \o piece.str
<1> DEFINE n == Len(old.data)
<1>2. n \in Nat /\ new.data \in Seq(Piece) /\ Len(new.data) = n + 1
  BY Pushed
<1>4. \A k \in 1..(n + 1) : new.data[k] = IF k = 1 THEN piece ELSE old.data[k - 1]
  BY Pushed
<1>5. PICK v \in [0..n -> Texts] :
         /\ v[0] = << >>
         /\ \A k \in 1..n : v[k] = old.data[k].str \o v[k - 1]
         /\ buffer_to_string(old) = v[n]
  BY TextFold
<1>6. PICK w \in [0..(n + 1) -> Texts] :
         /\ w[0] = << >>
         /\ \A k \in 1..(n + 1) : w[k] = new.data[k].str \o w[k - 1]
         /\ buffer_to_string(new) = w[n + 1]
  BY <1>2, TextFold
<1> HIDE DEF n
<1>7. piece.str \in Texts /\ \A k \in 1..n : old.data[k].str \in Texts
  <2>1. \A k \in 1..n : old.data[k] \in Piece
    BY <1>2, ElementOfSeq DEF n
  <2> QED BY <2>1 DEF Piece
<1> DEFINE P == {k \in 0..n : w[k + 1] = v[k] \o piece.str}
<1>8. 0 \in P
  <2>1. 1 \in 1..(n + 1) /\ 0 \in 0..n /\ 1 - 1 = 0 /\ 0 + 1 = 1
    BY <1>2
  <2>2. w[1] = piece.str \o w[0]
    BY <1>4, <1>6, <2>1
  <2>3. piece.str \o << >> = piece.str /\ << >> \o piece.str = piece.str
    BY <1>7, TextsConcat
  <2> QED BY <1>5, <1>6, <2>1, <2>2, <2>3
<1>9. ASSUME NEW k \in 0..(n - 1), k \in P PROVE k + 1 \in P
  <2>1. /\ k + 1 \in 1..n /\ k + 1 \in 0..n /\ k + 2 \in 1..(n + 1) /\ k \in 0..n
        /\ (k + 1) - 1 = k /\ (k + 2) - 1 = k + 1 /\ k + 2 # 1 /\ (k + 1) + 1 = k + 2
    BY <1>2
  <2>2. w[k + 2] = old.data[k + 1].str \o w[k + 1]
    <3>1. new.data[k + 2] = old.data[(k + 2) - 1]
      BY <1>4, <2>1, Zenon
    <3>2. w[k + 2] = new.data[k + 2].str \o w[(k + 2) - 1]
      BY <1>6, <2>1, Zenon
    <3> QED BY <2>1, <3>1, <3>2, Zenon
  <2>3. w[k + 1] = v[k] \o piece.str
    BY <1>9
  <2>4. v[k + 1] = old.data[k + 1].str \o v[k]
    BY <1>5, <2>1
  <2>5. old.data[k + 1].str \in Texts /\ v[k] \in Texts
    BY <1>5, <1>7, <2>1
  <2>6. (old.data[k + 1].str \o v[k]) \o piece.str = old.data[k + 1].str \o (v[k] \o piece.str)
    BY <1>7, <2>5, TextsConcat
  <2> QED BY <2>1, <2>2, <2>3, <2>4, <2>6
<1>10. n \in P
  <2>1. n \in 0..n
    BY <1>2
  <2> HIDE DEF P
  <2> QED BY <1>2, <1>8, <1>9, <2>1, CountsUp
<1>11. v[n] \in Texts
  <2>1. n \in 0..n
    BY <1>2
  <2> QED BY <1>5, <2>1
<1> QED BY <1>5, <1>6, <1>10, <1>11

\* The buffer holds a text, and no piece more than there is room for.
Carries(buf, txt) ==
    /\ buf \in Buffers
    /\ buffer_to_string(buf) = txt
    /\ \A k \in 1..Len(buf.data) : Len(buf.data[k].str) <= buf.data[k].size

Holds(buf, txt) == Carries(buf, txt) /\ buf.totlen = Len(txt)

\* A new piece has room for what it is made for.
LEMMA NewPiece ==
    ASSUME NEW buf, NEW txt, Carries(buf, txt), NEW s \in Texts
    PROVE  /\ Carries(buffer_append_new(buf, s), txt \o s)
           /\ buffer_append_new(buf, s).totlen = buf.totlen
<1> DEFINE blen == Blen(buf.totlen, buf.blen)
           piece == [str |-> s, size |-> Longer(Len(s), blen)]
           new == buffer_append_new(buf, s)
<1>1. buf \in Buffers /\ buf.data \in Seq(Piece) /\ buf.totlen \in Nat
  BY DEF Carries, Buffers
<1>2. blen \in Nat \ {0}
  BY BlenType DEF Carries, Buffers
<1>3. Len(s) \in Nat
  BY LenProperties DEF Texts
<1>4. piece \in Piece /\ Len(s) <= piece.size /\ piece.str = s
  <2> HIDE DEF blen
  <2> QED BY <1>2, <1>3 DEF Piece, Longer
<1>5. new = [buf EXCEPT !.blen = blen, !.data = <<piece>> \o @]
  BY DEF buffer_append_new
<1> HIDE DEF blen, piece, new
<1>6. /\ <<piece>> \o buf.data \in Seq(Piece)
      /\ Len(buf.data) \in Nat /\ Len(<<piece>> \o buf.data) = Len(buf.data) + 1
      /\ \A k \in 1..(Len(buf.data) + 1) :
            (<<piece>> \o buf.data)[k] = IF k = 1 THEN piece ELSE buf.data[k - 1]
  BY <1>1, <1>4, Pushed
<1>7. new = [totlen |-> buf.totlen, blen |-> blen, data |-> <<piece>> \o buf.data]
  BY <1>1, <1>5 DEF Buffers
<1>8. new \in Buffers /\ new.data = <<piece>> \o buf.data /\ new.totlen = buf.totlen
  BY <1>1, <1>2, <1>6, <1>7 DEF Buffers
<1>9. buffer_to_string(new) = txt \o s
  BY <1>1, <1>4, <1>8, TextOfPush DEF Carries
<1>10. \A k \in 1..Len(new.data) : Len(new.data[k].str) <= new.data[k].size
  <2> SUFFICES ASSUME NEW k \in 1..Len(new.data)
               PROVE  Len(new.data[k].str) <= new.data[k].size
    OBVIOUS
  <2>1. Len(buf.data) \in Nat /\ Len(new.data) = Len(buf.data) + 1
    BY <1>6, <1>8
  <2>2. CASE k = 1
    <3>1. new.data[1] = piece
      BY <1>6, <1>8, <2>1
    <3> QED BY <1>4, <2>2, <3>1
  <2>3. CASE k # 1
    <3>1. k - 1 \in 1..Len(buf.data)
      BY <2>1, <2>3
    <3>2. new.data[k] = buf.data[k - 1]
      BY <1>6, <1>8, <2>1, <2>3
    <3> QED BY <3>1, <3>2 DEF Carries
  <2> QED BY <2>2, <2>3
<1> QED BY <1>8, <1>9, <1>10 DEF Carries, new

\* The text depends on the pieces only.
LEMMA TextOfData ==
    ASSUME NEW old, NEW new, old.data = new.data
    PROVE  buffer_to_string(old) = buffer_to_string(new)
BY Zenon DEF buffer_to_string

\* What the newest piece has room for goes there.
LEMMA NewestPiece ==
    ASSUME NEW buf, NEW txt, Carries(buf, txt), NEW s \in Texts, buf.data # << >>,
           Len(Head(buf.data).str) + Len(s) <= Head(buf.data).size
    PROVE  /\ Carries([buf EXCEPT !.data[1].str = @ \o s], txt \o s)
           /\ [buf EXCEPT !.data[1].str = @ \o s].totlen = buf.totlen
<1> DEFINE first == Head(buf.data)
           rest == Tail(buf.data)
           new == [buf EXCEPT !.data[1].str = @ \o s]
<1>1. buf \in Buffers /\ buf.data \in Seq(Piece) /\ buf.totlen \in Nat /\ buf.blen \in Nat \ {0}
  BY DEF Carries, Buffers
<1>2. first \in Piece /\ rest \in Seq(Piece) /\ buf.data = <<first>> \o rest /\ first = buf.data[1]
  BY <1>1
<1>3. PICK piece : piece = [first EXCEPT !.str = @ \o s]
  OBVIOUS
<1>4. piece.str = first.str \o s /\ piece \in Piece /\ piece.size = first.size /\ first.str \in Texts
  <2>1. first.str \in Texts /\ first.size \in Nat
    BY <1>2 DEF Piece
  <2>2. first.str \o s \in Texts
    BY <2>1, TextsConcat
  <2> QED BY <1>2, <1>3, <2>1, <2>2 DEF Piece
<1>5. new = [totlen |-> buf.totlen, blen |-> buf.blen, data |-> [buf.data EXCEPT ![1] = piece]]
  <2>1. new = [buf EXCEPT !.data = [buf.data EXCEPT ![1] = piece]]
    BY <1>2, <1>3
  <2> HIDE DEF new
  <2> QED BY <1>1, <2>1 DEF Buffers
<1>6. [buf.data EXCEPT ![1] = piece] = <<piece>> \o rest
  BY <1>1, <1>2, <1>4
<1> HIDE DEF new, first, rest
<1>7. <<piece>> \o rest \in Seq(Piece)
  BY <1>2, <1>4, Pushed
<1>8. new \in Buffers /\ new.data = <<piece>> \o rest /\ new.totlen = buf.totlen
  BY <1>1, <1>5, <1>6, <1>7 DEF Buffers
<1>9. buffer_to_string(new) = txt \o s
  <2> DEFINE old == [data |-> rest]
  <2>1. old.data = rest
    OBVIOUS
  <2> HIDE DEF old
  <2>2. buffer_to_string(old) \in Texts /\ buffer_to_string(buf) = buffer_to_string(old) \o first.str
    BY <1>2, <2>1, TextOfPush
  <2>3. buffer_to_string(new) = buffer_to_string(old) \o piece.str
    BY <1>2, <1>4, <1>8, <2>1, TextOfPush
  <2>4. (buffer_to_string(old) \o first.str) \o s = buffer_to_string(old) \o (first.str \o s)
    BY <1>4, <2>2, TextsConcat
  <2> QED BY <1>4, <2>2, <2>3, <2>4 DEF Carries
<1>10. \A k \in 1..Len(new.data) : Len(new.data[k].str) <= new.data[k].size
  <2>1. Len(rest) \in Nat /\ Len(new.data) = Len(rest) + 1 /\ Len(buf.data) = Len(rest) + 1
    BY <1>2, <1>4, <1>8, Pushed
  <2>2. \A k \in 1..(Len(rest) + 1) : new.data[k] = IF k = 1 THEN piece ELSE rest[k - 1]
    BY <1>2, <1>4, <1>8, Pushed
  <2>3. \A k \in 1..(Len(rest) + 1) : buf.data[k] = IF k = 1 THEN first ELSE rest[k - 1]
    BY <1>2, Pushed
  <2> SUFFICES ASSUME NEW k \in 1..(Len(rest) + 1)
               PROVE  Len(new.data[k].str) <= new.data[k].size
    BY <2>1
  <2>4. CASE k = 1
    <3>1. Len(piece.str) = Len(first.str) + Len(s)
      BY <1>4, TextsConcat
    <3>2. new.data[k] = piece
      BY <2>2, <2>4
    <3> QED BY <1>4, <3>1, <3>2 DEF first
  <2>5. CASE k # 1
    <3>1. new.data[k] = buf.data[k]
      BY <2>2, <2>3, <2>5
    <3>2. Len(buf.data[k].str) <= buf.data[k].size
      BY <2>1 DEF Carries
    <3> QED BY <3>1, <3>2
  <2> QED BY <2>4, <2>5
<1> QED BY <1>8, <1>9, <1>10 DEF Carries, new

\* Only the length changes.
LEMMA Lengthened ==
    ASSUME NEW buf, NEW txt, Carries(buf, txt), NEW m \in Nat
    PROVE  LET grown == [buf EXCEPT !.totlen = @ + m]
           IN  Carries(grown, txt) /\ grown.totlen = buf.totlen + m /\ grown.data = buf.data
<1> DEFINE grown == [buf EXCEPT !.totlen = @ + m]
<1>1. buf \in Buffers
  BY DEF Carries
<1>2. grown \in Buffers /\ grown.totlen = buf.totlen + m /\ grown.data = buf.data
  BY <1>1 DEF Buffers
<1>3. buffer_to_string(grown) = buffer_to_string(buf)
  BY <1>2, TextOfData
<1> QED BY <1>2, <1>3 DEF Carries

\* A string is appended, where there is room and in a new piece.
LEMMA SubStep ==
    ASSUME NEW buf, NEW txt \in Texts, Holds(buf, txt), NEW s \in Texts
    PROVE  Holds(buffer_append_sub(buf, s), txt \o s)
<1> DEFINE grown == [buf EXCEPT !.totlen = @ + Len(s)]
           first == Head(buf.data)
           free == first.size - Len(first.str)
           new == buffer_append_sub(buf, s)
<1>1. Carries(buf, txt) /\ buf.totlen = Len(txt) /\ Len(s) \in Nat /\ Len(txt) \in Nat
  BY TextsConcat DEF Holds
<1>2. Carries(grown, txt) /\ grown.totlen = buf.totlen + Len(s) /\ grown.data = buf.data
  BY <1>1, Lengthened
<1>3. Len(txt \o s) = Len(txt) + Len(s)
  BY TextsConcat
<1>4. CASE s = << >>
  <2>1. new = buf
    BY <1>4 DEF buffer_append_sub
  <2>2. txt \o s = txt
    BY <1>4, TextsConcat
  <2> QED BY <2>1, <2>2
<1> HIDE DEF grown
<1>5. CASE s # << >> /\ buf.data = << >>
  <2>1. new = buffer_append_new(grown, s)
    BY <1>5 DEF buffer_append_sub, grown
  <2> QED BY <1>1, <1>2, <1>3, <2>1, NewPiece DEF Holds
<1>6. ASSUME buf.data # << >>
      PROVE  /\ first = buf.data[1] /\ first.str \in Texts /\ Len(first.str) \in Nat
             /\ first.size \in Nat /\ Len(first.str) <= first.size
  <2>1. buf.data \in Seq(Piece) /\ 1 \in 1..Len(buf.data)
    BY <1>1, <1>6 DEF Carries, Buffers
  <2>2. first = buf.data[1] /\ first \in Piece
    BY <1>6, <2>1
  <2>3. first.str \in Texts /\ first.size \in Nat
    BY <2>2 DEF Piece
  <2>4. Len(first.str) <= first.size
    BY <1>1, <2>1, <2>2 DEF Carries
  <2> QED BY <2>2, <2>3, <2>4, TextsConcat
<1>7. CASE s # << >> /\ buf.data # << >> /\ free >= Len(s)
  <2>1. new = [grown EXCEPT !.data[1].str = @ \o s]
    BY <1>7 DEF buffer_append_sub, grown
  <2>2. Len(Head(grown.data).str) + Len(s) <= Head(grown.data).size
    BY <1>1, <1>2, <1>6, <1>7
  <2>3. Carries(new, txt \o s) /\ new.totlen = grown.totlen
    <3> HIDE DEF new
    <3> QED BY <1>2, <1>7, <2>1, <2>2, NewestPiece
  <2> QED BY <1>1, <1>2, <1>3, <2>3 DEF Holds
<1>8. CASE s # << >> /\ buf.data # << >> /\ ~(free >= Len(s))
  <2> DEFINE fits == SubSeq(s, 1, free)
             more == SubSeq(s, free + 1, Len(s))
             topped == [grown EXCEPT !.data[1].str = @ \o fits]
  <2>0. first.size \in Nat /\ Len(first.str) \in Nat /\ Len(first.str) <= first.size
    BY <1>6, <1>8
  <2>1. free \in Nat /\ free < Len(s) /\ Len(first.str) + free = first.size
    <3> HIDE DEF first
    <3> QED BY <1>1, <1>8, <2>0
  <2> HIDE DEF free
  <2>2. fits \in Texts /\ more \in Texts /\ fits \o more = s /\ Len(fits) = free
    <3>1. s \in Seq(Character)
      BY DEF Texts
    <3>2. fits \in Seq(Character) /\ more \in Seq(Character) /\ Len(fits) = free
      BY <2>1, <3>1, LenProperties
    <3>3. fits \o more = SubSeq(s, 1, Len(s))
      <4>1. 1 \in 1..(Len(s) + 1) /\ free \in (1 - 1)..Len(s) /\ Len(s) \in free..Len(s)
        BY <1>1, <2>1
      <4> HIDE DEF fits, more
      <4> QED BY <3>1, <4>1, ConcatAdjacentSubSeq DEF fits, more
    <3>4. SubSeq(s, 1, Len(s)) = s
      BY <3>1, SubSeqFull
    <3> QED BY <3>2, <3>3, <3>4 DEF Texts
  <2>3. new = buffer_append_new(topped, more)
    BY <1>8 DEF buffer_append_sub, grown, free
  <2> HIDE DEF fits, more
  <2>4. Len(Head(grown.data).str) + Len(fits) <= Head(grown.data).size
    BY <1>2, <2>0, <2>1, <2>2
  <2>5. Carries(topped, txt \o fits) /\ topped.totlen = grown.totlen
    BY <1>2, <1>8, <2>2, <2>4, NewestPiece
  <2> HIDE DEF topped
  <2>6. Carries(new, (txt \o fits) \o more) /\ new.totlen = topped.totlen
    BY <2>2, <2>3, <2>5, NewPiece
  <2>7. (txt \o fits) \o more = txt \o s
    BY <2>2, TextsConcat
  <2> QED BY <1>1, <1>2, <1>3, <2>5, <2>6, <2>7 DEF Holds
<1> QED BY <1>4, <1>5, <1>7, <1>8

\* A character is appended, where there is room or in a new piece.
LEMMA CharStep ==
    ASSUME NEW buf, NEW txt \in Texts, Holds(buf, txt), NEW c \in Character
    PROVE  Holds(buffer_append_char(buf, c), txt \o <<c>>)
<1> DEFINE grown == [buf EXCEPT !.totlen = @ + 1]
           first == Head(buf.data)
           new == buffer_append_char(buf, c)
<1>1. Carries(buf, txt) /\ buf.totlen = Len(txt) /\ Len(txt) \in Nat
  BY TextsConcat DEF Holds
<1>2. Carries(grown, txt) /\ grown.totlen = buf.totlen + 1 /\ grown.data = buf.data
  BY <1>1, Lengthened
<1>3. <<c>> \in Texts /\ Len(<<c>>) = 1
  BY TextsConcat
<1>4. Len(txt \o <<c>>) = Len(txt) + 1
  BY <1>3, TextsConcat
<1> HIDE DEF grown
<1>5. CASE buf.data # << >> /\ Len(first.str) # first.size
  <2>1. buf.data \in Seq(Piece) /\ 1 \in 1..Len(buf.data)
    BY <1>1, <1>5 DEF Carries, Buffers
  <2>2. first = buf.data[1] /\ first \in Piece
    BY <1>5, <2>1
  <2>3. first.str \in Texts /\ first.size \in Nat /\ Len(first.str) <= first.size
    BY <1>1, <2>1, <2>2 DEF Carries, Piece
  <2>4. Len(first.str) \in Nat
    BY <2>3, TextsConcat
  <2>5. Len(Head(grown.data).str) + Len(<<c>>) <= Head(grown.data).size
    BY <1>2, <1>3, <1>5, <2>3, <2>4
  <2>6. new = [grown EXCEPT !.data[1].str = Append(@, c)]
    BY <1>5 DEF buffer_append_char, grown
  <2>7. Append(first.str, c) = first.str \o <<c>>
    BY <2>3, AppendIsConcat DEF Texts
  <2>8. new = [grown EXCEPT !.data[1].str = @ \o <<c>>]
    BY <1>2, <2>2, <2>6, <2>7
  <2>9. Carries(new, txt \o <<c>>) /\ new.totlen = grown.totlen
    <3> HIDE DEF new
    <3> QED BY <1>2, <1>3, <1>5, <2>5, <2>8, NewestPiece
  <2> QED BY <1>1, <1>2, <1>4, <2>9 DEF Holds
<1>6. CASE ~(buf.data # << >> /\ Len(first.str) # first.size)
  <2>1. new = buffer_append_new(grown, <<c>>)
    BY <1>6 DEF buffer_append_char, grown
  <2>2. Carries(new, txt \o <<c>>) /\ new.totlen = grown.totlen
    BY <1>2, <1>3, <2>1, NewPiece
  <2> QED BY <1>1, <1>2, <1>4, <2>2 DEF Holds
<1> QED BY <1>5, <1>6

\* The buffers that hold some text, which characters lead to again.
Filled == {buf \in Buffers : Holds(buf, buffer_to_string(buf)) /\ buffer_to_string(buf) \in Texts}

\* A buffer that holds a text is among them.
LEMMA FilledHolds ==
    ASSUME NEW buf, NEW txt \in Texts, Holds(buf, txt)
    PROVE  buf \in Filled
BY DEF Filled, Holds, Carries

\* Characters that are appended one after the other are appended.
LEMMA CharsStep ==
    ASSUME NEW buf, NEW txt \in Texts, Holds(buf, txt), NEW s \in Texts
    PROVE  Holds(Chars(buf, s), txt \o s)
<1> DEFINE n == Len(s)
<1>1. n \in Nat /\ s \in Seq(Character) /\ \A k \in 1..n : s[k] \in Character
  BY ElementOfSeq, LenProperties DEF Texts
<1>2. \A d \in Filled, c \in Character : buffer_append_char(d, c) \in Filled
  <2> SUFFICES ASSUME NEW d \in Filled, NEW c \in Character
               PROVE  buffer_append_char(d, c) \in Filled
    OBVIOUS
  <2>1. Holds(d, buffer_to_string(d)) /\ buffer_to_string(d) \in Texts
    BY DEF Filled
  <2>2. Holds(buffer_append_char(d, c), buffer_to_string(d) \o <<c>>)
    BY <2>1, CharStep
  <2>3. buffer_to_string(d) \o <<c>> \in Texts
    BY <2>1, TextsConcat
  <2> QED BY <2>2, <2>3, FilledHolds
<1>3. buf \in Filled
  BY FilledHolds
<1>4. PICK v \in [0..n -> Filled] :
         /\ v[0] = buf
         /\ \A k \in 1..n : v[k] = buffer_append_char(v[k - 1], s[k])
         /\ Chars(buf, s) = v[n]
  <2>1. PICK v \in [0..Len(s) -> Filled] : AppendsUp(v, buf, s)
    BY <1>1, <1>2, <1>3, CharsFold
  <2> QED BY <2>1 DEF AppendsUp
<1> HIDE DEF n
<1> DEFINE P == {k \in 0..n : Holds(v[k], txt \o SubSeq(s, 1, k))}
<1>5. 0 \in P
  <2>1. SubSeq(s, 1, 0) = << >> /\ 0 \in 0..n
    BY <1>1, SubSeqEmpty
  <2> QED BY <1>4, <2>1, TextsConcat
<1>6. ASSUME NEW k \in 0..(n - 1), k \in P PROVE k + 1 \in P
  <2>1. k + 1 \in 1..n /\ k + 1 \in 0..n /\ (k + 1) - 1 = k /\ k \in 0..n
    BY <1>1
  <2>2. v[k + 1] = buffer_append_char(v[k], s[k + 1]) /\ s[k + 1] \in Character
    BY <1>1, <1>4, <2>1
  <2>3. SubSeq(s, 1, k) \in Texts
    BY <1>1, <2>1 DEF Texts, n
  <2>4. SubSeq(s, 1, k + 1) = SubSeq(s, 1, k) \o <<s[k + 1]>>
    <3>1. 1 \in 1..Len(s) /\ k + 1 \in 1..Len(s)
      BY <1>1, <2>1 DEF n
    <3>2. SubSeq(s, 1, k + 1) = SubSeq(s, 1, (k + 1) - 1) \o <<s[k + 1]>>
      BY <1>1, <3>1, SubSeqRecursiveSecond
    <3> QED BY <2>1, <3>2
  <2>5. txt \o SubSeq(s, 1, k) \in Texts /\ <<s[k + 1]>> \in Texts
    BY <2>2, <2>3, TextsConcat
  <2>6. (txt \o SubSeq(s, 1, k)) \o <<s[k + 1]>> = txt \o (SubSeq(s, 1, k) \o <<s[k + 1]>>)
    BY <2>3, <2>5, TextsConcat
  <2>7. Holds(v[k + 1], (txt \o SubSeq(s, 1, k)) \o <<s[k + 1]>>)
    BY <1>6, <2>2, <2>5, CharStep
  <2> QED BY <2>1, <2>4, <2>6, <2>7
<1>7. n \in P
  <2>1. n \in 0..n
    BY <1>1
  <2> HIDE DEF P
  <2> QED BY <1>1, <1>5, <1>6, <2>1, CountsUp
<1>8. SubSeq(s, 1, n) = s
  BY <1>1, SubSeqFull DEF n
<1> QED BY <1>4, <1>7, <1>8

-----------------------------------------------------------------------------
(* process_run appends to the buffer what it should *)

\* The state of process_run, and the buffer that holds what was appended.
CmdTypes ==
    /\ cmd \in Texts /\ vargs \in Seq(Texts) \union {Null}
    /\ step \in {"begin", "next", "char", "end", "done"}
    /\ step \in {"next", "char"} => vargs \in Seq(Texts)
    /\ i \in Nat \ {0} /\ j \in Nat \ {0} /\ bs_count \in Nat
    /\ step = "char" => i <= Len(vargs)
    /\ text \in Texts
    /\ step = "begin" => text = << >>

Filling == IF step = "done" THEN line = text ELSE Holds(b, text)

CmdInv == CmdTypes /\ Filling

\* Nothing is in the buffer at first.
LEMMA EmptyBuffer ==
    Holds(alloc_buffer, << >>)
<1>1. alloc_buffer \in Buffers /\ alloc_buffer.data = << >> /\ alloc_buffer.totlen = 0
  BY CommandLineAssumption DEF alloc_buffer, Buffers
<1>2. Len(alloc_buffer.data) = 0 /\ alloc_buffer.data \in Seq(Piece) /\ Len(<< >>) = 0
  BY <1>1
<1>3. PICK v \in [0..Len(alloc_buffer.data) -> Texts] :
         v[0] = << >> /\ buffer_to_string(alloc_buffer) = v[Len(alloc_buffer.data)]
  BY <1>2, TextFold
<1>4. buffer_to_string(alloc_buffer) = << >>
  BY <1>2, <1>3
<1> QED BY <1>1, <1>2, <1>4 DEF Holds, Carries

\* The characters that are written are characters.
LEMMA Written ==
    /\ <<Quote>> \in Texts /\ <<Space, Quote>> \in Texts /\ <<Backslash, Quote>> \in Texts
    /\ <<Slash, LetterC, Space, Quote>> \in Texts
    /\ <<Quote>> \o <<Slash, LetterC, Space, Quote>> = <<Quote, Slash, LetterC, Space, Quote>>
    /\ Quote \in Character /\ Backslash \in Character /\ Space \in Character
    /\ \A m \in Nat : Backslashes(m) \in Texts /\ Len(Backslashes(m)) = m
<1>1. /\ Quote \in Character /\ Backslash \in Character /\ Space \in Character
      /\ Slash \in Character /\ LetterC \in Character
  BY CommandLineAssumption
<1>2. \A S : \A c, d, e, f \in S : <<c>> \in Seq(S) /\ <<c, d>> \in Seq(S) /\ <<c, d, e, f>> \in Seq(S)
  OBVIOUS
<1>3. ASSUME NEW m \in Nat PROVE Backslashes(m) \in Texts /\ Len(Backslashes(m)) = m
  BY <1>1 DEF Backslashes, Texts
<1>4. \A S : \A c, d, e, f, g \in S : <<c>> \o <<d, e, f, g>> = <<c, d, e, f, g>>
  <2> SUFFICES ASSUME NEW S, NEW c \in S, NEW d \in S, NEW e \in S, NEW f \in S, NEW g \in S
               PROVE  <<c>> \o <<d, e, f, g>> = <<c, d, e, f, g>>
    OBVIOUS
  <2> DEFINE x == <<c>>
             y == <<d, e, f, g>>
             z == <<c, d, e, f, g>>
  <2>1. /\ x \in Seq(S) /\ Len(x) = 1 /\ x[1] = c
        /\ y \in Seq(S) /\ Len(y) = 4 /\ y[1] = d /\ y[2] = e /\ y[3] = f /\ y[4] = g
        /\ z \in Seq(S) /\ Len(z) = 5
        /\ z[1] = c /\ z[2] = d /\ z[3] = e /\ z[4] = f /\ z[5] = g
    OBVIOUS
  <2> HIDE DEF x, y, z
  <2>2. x \o y \in Seq(S) /\ Len(x \o y) = 5
    <3>1. x \o y \in Seq(S) /\ Len(x \o y) = Len(x) + Len(y)
      BY <2>1, ConcatProperties, Zenon
    <3> QED BY <2>1, <3>1
  <2>3. ASSUME NEW k \in 1..5 PROVE (x \o y)[k] = z[k]
    <3>1. k \in 1..(Len(x) + Len(y))
      BY <2>1
    <3>2. (x \o y)[k] = IF k <= Len(x) THEN x[k] ELSE y[k - Len(x)]
      BY <2>1, <3>1, ConcatProperties
    <3> QED BY <2>1, <3>2
  <2>4. x \o y = z
    BY <2>1, <2>2, <2>3, SeqEqual
  <2> QED BY <2>4 DEF x, y, z
<1>5. <<Quote>> \o <<Slash, LetterC, Space, Quote>> = <<Quote, Slash, LetterC, Space, Quote>>
  <2>1. \A c, d, e, f, g \in Character : <<c>> \o <<d, e, f, g>> = <<c, d, e, f, g>>
    BY <1>4, Zenon
  <2> QED BY <1>1, <2>1
<1>6. /\ <<Quote>> \in Texts /\ <<Space, Quote>> \in Texts /\ <<Backslash, Quote>> \in Texts
      /\ <<Slash, LetterC, Space, Quote>> \in Texts
  <2>1. \A c, d, e, f \in Character :
           <<c>> \in Seq(Character) /\ <<c, d>> \in Seq(Character) /\ <<c, d, e, f>> \in Seq(Character)
    BY <1>2, Zenon
  <2>2. <<Quote>> \in Seq(Character) /\ <<Space, Quote>> \in Seq(Character)
    BY <1>1, <2>1, Zenon
  <2>3. <<Backslash, Quote>> \in Seq(Character)
    BY <1>1, <2>1, Zenon
  <2>4. <<Slash, LetterC, Space, Quote>> \in Seq(Character)
    BY <1>1, <2>1, Zenon
  <2> QED BY <2>2, <2>3, <2>4 DEF Texts
<1> QED BY <1>1, <1>3, <1>5, <1>6

\* The program begins with an empty buffer and no text.
LEMMA CmdStart == CmdInit => CmdInv
<1> SUFFICES ASSUME CmdInit PROVE CmdInv
  OBVIOUS
<1>1. cmd \in Texts /\ vargs \in Seq(Texts) \union {Null}
  BY CommandLineAssumption DEF CmdInit, Texts
<1>2. CmdTypes
  BY <1>1, TextsConcat DEF CmdInit, CmdTypes
<1>3. Filling
  BY EmptyBuffer DEF CmdInit, Filling
<1> QED BY <1>2, <1>3 DEF CmdInv

\* What is appended to the buffer is appended to the text.
LEMMA AppendChar ==
    ASSUME NEW buf, NEW txt \in Texts, Holds(buf, txt), NEW c \in Character
    PROVE  txt \o <<c>> \in Texts /\ Holds(buffer_append_char(buf, c), txt \o <<c>>)
BY CharStep, TextsConcat

\* So is a string.
LEMMA AppendStr ==
    ASSUME NEW buf, NEW txt \in Texts, Holds(buf, txt), NEW s \in Texts
    PROVE  txt \o s \in Texts /\ Holds(buffer_append_str(buf, s), txt \o s)
BY SubStep, TextsConcat DEF buffer_append_str

\* So are characters that are appended one by one.
LEMMA AppendChars ==
    ASSUME NEW buf, NEW txt \in Texts, Holds(buf, txt), NEW s \in Texts
    PROVE  txt \o s \in Texts /\ Holds(Chars(buf, s), txt \o s)
BY CharsStep, TextsConcat

\* Each step appends to the buffer what it appends to the text.
LEMMA CmdStep == CmdInv /\ [CmdNext]_cmdvars => CmdInv'
<1> SUFFICES ASSUME CmdInv, [CmdNext]_cmdvars PROVE CmdInv'
  OBVIOUS
<1>1. CmdTypes /\ Filling /\ text \in Texts /\ cmd \in Texts
  BY DEF CmdInv, CmdTypes
<1>2. CASE Raw
  <2>1. step = "begin" /\ Holds(b, << >>) /\ << >> \in Texts
    BY <1>1, <1>2, TextsConcat DEF Raw, Filling, CmdTypes
  <2> DEFINE t1 == << >> \o <<Quote>>
             t2 == t1 \o Comspec
             t3 == t2 \o <<Quote>>
             t4 == t3 \o <<Slash, LetterC, Space, Quote>>
             t5 == t4 \o cmd
             b1 == buffer_append_char(b, Quote)
             b2 == buffer_append_str(b1, Comspec)
             b3 == buffer_append_char(b2, Quote)
             b4 == buffer_append_str(b3, <<Slash, LetterC, Space, Quote>>)
             b5 == buffer_append_str(b4, cmd)
  <2>2. Comspec \in Texts
    BY CommandLineAssumption DEF Texts
  <2>3. b' = buffer_append_char(b5, Quote)
    BY <1>2 DEF Raw
  <2>4. text' = t5 \o <<Quote>>
    <3>1. <<Quote>> \o <<Slash, LetterC, Space, Quote>> = <<Quote, Slash, LetterC, Space, Quote>>
      BY Written
    <3>2. t1 = <<Quote>>
      BY TextsConcat, Written
    <3>3. t2 \in Texts
      BY <2>2, <3>2, Written, TextsConcat
    <3>4. (t2 \o <<Quote>>) \o <<Slash, LetterC, Space, Quote>>
            = t2 \o (<<Quote>> \o <<Slash, LetterC, Space, Quote>>)
      <4> DEFINE q == <<Quote>>
                 r == <<Slash, LetterC, Space, Quote>>
      <4>1. q \in Texts /\ r \in Texts
        BY Written
      <4> HIDE DEF t2, q, r
      <4>2. (t2 \o q) \o r = t2 \o (q \o r)
        BY <3>3, <4>1, TextsConcat
      <4> QED BY <4>2 DEF q, r
    <3>5. text' = ((<<Quote>> \o Comspec) \o <<Quote, Slash, LetterC, Space, Quote>>) \o cmd \o <<Quote>>
      BY <1>2 DEF Raw
    <3> QED BY <3>1, <3>2, <3>4, <3>5
  <2> HIDE DEF b1, b2, b3, b4, b5, t1, t2, t3, t4, t5
  <2>5. t1 \in Texts /\ Holds(b1, t1)
    BY <2>1, AppendChar, Written DEF b1, t1
  <2>6. t2 \in Texts /\ Holds(b2, t2)
    BY <2>2, <2>5, AppendStr DEF b2, t2
  <2>7. t3 \in Texts /\ Holds(b3, t3)
    BY <2>6, AppendChar, Written DEF b3, t3
  <2>8. t4 \in Texts /\ Holds(b4, t4)
    BY <2>7, AppendStr, Written DEF b4, t4
  <2>9. t5 \in Texts /\ Holds(b5, t5)
    BY <1>1, <2>8, AppendStr DEF b5, t5
  <2>10. text' \in Texts /\ Holds(b', text')
    BY <2>3, <2>4, <2>9, AppendChar, Written
  <2>11. CmdTypes'
    BY <1>1, <1>2, <2>10 DEF Raw, CmdTypes
  <2>12. Filling'
    BY <1>2, <2>10 DEF Raw, Filling
  <2> QED BY <2>11, <2>12 DEF CmdInv
<1>3. CASE Command
  <2>1. step = "begin" /\ Holds(b, << >>) /\ << >> \in Texts /\ vargs \in Seq(Texts)
    BY <1>1, <1>3, TextsConcat DEF Command, Filling, CmdTypes
  <2> DEFINE b1 == buffer_append_char(b, Quote)
             b2 == buffer_append_str(b1, cmd)
  <2>2. << >> \o <<Quote>> = <<Quote>>
    BY Written, TextsConcat
  <2>3. b' = buffer_append_char(b2, Quote) /\ text' = <<Quote>> \o cmd \o <<Quote>>
    BY <1>3 DEF Command
  <2> HIDE DEF b1, b2
  <2>4. <<Quote>> \in Texts /\ Holds(b1, <<Quote>>)
    BY <2>1, <2>2, AppendChar, Written DEF b1
  <2>5. <<Quote>> \o cmd \in Texts /\ Holds(b2, <<Quote>> \o cmd)
    BY <1>1, <2>4, AppendStr DEF b2
  <2>6. text' \in Texts /\ Holds(b', text')
    BY <2>3, <2>5, AppendChar, Written
  <2>7. CmdTypes'
    BY <1>1, <1>3, <2>1, <2>6 DEF Command, CmdTypes
  <2>8. Filling'
    BY <1>3, <2>6 DEF Command, Filling
  <2> QED BY <2>7, <2>8 DEF CmdInv
<1>4. CASE NextArgument
  <2>1. step = "next" /\ i <= Len(vargs) /\ Holds(b, text)
    BY <1>1, <1>4 DEF NextArgument, Filling
  <2>2. text' \in Texts /\ Holds(b', text')
    BY <1>1, <1>4, <2>1, AppendStr, Written DEF NextArgument
  <2>3. CmdTypes'
    BY <1>1, <1>4, <2>1, <2>2 DEF NextArgument, CmdTypes
  <2>4. Filling'
    BY <1>4, <2>2 DEF NextArgument, Filling
  <2> QED BY <2>3, <2>4 DEF CmdInv
<1>5. ASSUME InArgument
      PROVE  /\ step = "char" /\ Holds(b, text) /\ vargs[i][j] \in Character /\ bs_count \in Nat
             /\ Backslashes(bs_count) \in Texts /\ Backslashes(2 * bs_count) \in Texts
  <2>1. step = "char" /\ Holds(b, text) /\ bs_count \in Nat
    BY <1>1, <1>5 DEF InArgument, Filling, CmdTypes
  <2>2. vargs \in Seq(Texts) /\ i \in 1..Len(vargs)
    BY <1>1, <2>1 DEF CmdTypes
  <2>3. vargs[i] \in Seq(Character)
    BY <2>2, ElementOfSeq DEF Texts
  <2>4. j \in 1..Len(vargs[i])
    BY <1>1, <1>5, <2>3, LenProperties DEF InArgument, CmdTypes
  <2>5. vargs[i][j] \in Character
    BY <2>3, <2>4, ElementOfSeq
  <2>6. 2 * bs_count \in Nat
    BY <2>1
  <2> QED BY <2>1, <2>5, <2>6, Written
<1>6. CASE QuoteChar
  <2> DEFINE b1 == Chars(b, Backslashes(2 * bs_count))
             t1 == text \o Backslashes(2 * bs_count)
  <2>1. step = "char" /\ Holds(b, text) /\ Backslashes(2 * bs_count) \in Texts
    BY <1>5, <1>6 DEF QuoteChar
  <2>2. t1 \in Texts /\ Holds(b1, t1)
    BY <1>1, <2>1, AppendChars
  <2>3. b' = buffer_append_str(b1, <<Backslash, Quote>>) /\ text' = t1 \o <<Backslash, Quote>>
    BY <1>6 DEF QuoteChar
  <2> HIDE DEF b1, t1
  <2>4. text' \in Texts /\ Holds(b', text')
    BY <2>2, <2>3, AppendStr, Written
  <2>5. CmdTypes'
    BY <1>1, <1>6, <2>1, <2>4 DEF QuoteChar, CmdTypes
  <2>6. Filling'
    BY <1>6, <2>1, <2>4 DEF QuoteChar, Filling
  <2> QED BY <2>5, <2>6 DEF CmdInv
<1>7. CASE BackslashChar
  <2>1. CmdTypes'
    BY <1>1, <1>7 DEF BackslashChar, CmdTypes
  <2>2. Filling'
    BY <1>1, <1>7 DEF BackslashChar, Filling
  <2> QED BY <2>1, <2>2 DEF CmdInv
<1>8. CASE OtherChar
  <2> DEFINE b1 == Chars(b, Backslashes(bs_count))
             t1 == text \o Backslashes(bs_count)
  <2>1. /\ step = "char" /\ Holds(b, text) /\ Backslashes(bs_count) \in Texts
        /\ vargs[i][j] \in Character
    BY <1>5, <1>8 DEF OtherChar
  <2>2. t1 \in Texts /\ Holds(b1, t1)
    BY <1>1, <2>1, AppendChars
  <2>3. b' = buffer_append_char(b1, vargs[i][j]) /\ text' = t1 \o <<vargs[i][j]>>
    BY <1>8 DEF OtherChar
  <2> HIDE DEF b1, t1
  <2>4. text' \in Texts /\ Holds(b', text')
    BY <2>1, <2>2, <2>3, AppendChar
  <2>5. CmdTypes'
    BY <1>1, <1>8, <2>1, <2>4 DEF OtherChar, CmdTypes
  <2>6. Filling'
    BY <1>8, <2>1, <2>4 DEF OtherChar, Filling
  <2> QED BY <2>5, <2>6 DEF CmdInv
<1>9. CASE EndArgument
  <2> DEFINE b1 == Chars(b, Backslashes(2 * bs_count))
             t1 == text \o Backslashes(2 * bs_count)
  <2>1. step = "char" /\ Holds(b, text) /\ 2 * bs_count \in Nat
    BY <1>1, <1>9 DEF EndArgument, Filling, CmdTypes
  <2>2. t1 \in Texts /\ Holds(b1, t1)
    BY <1>1, <2>1, AppendChars, Written
  <2>3. b' = buffer_append_char(b1, Quote) /\ text' = t1 \o <<Quote>>
    BY <1>9 DEF EndArgument
  <2> HIDE DEF b1, t1
  <2>4. text' \in Texts /\ Holds(b', text')
    BY <2>2, <2>3, AppendChar, Written
  <2>5. CmdTypes'
    BY <1>1, <1>9, <2>1, <2>4 DEF EndArgument, CmdTypes
  <2>6. Filling'
    BY <1>9, <2>1, <2>4 DEF EndArgument, Filling
  <2> QED BY <2>5, <2>6 DEF CmdInv
<1>10. CASE Finish
  <2>1. Holds(b, text)
    BY <1>1, <1>10 DEF Finish, Filling
  <2>2. line' = text'
    BY <1>10, <2>1 DEF Finish, Holds, Carries
  <2>3. CmdTypes'
    BY <1>1, <1>10 DEF Finish, CmdTypes
  <2>4. Filling'
    BY <1>10, <2>2 DEF Finish, Filling
  <2> QED BY <2>3, <2>4 DEF CmdInv
<1>11. CASE UNCHANGED cmdvars
  BY <1>11 DEF CmdInv, CmdTypes, Filling, cmdvars
<1> QED BY <1>2, <1>3, <1>4, <1>6, <1>7, <1>8, <1>9, <1>10, <1>11 DEF CmdNext

\* The buffer holds the text until it is put together into the line.
LEMMA CmdAlways == Spec => []CmdInv
<1>1. Init => CmdInv
  BY CmdStart DEF Init
<1>2. CmdInv /\ [Next]_vars => CmdInv'
  <2> SUFFICES ASSUME CmdInv, [Next]_vars PROVE CmdInv'
    OBVIOUS
  <2>1. [CmdNext]_cmdvars
    BY DEF Next, OnUnix, OnWindows, vars
  <2> QED BY <2>1, CmdStep
<1> QED BY <1>1, <1>2, PTL DEF Spec

(***************************************************************************)
(* Whatever was appended to the pieces of the buffer is the text that they *)
(* hold, its length is right, and it is what CreateProcess is given.       *)
(***************************************************************************)
THEOREM TextIsKept == Spec => []BufferHoldsText
<1>1. CmdInv => BufferHoldsText
  <2> SUFFICES ASSUME CmdInv PROVE BufferHoldsText
    OBVIOUS
  <2>1. CASE step = "done"
    BY <2>1 DEF CmdInv, Filling, BufferHoldsText
  <2>2. CASE step # "done"
    <3>1. Carries(b, text) /\ b.totlen = Len(text)
      BY <2>2 DEF CmdInv, Filling, Holds
    <3>2. b.data \in Seq(Piece)
      BY <3>1 DEF Carries, Buffers
    <3>3. DOMAIN b.data = 1..Len(b.data)
      BY <3>2, LenProperties
    <3> QED BY <2>2, <3>1, <3>3 DEF BufferHoldsText, Carries
  <2> QED BY <2>1, <2>2
<1> QED BY <1>1, CmdAlways, PTL

-----------------------------------------------------------------------------
(* How a program takes its line apart *)

\* How far a program has come that takes its line apart.
States == [args : Seq(Texts), cur : Texts, bs : Nat, quoted : BOOLEAN, inside : BOOLEAN]

Begin == [args |-> << >>, cur |-> << >>, bs |-> 0, quoted |-> FALSE, inside |-> FALSE]

After(s) == FoldLeft(Scan, Begin, s)

\* v has the state after each character of s.
ReadsUp(v, s) ==
    /\ v[0] = Begin
    /\ \A k \in 1..Len(s) : v[k] = Scan(v[k - 1], s[k])
    /\ After(s) = v[Len(s)]

\* A state in its parts.
Is(st, args, cur, bs, quoted, inside) ==
    /\ st \in States
    /\ st.args = args /\ st.cur = cur /\ st.bs = bs
    /\ (st.quoted <=> quoted) /\ (st.inside <=> inside)

\* The characters that mean something to the reader differ.
LEMMA Distinct == Backslash # Quote /\ Backslash # Space /\ Quote # Space
BY DEF Backslash, Quote, Space

\* A backslash is counted.
LEMMA ScanBackslash ==
    ASSUME NEW st \in States
    PROVE  Is(Scan(st, Backslash), st.args, st.cur, st.bs + 1, st.quoted, TRUE)
<1>1. Scan(st, Backslash) = [st EXCEPT !.bs = @ + 1, !.inside = TRUE]
  BY Distinct DEF Scan
<1> DEFINE more == st.bs + 1
<1>2. Scan(st, Backslash) = [st EXCEPT !.bs = more, !.inside = TRUE]
  BY <1>1
<1>3. more \in Nat
  BY DEF States
<1> HIDE DEF more
<1>4. Is([st EXCEPT !.bs = more, !.inside = TRUE], st.args, st.cur, more, st.quoted, TRUE)
  BY <1>3 DEF States, Is
<1> QED BY <1>2, <1>4 DEF more

\* After an even number of backslashes, a quote opens or closes.
LEMMA ScanQuoteEven ==
    ASSUME NEW st \in States, st.bs % 2 = 0
    PROVE  Is(Scan(st, Quote), st.args, st.cur \o Backslashes(st.bs \div 2), 0, ~st.quoted, TRUE)
<1>1. st.bs \div 2 \in Nat /\ st.cur \in Texts
  BY DEF States
<1> DEFINE more == st.cur \o Backslashes(st.bs \div 2)
<1>2. more \in Texts
  BY <1>1, Written, TextsConcat
<1>3. Scan(st, Quote) = [st EXCEPT !.cur = @ \o Backslashes(st.bs \div 2), !.bs = 0,
                                   !.quoted = ~@, !.inside = TRUE]
  BY Distinct DEF Scan
<1>4. Scan(st, Quote) = [st EXCEPT !.cur = more, !.bs = 0, !.quoted = ~@, !.inside = TRUE]
  BY <1>3
<1> HIDE DEF more
<1>5. Is([st EXCEPT !.cur = more, !.bs = 0, !.quoted = ~@, !.inside = TRUE],
         st.args, more, 0, ~st.quoted, TRUE)
  BY <1>2 DEF States, Is
<1> QED BY <1>4, <1>5 DEF more

\* After an odd number of backslashes, a quote is read as itself.
LEMMA ScanQuoteOdd ==
    ASSUME NEW st \in States, st.bs % 2 = 1
    PROVE  Is(Scan(st, Quote), st.args, st.cur \o Backslashes(st.bs \div 2) \o <<Quote>>, 0,
              st.quoted, st.inside)
<1>1. st.bs \div 2 \in Nat /\ st.cur \in Texts /\ st.bs % 2 # 0
  BY DEF States
<1> DEFINE more == st.cur \o Backslashes(st.bs \div 2) \o <<Quote>>
<1>2. more \in Texts
  BY <1>1, Written, TextsConcat
<1>3. Scan(st, Quote) = [st EXCEPT !.cur = @ \o Backslashes(st.bs \div 2) \o <<Quote>>, !.bs = 0]
  BY <1>1, Distinct DEF Scan
<1>4. Scan(st, Quote) = [st EXCEPT !.cur = more, !.bs = 0]
  BY <1>3
<1> HIDE DEF more
<1>5. Is([st EXCEPT !.cur = more, !.bs = 0], st.args, more, 0, st.quoted, st.inside)
  BY <1>2 DEF States, Is
<1> QED BY <1>4, <1>5 DEF more

\* Outside of quotes, a space ends the argument that is open.
LEMMA ScanSpace ==
    ASSUME NEW st \in States, ~st.quoted
    PROVE  /\ st.inside => Is(Scan(st, Space), Append(st.args, st.cur \o Backslashes(st.bs)),
                              << >>, 0, FALSE, FALSE)
           /\ ~st.inside => Scan(st, Space) = st
<1>1. st.bs \in Nat /\ st.cur \in Texts /\ st.args \in Seq(Texts)
  BY DEF States
<1>2. st.cur \o Backslashes(st.bs) \in Texts
  BY <1>1, Written, TextsConcat
<1>3. CASE st.inside
  <2> DEFINE more == Append(st.args, st.cur \o Backslashes(st.bs))
  <2>1. Scan(st, Space) = [st EXCEPT !.args = Append(@, st.cur \o Backslashes(st.bs)),
                                     !.cur = << >>, !.bs = 0, !.inside = FALSE]
    BY <1>3, Distinct DEF Scan
  <2>2. Scan(st, Space) = [st EXCEPT !.args = more, !.cur = << >>, !.bs = 0, !.inside = FALSE]
    BY <2>1
  <2>3. more \in Seq(Texts)
    BY <1>1, <1>2, AppendProperties
  <2> HIDE DEF more
  <2>4. Is([st EXCEPT !.args = more, !.cur = << >>, !.bs = 0, !.inside = FALSE],
           more, << >>, 0, FALSE, FALSE)
    BY <2>3, TextsConcat DEF States, Is
  <2> QED BY <1>3, <2>2, <2>4 DEF more
<1>4. CASE ~st.inside
  BY <1>4, Distinct DEF Scan
<1> QED BY <1>3, <1>4

\* Another character is read as itself, and so are the backslashes before it.
LEMMA ScanOther ==
    ASSUME NEW st \in States, NEW c \in Character, c \notin {Quote, Backslash},
           c = Space => st.quoted
    PROVE  Is(Scan(st, c), st.args, st.cur \o Backslashes(st.bs) \o <<c>>, 0, st.quoted, TRUE)
<1>1. st.bs \in Nat /\ st.cur \in Texts
  BY DEF States
<1> DEFINE more == st.cur \o Backslashes(st.bs) \o <<c>>
<1>2. more \in Texts
  BY <1>1, Written, TextsConcat
<1>3. Scan(st, c) = [st EXCEPT !.cur = @ \o Backslashes(st.bs) \o <<c>>, !.bs = 0, !.inside = TRUE]
  BY Distinct DEF Scan
<1>4. Scan(st, c) = [st EXCEPT !.cur = more, !.bs = 0, !.inside = TRUE]
  BY <1>3
<1> HIDE DEF more
<1>5. Is([st EXCEPT !.cur = more, !.bs = 0, !.inside = TRUE], st.args, more, 0, st.quoted, TRUE)
  BY <1>2 DEF States, Is
<1> QED BY <1>4, <1>5 DEF more

\* Every character leads to a state.
LEMMA ScanType ==
    /\ Begin \in States
    /\ \A st \in States, c \in Character : Scan(st, c) \in States
<1>1. Begin \in States
  BY TextsConcat DEF Begin, States
<1>2. ASSUME NEW st \in States, NEW c \in Character PROVE Scan(st, c) \in States
  <2>1. st.bs \in Nat /\ st.quoted \in BOOLEAN
    BY DEF States
  <2>2. st.bs % 2 = 0 \/ st.bs % 2 = 1
    BY <2>1
  <2>3. CASE c = Backslash
    BY <2>3, ScanBackslash DEF Is
  <2>4. CASE c = Quote
    BY <2>2, <2>4, ScanQuoteEven, ScanQuoteOdd DEF Is
  <2>5. CASE c = Space /\ ~st.quoted
    BY <2>5, ScanSpace DEF Is
  <2>6. CASE c \notin {Quote, Backslash} /\ (c = Space => st.quoted)
    BY <2>6, ScanOther DEF Is
  <2> QED BY <2>3, <2>4, <2>5, <2>6
<1> QED BY <1>1, <1>2

\* The line is taken apart character by character.
LEMMA ScanFold ==
    ASSUME NEW s \in Seq(Character)
    PROVE  \E v \in [0..Len(s) -> States] : ReadsUp(v, s)
<1> DEFINE n == Len(s)
<1>1. n \in Nat /\ DOMAIN s = 1..n /\ \A k \in 1..n : s[k] \in Character
  BY LenProperties
<1> DEFINE G == [p \in (1..n) \X States |-> Scan(p[2], s[p[1]])]
           Fold(f) == f = [t \in SUBSET (1..n) |->
                              IF t = {} THEN Begin
                              ELSE Scan(f[t \ {Max(t)}], s[Max(t)])]
           iter == CHOOSE f : Fold(f)
<1>2. After(s) = iter[1..n]
  BY <1>1 DEF After, FoldLeft, MapThenFoldSet
<1> HIDE DEF n
<1>3. G \in [(1..n) \X States -> States] /\ n \in Nat /\ Begin \in States
  BY <1>1, ScanType
<1>4. ASSUME NEW k \in 1..n, NEW d \in States PROVE G[k, d] = Scan(d, s[k])
  OBVIOUS
<1> HIDE DEF G
<1>5. \E f : Fold(f)
  <2>1. PICK f \in [SUBSET (1..n) -> States] : FoldsSets(f, n, Begin, G)
    BY <1>3, FoldExists
  <2>2. ASSUME NEW t \in SUBSET (1..n), t # {}
        PROVE  f[t] = Scan(f[t \ {Max(t)}], s[Max(t)])
    <3>1. Max(t) \in 1..n /\ f[t \ {Max(t)}] \in States
      BY <1>3, <2>1, <2>2, Largest
    <3>2. f[t] = G[Max(t), f[t \ {Max(t)}]]
      BY <2>1, <2>2 DEF FoldsSets
    <3> QED BY <1>4, <3>1, <3>2
  <2>3. f[{}] = Begin
    BY <2>1 DEF FoldsSets
  <2>4. Fold(f)
    BY <2>1, <2>2, <2>3
  <2> QED BY <2>4
<1>6. Fold(iter)
  <2> HIDE DEF Fold
  <2> QED BY <1>5
<1> HIDE DEF iter
<1>7. iter[{}] = Begin
  BY <1>6
<1>8. ASSUME NEW t \in SUBSET (1..n), t # {}, iter[t \ {Max(t)}] \in States
      PROVE  iter[t] = G[Max(t), iter[t \ {Max(t)}]]
  <2>1. Max(t) \in 1..n
    BY <1>3, <1>8, Largest
  <2>2. iter[t] = Scan(iter[t \ {Max(t)}], s[Max(t)])
    BY <1>6, <1>8
  <2> QED BY <1>4, <1>8, <2>1, <2>2
<1> HIDE DEF Fold
<1>9. PICK v \in [0..n -> States] : StepsUp(v, n, Begin, G, iter[1..n])
  <2>1. FoldsWithin(iter, n, States, Begin, G)
    BY <1>7, <1>8 DEF FoldsWithin
  <2> QED BY <1>3, <2>1, FoldUnfolds
<1>10. \A k \in 1..n : v[k] = Scan(v[k - 1], s[k])
  <2> SUFFICES ASSUME NEW k \in 1..n PROVE v[k] = Scan(v[k - 1], s[k])
    OBVIOUS
  <2>1. k - 1 \in 0..n
    BY <1>3
  <2>2. v[k - 1] \in States
    BY <1>9, <2>1
  <2> QED BY <1>4, <1>9, <2>2 DEF StepsUp
<1>11. n = Len(s)
  BY DEF n
<1> QED BY <1>2, <1>9, <1>10, <1>11 DEF StepsUp, ReadsUp

\* After one character more, the state is the one that it leads to.
LEMMA AfterAppend ==
    ASSUME NEW s \in Texts
    PROVE  /\ After(s) \in States
           /\ \A c \in Character : After(s \o <<c>>) = Scan(After(s), c)
<1> DEFINE n == Len(s)
<1>1. n \in Nat /\ s \in Seq(Character)
  BY LenProperties DEF Texts
<1>2. PICK v \in [0..n -> States] : ReadsUp(v, s)
  BY <1>1, ScanFold
<1>3. After(s) \in States
  <2>1. n \in 0..n
    BY <1>1
  <2> QED BY <1>2, <2>1 DEF ReadsUp
<1>4. ASSUME NEW c \in Character PROVE After(s \o <<c>>) = Scan(After(s), c)
  <2> DEFINE more == s \o <<c>>
  <2>1. /\ more \in Seq(Character) /\ Len(more) = n + 1
        /\ \A k \in 1..n : more[k] = s[k]
        /\ more[n + 1] = c
    <3>1. more = Append(s, c)
      BY <1>1, AppendIsConcat
    <3> HIDE DEF more
    <3> QED BY <1>1, <3>1, AppendProperties
  <2> HIDE DEF more
  <2>2. PICK w \in [0..(n + 1) -> States] : ReadsUp(w, more)
    BY <2>1, ScanFold
  <2> HIDE DEF n
  <2> DEFINE P == {k \in 0..n : w[k] = v[k]}
  <2>3. 0 \in P
    BY <1>1, <1>2, <2>2 DEF ReadsUp
  <2>4. ASSUME NEW k \in 0..(n - 1), k \in P PROVE k + 1 \in P
    <3>1. k + 1 \in 1..n /\ k + 1 \in 1..(n + 1) /\ k + 1 \in 0..n /\ (k + 1) - 1 = k
      BY <1>1
    <3>2. v[k + 1] = Scan(v[k], s[k + 1])
      BY <1>2, <3>1 DEF ReadsUp, n
    <3>3. w[k + 1] = Scan(w[k], more[k + 1])
      BY <2>1, <2>2, <3>1 DEF ReadsUp
    <3>4. w[k] = v[k]
      BY <2>4
    <3> QED BY <2>1, <3>1, <3>2, <3>3, <3>4
  <2>5. n \in P
    <3>1. n \in 0..n
      BY <1>1
    <3> HIDE DEF P
    <3> QED BY <1>1, <2>3, <2>4, <3>1, CountsUp
  <2>6. n + 1 \in 1..(n + 1) /\ (n + 1) - 1 = n
    BY <1>1
  <2>7. w[n + 1] = Scan(w[n], c)
    BY <2>1, <2>2, <2>6 DEF ReadsUp
  <2>8. After(more) = w[n + 1] /\ After(s) = v[n]
    BY <1>2, <2>1, <2>2 DEF ReadsUp, n
  <2> QED BY <2>5, <2>7, <2>8 DEF more
<1> QED BY <1>3, <1>4

\* Nothing has been read at first.
LEMMA AfterNothing == After(<< >>) = Begin
<1>1. << >> \in Seq(Character) /\ Len(<< >>) = 0
  OBVIOUS
<1>2. PICK v \in [0..Len(<< >>) -> States] : ReadsUp(v, << >>)
  BY <1>1, ScanFold
<1> QED BY <1>1, <1>2 DEF ReadsUp

\* One backslash more.
LEMMA OneMore ==
    ASSUME NEW m \in Nat
    PROVE  Backslashes(m + 1) = Backslashes(m) \o <<Backslash>> /\ Backslashes(0) = << >>
<1> DEFINE x == Backslashes(m)
           y == <<Backslash>>
           z == Backslashes(m + 1)
<1>1. x \in Seq(Character) /\ Len(x) = m /\ \A k \in 1..m : x[k] = Backslash
  BY Written DEF Backslashes, Texts
<1>2. m + 1 \in Nat
  OBVIOUS
<1>3. z \in Seq(Character) /\ Len(z) = m + 1 /\ \A k \in 1..(m + 1) : z[k] = Backslash
  BY <1>2, Written DEF Backslashes, Texts
<1>4. y \in Seq(Character) /\ Len(y) = 1 /\ y[1] = Backslash
  BY Written
<1>5. Backslashes(0) = << >>
  BY DEF Backslashes
<1> HIDE DEF x, y, z
<1>6. x \o y \in Seq(Character) /\ Len(x \o y) = m + 1
  <2>1. x \o y \in Seq(Character) /\ Len(x \o y) = Len(x) + Len(y)
    BY <1>1, <1>4, ConcatProperties, Zenon
  <2> QED BY <1>1, <1>4, <2>1
<1>7. ASSUME NEW k \in 1..(m + 1) PROVE (x \o y)[k] = z[k]
  <2>1. k \in 1..(Len(x) + Len(y))
    BY <1>1, <1>4
  <2>2. (x \o y)[k] = IF k <= Len(x) THEN x[k] ELSE y[k - Len(x)]
    BY <1>1, <1>4, <2>1, ConcatProperties
  <2>3. CASE k <= m
    <3>1. k \in 1..m
      BY <2>3
    <3> QED BY <1>1, <1>3, <2>2, <3>1
  <2>4. CASE ~(k <= m)
    <3>1. k - Len(x) = 1
      BY <1>1, <2>4
    <3> QED BY <1>1, <1>3, <1>4, <2>2, <2>4, <3>1
  <2> QED BY <2>3, <2>4
<1>8. x \o y = z
  BY <1>3, <1>6, <1>7, SeqEqual
<1> QED BY <1>5, <1>8 DEF x, y, z

\* Backslashes are counted.
LEMMA AfterBackslashes ==
    ASSUME NEW s \in Texts, NEW m \in Nat, After(s).inside
    PROVE  Is(After(s \o Backslashes(m)), After(s).args, After(s).cur, After(s).bs + m,
              After(s).quoted, TRUE)
<1> DEFINE Good(k) == Is(After(s \o Backslashes(k)), After(s).args, After(s).cur,
                         After(s).bs + k, After(s).quoted, TRUE)
           P == {k \in 0..m : Good(k)}
<1>1. After(s) \in States /\ After(s).bs \in Nat
  BY AfterAppend DEF States
<1>2. 0 \in P
  <2>1. s \o Backslashes(0) = s
    BY OneMore, TextsConcat
  <2>2. Is(After(s), After(s).args, After(s).cur, After(s).bs + 0, After(s).quoted, TRUE)
    BY <1>1 DEF Is
  <2>3. Good(0)
    BY <2>1, <2>2
  <2>4. 0 \in 0..m
    OBVIOUS
  <2> HIDE DEF Good
  <2> QED BY <2>3, <2>4
<1>3. ASSUME NEW k \in 0..(m - 1), k \in P PROVE k + 1 \in P
  <2> DEFINE t == s \o Backslashes(k)
  <2>1. k \in Nat /\ k + 1 \in 0..m
    OBVIOUS
  <2>2. Backslashes(k) \in Texts /\ <<Backslash>> \in Texts /\ Backslash \in Character
    BY <2>1, Written, TextsConcat
  <2>3. s \o Backslashes(k + 1) = t \o <<Backslash>>
    <3>1. Backslashes(k + 1) = Backslashes(k) \o <<Backslash>>
      BY <2>1, OneMore
    <3>2. (s \o Backslashes(k)) \o <<Backslash>> = s \o (Backslashes(k) \o <<Backslash>>)
      BY <2>2, TextsConcat
    <3> QED BY <3>1, <3>2, Zenon
  <2>4. t \in Texts
    BY <2>2, TextsConcat
  <2>5. Is(After(t), After(s).args, After(s).cur, After(s).bs + k, After(s).quoted, TRUE)
    BY <1>3
  <2> HIDE DEF t
  <2>6. After(t \o <<Backslash>>) = Scan(After(t), Backslash)
    BY <2>2, <2>4, AfterAppend
  <2>7. Is(Scan(After(t), Backslash), After(t).args, After(t).cur, After(t).bs + 1, After(t).quoted, TRUE)
    BY <2>5, ScanBackslash DEF Is
  <2>8. After(t).bs + 1 = After(s).bs + (k + 1)
    BY <1>1, <2>1, <2>5 DEF Is
  <2>9. Is(After(t \o <<Backslash>>), After(s).args, After(s).cur, After(s).bs + (k + 1),
           After(s).quoted, TRUE)
    BY <2>5, <2>6, <2>7, <2>8 DEF Is
  <2>10. Good(k + 1)
    BY <2>3, <2>9
  <2> HIDE DEF Good
  <2> QED BY <2>1, <2>10
<1>4. m \in P
  <2>1. m \in 0..m
    OBVIOUS
  <2> HIDE DEF P
  <2> QED BY <1>2, <1>3, <2>1, CountsUp
<1> QED BY <1>4

-----------------------------------------------------------------------------
(* What is written is read as it was meant *)

(***************************************************************************)
(* What a program has read of the line: the arguments before the i-th,     *)
(* the last of them perhaps still open, or the first j - 1 characters of   *)
(* the i-th, where backslashes at the end are not written yet.             *)
(***************************************************************************)
Name == <<Quote>> \o cmd \o <<Quote>>

Between(st) ==
    /\ st.bs = 0 /\ ~st.quoted /\ i <= Len(vargs) + 1
    /\ st.inside => i > 1 /\ st.args = SubSeq(vargs, 1, i - 2) /\ st.cur = vargs[i - 1]
    /\ ~st.inside => i = 1 /\ st.args = << >> /\ st.cur = << >>

Within(st) ==
    /\ st.bs = 0 /\ st.quoted /\ st.inside
    /\ st.args = SubSeq(vargs, 1, i - 1)
    /\ j <= Len(vargs[i]) + 1
    /\ st.cur \o Backslashes(bs_count) = SubSeq(vargs[i], 1, j - 1)

ReadSoFar ==
    /\ step = "begin" => i = 1
    /\ step = "end" => vargs = Null
    /\ step = "next" => \E t \in Texts : text = Name \o t /\ Between(After(t))
    /\ step = "char" => \E t \in Texts : text = Name \o t /\ Within(After(t))
    /\ step = "done" /\ vargs # Null =>
          \E t \in Texts : text = Name \o t /\ After(t \o <<Space>>).args = vargs

\* Nothing has been written at first.
LEMMA ReadSoFarStart == CmdInit => ReadSoFar
BY DEF CmdInit, ReadSoFar

\* Two characters, one after the other.
LEMMA Pairs ==
    ASSUME NEW c \in Character, NEW d \in Character
    PROVE  <<c>> \o <<d>> = <<c, d>> /\ <<c, d>> \in Texts
<1> DEFINE x == <<c>>
           y == <<d>>
           z == <<c, d>>
<1>1. /\ x \in Seq(Character) /\ Len(x) = 1 /\ x[1] = c
      /\ y \in Seq(Character) /\ Len(y) = 1 /\ y[1] = d
      /\ z \in Seq(Character) /\ Len(z) = 2 /\ z[1] = c /\ z[2] = d
  OBVIOUS
<1> HIDE DEF x, y, z
<1>2. x \o y \in Seq(Character) /\ Len(x \o y) = 2
  <2>1. x \o y \in Seq(Character) /\ Len(x \o y) = Len(x) + Len(y)
    BY <1>1, ConcatProperties, Zenon
  <2> QED BY <1>1, <2>1
<1>3. ASSUME NEW k \in 1..2 PROVE (x \o y)[k] = z[k]
  <2>1. k \in 1..(Len(x) + Len(y))
    BY <1>1
  <2>2. (x \o y)[k] = IF k <= Len(x) THEN x[k] ELSE y[k - Len(x)]
    BY <1>1, <2>1, ConcatProperties
  <2> QED BY <1>1, <2>2
<1>4. x \o y = z
  BY <1>1, <1>2, <1>3, SeqEqual
<1> QED BY <1>1, <1>4 DEF x, y, z, Texts

\* Where the parentheses stand in three texts does not matter.
Associates(x, y, z) == (x \o y) \o z = x \o (y \o z)

\* Texts can be put together in any order.
LEMMA Associative == \A x, y, z \in Texts : Associates(x, y, z)
BY TextsConcat, Zenon DEF Associates

\* A space between the arguments ends the one that is open.
LEMMA SpaceEnds ==
    ASSUME CmdTypes, vargs \in Seq(Texts), NEW t \in Texts, Between(After(t))
    PROVE  Is(After(t \o <<Space>>), SubSeq(vargs, 1, i - 1), << >>, 0, FALSE, FALSE)
<1> DEFINE st == After(t)
<1>1. st \in States /\ After(t \o <<Space>>) = Scan(st, Space)
  BY AfterAppend, Written
<1> HIDE DEF st
<1>2. Between(st)
  BY DEF st
<1>3. i \in Nat \ {0} /\ Len(vargs) \in Nat
  BY LenProperties DEF CmdTypes
<1>4. CASE st.inside
  <2>1. i - 1 \in 1..Len(vargs) /\ (i - 1) - 1 = i - 2
    BY <1>2, <1>3, <1>4 DEF Between
  <2>2. vargs[i - 1] \in Texts
    BY <2>1, ElementOfSeq
  <2>3. st.cur \o Backslashes(st.bs) = vargs[i - 1]
    <3>1. st.cur = vargs[i - 1] /\ st.bs = 0
      BY <1>2, <1>4 DEF Between
    <3>2. Backslashes(0) = << >>
      BY OneMore
    <3>3. vargs[i - 1] \o << >> = vargs[i - 1]
      BY <2>2, TextsConcat
    <3> QED BY <3>1, <3>2, <3>3
  <2>4. Is(Scan(st, Space), Append(st.args, vargs[i - 1]), << >>, 0, FALSE, FALSE)
    BY <1>1, <1>2, <1>4, <2>3, ScanSpace DEF Between
  <2>5. Append(st.args, vargs[i - 1]) = SubSeq(vargs, 1, i - 1)
    <3>1. SubSeq(vargs, 1, i - 1) = SubSeq(vargs, 1, (i - 1) - 1) \o <<vargs[i - 1]>>
      BY <1>3, <2>1, SubSeqRecursiveSecond
    <3>2. st.args \in Seq(Texts) /\ st.args = SubSeq(vargs, 1, i - 2)
      BY <1>1, <1>2, <1>4 DEF Between, States
    <3>3. Append(st.args, vargs[i - 1]) = st.args \o <<vargs[i - 1]>>
      BY <2>2, <3>2, AppendIsConcat
    <3> QED BY <2>1, <3>1, <3>2, <3>3
  <2> QED BY <1>1, <2>4, <2>5
<1>5. CASE ~st.inside
  <2>1. Scan(st, Space) = st
    BY <1>1, <1>2, <1>5, ScanSpace DEF Between
  <2>2. SubSeq(vargs, 1, i - 1) = << >>
    BY <1>2, <1>5, SubSeqEmpty DEF Between
  <2> QED BY <1>1, <1>2, <1>5, <2>1, <2>2 DEF Between, Is
<1> QED BY <1>4, <1>5

\* The quote that follows it begins the next one.
LEMMA QuoteBegins ==
    ASSUME CmdTypes, vargs \in Seq(Texts), NEW t \in Texts, Between(After(t))
    PROVE  /\ t \o <<Space, Quote>> \in Texts
           /\ Is(After(t \o <<Space, Quote>>), SubSeq(vargs, 1, i - 1), << >>, 0, TRUE, TRUE)
<1> DEFINE t1 == t \o <<Space>>
           st == After(t1)
<1>1. Is(st, SubSeq(vargs, 1, i - 1), << >>, 0, FALSE, FALSE)
  BY SpaceEnds
<1>2. t1 \in Texts
  BY Written, TextsConcat
<1>3. t \o <<Space, Quote>> = t1 \o <<Quote>>
  <2>1. <<Space>> \in Texts /\ <<Quote>> \in Texts
    BY Written, TextsConcat
  <2>2. Associates(t, <<Space>>, <<Quote>>)
    BY <2>1, Associative, Zenon
  <2>3. <<Space>> \o <<Quote>> = <<Space, Quote>>
    BY Pairs, Written
  <2> QED BY <2>2, <2>3, Zenon DEF Associates
<1> HIDE DEF t1
<1>4. After(t1 \o <<Quote>>) = Scan(st, Quote) /\ st \in States
  BY <1>2, AfterAppend, Written
<1> HIDE DEF st
<1>5. st.bs % 2 = 0 /\ st.bs \div 2 = 0
  BY <1>1 DEF Is
<1>6. Is(Scan(st, Quote), st.args, st.cur \o Backslashes(0), 0, ~st.quoted, TRUE)
  BY <1>4, <1>5, ScanQuoteEven
<1>7. st.cur \o Backslashes(0) = << >>
  BY <1>1, OneMore, TextsConcat DEF Is
<1>8. Is(Scan(st, Quote), SubSeq(vargs, 1, i - 1), << >>, 0, TRUE, TRUE)
  BY <1>1, <1>6, <1>7 DEF Is
<1>9. t1 \o <<Quote>> \in Texts
  BY <1>2, Written, TextsConcat
<1> QED BY <1>3, <1>4, <1>8, <1>9

\* A quote in an argument is escaped, after as many backslashes as there were.
LEMMA QuoteStays ==
    ASSUME NEW t \in Texts, NEW m \in Nat, After(t).bs = 0, After(t).quoted, After(t).inside
    PROVE  LET more == (t \o Backslashes(2 * m)) \o <<Backslash, Quote>>
           IN  /\ more \in Texts
               /\ Is(After(more), After(t).args, After(t).cur \o Backslashes(m) \o <<Quote>>, 0,
                     TRUE, TRUE)
<1> DEFINE st == After(t)
           t1 == t \o Backslashes(2 * m)
           t2 == t1 \o <<Backslash>>
           t3 == t2 \o <<Quote>>
<1>1. 2 * m \in Nat /\ 2 * m + 1 \in Nat /\ (2 * m + 1) % 2 = 1 /\ (2 * m + 1) \div 2 = m
  OBVIOUS
<1>2. t1 \in Texts /\ t2 \in Texts /\ t3 \in Texts
  BY <1>1, Written, TextsConcat
<1>3. t1 \o <<Backslash, Quote>> = t3
  <2>1. <<Backslash>> \in Texts /\ <<Quote>> \in Texts
    BY Written, TextsConcat
  <2>2. Associates(t1, <<Backslash>>, <<Quote>>)
    BY <1>2, <2>1, Associative, Zenon
  <2>3. <<Backslash>> \o <<Quote>> = <<Backslash, Quote>>
    BY Pairs, Written
  <2> QED BY <2>2, <2>3, Zenon DEF Associates
<1>4. Is(After(t1), st.args, st.cur, 2 * m, TRUE, TRUE)
  <2>1. Is(After(t1), st.args, st.cur, st.bs + 2 * m, st.quoted, TRUE)
    BY <1>1, AfterBackslashes
  <2>2. st.bs + 2 * m = 2 * m
    BY <1>1
  <2> QED BY <2>1, <2>2 DEF Is
<1> HIDE DEF st, t1
<1>5. Is(After(t2), st.args, st.cur, 2 * m + 1, TRUE, TRUE)
  <2>1. After(t2) = Scan(After(t1), Backslash)
    BY <1>2, AfterAppend, Written
  <2>2. Is(Scan(After(t1), Backslash), After(t1).args, After(t1).cur, After(t1).bs + 1,
           After(t1).quoted, TRUE)
    BY <1>4, ScanBackslash DEF Is
  <2> QED BY <1>4, <2>1, <2>2 DEF Is
<1> HIDE DEF t2
<1>6. Is(After(t3), st.args, st.cur \o Backslashes(m) \o <<Quote>>, 0, TRUE, TRUE)
  <2>1. After(t3) = Scan(After(t2), Quote) /\ After(t2) \in States
    BY <1>2, AfterAppend, Written
  <2>2. After(t2).bs % 2 = 1 /\ After(t2).bs \div 2 = m
    BY <1>1, <1>5 DEF Is
  <2>3. Is(Scan(After(t2), Quote), After(t2).args, After(t2).cur \o Backslashes(m) \o <<Quote>>, 0,
           After(t2).quoted, After(t2).inside)
    BY <2>1, <2>2, ScanQuoteOdd
  <2> QED BY <1>5, <2>1, <2>3 DEF Is
<1> QED BY <1>2, <1>3, <1>6 DEF t1, st

\* Another character follows the backslashes as they are.
LEMMA OtherStays ==
    ASSUME NEW t \in Texts, NEW m \in Nat, After(t).bs = 0, After(t).quoted, After(t).inside,
           NEW c \in Character, c \notin {Quote, Backslash}
    PROVE  LET more == (t \o Backslashes(m)) \o <<c>>
           IN  /\ more \in Texts
               /\ Is(After(more), After(t).args, After(t).cur \o Backslashes(m) \o <<c>>, 0,
                     TRUE, TRUE)
<1> DEFINE st == After(t)
           t1 == t \o Backslashes(m)
<1>1. t1 \in Texts /\ t1 \o <<c>> \in Texts
  BY Written, TextsConcat
<1>2. Is(After(t1), st.args, st.cur, m, TRUE, TRUE)
  <2>1. Is(After(t1), st.args, st.cur, st.bs + m, st.quoted, TRUE)
    BY AfterBackslashes
  <2>2. st.bs + m = m
    OBVIOUS
  <2> QED BY <2>1, <2>2 DEF Is
<1> HIDE DEF st, t1
<1>3. After(t1 \o <<c>>) = Scan(After(t1), c) /\ After(t1) \in States
  BY <1>1, AfterAppend
<1>4. Is(Scan(After(t1), c), After(t1).args, After(t1).cur \o Backslashes(After(t1).bs) \o <<c>>, 0,
         After(t1).quoted, TRUE)
  BY <1>2, <1>3, ScanOther DEF Is
<1>5. Is(After(t1 \o <<c>>), st.args, st.cur \o Backslashes(m) \o <<c>>, 0, TRUE, TRUE)
  BY <1>2, <1>3, <1>4 DEF Is
<1> QED BY <1>1, <1>5 DEF t1, st

\* The quote that ends an argument is not escaped by the backslashes before it.
LEMMA QuoteEnds ==
    ASSUME NEW t \in Texts, NEW m \in Nat, After(t).bs = 0, After(t).quoted, After(t).inside
    PROVE  LET more == (t \o Backslashes(2 * m)) \o <<Quote>>
           IN  /\ more \in Texts
               /\ Is(After(more), After(t).args, After(t).cur \o Backslashes(m), 0, FALSE, TRUE)
<1> DEFINE st == After(t)
           t1 == t \o Backslashes(2 * m)
<1>1. 2 * m \in Nat /\ (2 * m) % 2 = 0 /\ (2 * m) \div 2 = m
  OBVIOUS
<1>2. t1 \in Texts /\ t1 \o <<Quote>> \in Texts
  BY <1>1, Written, TextsConcat
<1>3. Is(After(t1), st.args, st.cur, 2 * m, TRUE, TRUE)
  <2>1. Is(After(t1), st.args, st.cur, st.bs + 2 * m, st.quoted, TRUE)
    BY <1>1, AfterBackslashes
  <2>2. st.bs + 2 * m = 2 * m
    BY <1>1
  <2> QED BY <2>1, <2>2 DEF Is
<1> HIDE DEF st, t1
<1>4. After(t1 \o <<Quote>>) = Scan(After(t1), Quote) /\ After(t1) \in States
  BY <1>2, AfterAppend, Written
<1>5. After(t1).bs % 2 = 0 /\ After(t1).bs \div 2 = m
  BY <1>1, <1>3 DEF Is
<1>6. Is(Scan(After(t1), Quote), After(t1).args, After(t1).cur \o Backslashes(m), 0,
         ~After(t1).quoted, TRUE)
  BY <1>4, <1>5, ScanQuoteEven
<1>7. Is(After(t1 \o <<Quote>>), st.args, st.cur \o Backslashes(m), 0, FALSE, TRUE)
  BY <1>3, <1>4, <1>6 DEF Is
<1> QED BY <1>2, <1>7 DEF t1, st

\* What is appended to the line is appended to what the program reads of it.
Regrouped(n, t, x, y) == (n \o t) \o x \o y = n \o ((t \o x) \o y)

\* Two texts are appended to the rest of the line.
LEMMA Regroup == \A n, t, x, y \in Texts : Regrouped(n, t, x, y)
<1> SUFFICES ASSUME NEW n \in Texts, NEW t \in Texts, NEW x \in Texts, NEW y \in Texts
             PROVE  Regrouped(n, t, x, y)
  OBVIOUS
<1>1. Associates(n, t, x)
  BY Associative, Zenon
<1>2. t \o x \in Texts
  BY TextsConcat, Zenon
<1>3. Associates(n, t \o x, y)
  BY <1>2, Associative, Zenon
<1> QED BY <1>1, <1>3, Zenon DEF Associates, Regrouped

\* One character of the argument more has been read.
LEMMA StillWithin ==
    ASSUME NEW st, NEW args, NEW cur, NEW c,
           bs_count \in Nat, j \in Nat \ {0},
           Is(st, args, cur \o Backslashes(bs_count) \o <<c>>, 0, TRUE, TRUE),
           args = SubSeq(vargs, 1, i - 1),
           cur \o Backslashes(bs_count) = SubSeq(vargs[i], 1, j - 1),
           SubSeq(vargs[i], 1, j) = SubSeq(vargs[i], 1, j - 1) \o <<c>>,
           j \in 1..Len(vargs[i]), vargs[i] \in Texts,
           bs_count' = 0, j' = j + 1, i' = i, vargs' = vargs
    PROVE  Within(st)'
<1>1. st.cur = SubSeq(vargs[i], 1, j) /\ st.bs = 0 /\ st.quoted /\ st.inside
      /\ st.args = SubSeq(vargs, 1, i - 1) /\ st.cur \in Texts
  BY DEF Is, States
<1>2. st.cur \o Backslashes(0) = st.cur
  BY <1>1, OneMore, TextsConcat
<1>3. j + 1 <= Len(vargs[i]) + 1 /\ (j + 1) - 1 = j
  BY TextsConcat
<1> QED BY <1>1, <1>2, <1>3 DEF Within

\* Each step writes what makes the program read so far, after the name.
LEMMA ReadSoFarStep == CmdTypes /\ ReadSoFar /\ [CmdNext]_cmdvars => ReadSoFar'
<1> SUFFICES ASSUME CmdTypes, ReadSoFar, [CmdNext]_cmdvars PROVE ReadSoFar'
  OBVIOUS
<1>1. /\ cmd \in Texts /\ text \in Texts /\ bs_count \in Nat /\ i \in Nat \ {0} /\ j \in Nat \ {0}
      /\ step \in {"next", "char"} => vargs \in Seq(Texts)
      /\ step = "char" => i <= Len(vargs)
  BY DEF CmdTypes
<1>2. Name \in Texts
  BY <1>1, Written, TextsConcat DEF Name
<1>3. CASE Raw
  BY <1>3 DEF Raw, ReadSoFar
<1>4. CASE Command
  <2>1. text' = Name /\ step' = "next" /\ Name' = Name /\ i' = 1 /\ vargs' = vargs
    BY <1>4 DEF Command, Name, ReadSoFar
  <2>2. Name \o << >> = Name /\ << >> \in Texts
    BY <1>2, TextsConcat
  <2>3. vargs \in Seq(Texts)
    BY <1>4 DEF Command, CmdTypes
  <2>4. Between(After(<< >>))'
    <3>1. Len(vargs) \in Nat
      BY <2>3, LenProperties
    <3> QED BY <2>1, <3>1, AfterNothing DEF Between, Begin
  <2>5. \E t \in Texts : text' = Name' \o t /\ Between(After(t))'
    BY <2>1, <2>2, <2>4
  <2> QED BY <2>1, <2>5 DEF ReadSoFar
<1>5. CASE NextArgument
  <2>1. step = "next" /\ i <= Len(vargs) /\ vargs \in Seq(Texts)
    BY <1>1, <1>5 DEF NextArgument
  <2>2. PICK t \in Texts : text = Name \o t /\ Between(After(t))
    BY <2>1 DEF ReadSoFar
  <2>0. PICK more : more = t \o <<Space, Quote>>
    OBVIOUS
  <2>3. /\ more \in Texts
        /\ Is(After(more), SubSeq(vargs, 1, i - 1), << >>, 0, TRUE, TRUE)
    BY <2>0, <2>1, <2>2, QuoteBegins
  <2>4. /\ text' = text \o <<Space, Quote>> /\ step' = "char" /\ j' = 1 /\ bs_count' = 0
        /\ Name' = Name /\ vargs' = vargs /\ i' = i
    BY <1>5 DEF NextArgument, Name
  <2>5. text' = Name' \o more
    <3>1. <<Space, Quote>> \in Texts
      BY Written
    <3>2. (Name \o t) \o <<Space, Quote>> = Name \o (t \o <<Space, Quote>>)
      BY <1>2, <3>1, TextsConcat, Zenon
    <3> QED BY <2>0, <2>2, <2>4, <3>2, Zenon
  <2>6. Within(After(more))'
    <3>1. vargs[i] \in Texts
      BY <1>1, <2>1, ElementOfSeq
    <3>2. Len(vargs[i]) \in Nat /\ SubSeq(vargs[i], 1, 0) = << >>
      BY <3>1, TextsConcat, SubSeqEmpty
    <3>3. << >> \o Backslashes(0) = << >>
      BY OneMore, TextsConcat
    <3>4. /\ After(more).bs = 0 /\ After(more).quoted /\ After(more).inside
          /\ After(more).args = SubSeq(vargs, 1, i - 1) /\ After(more).cur = << >>
      BY <2>3 DEF Is
    <3>5. 1 <= Len(vargs[i]) + 1 /\ 1 - 1 = 0
      BY <3>2
    <3> QED BY <2>4, <3>2, <3>3, <3>4, <3>5 DEF Within
  <2>7. \E u \in Texts : text' = Name' \o u /\ Within(After(u))'
    BY <2>3, <2>5, <2>6
  <2> QED BY <2>4, <2>7 DEF ReadSoFar
<1>6. ASSUME InArgument
      PROVE  /\ step = "char" /\ vargs \in Seq(Texts) /\ vargs[i] \in Texts
             /\ j \in 1..Len(vargs[i]) /\ vargs[i][j] \in Character
             /\ SubSeq(vargs[i], 1, j - 1) \in Texts
             /\ SubSeq(vargs[i], 1, j) = SubSeq(vargs[i], 1, j - 1) \o <<vargs[i][j]>>
  <2>1. step = "char" /\ vargs \in Seq(Texts) /\ i \in 1..Len(vargs)
    BY <1>1, <1>6 DEF InArgument
  <2>2. vargs[i] \in Texts
    BY <2>1, ElementOfSeq
  <2> DEFINE arg == vargs[i]
  <2>3. arg \in Seq(Character)
    BY <2>2 DEF Texts
  <2>4. j \in 1..Len(arg)
    BY <1>1, <1>6, <2>3, LenProperties DEF InArgument
  <2> HIDE DEF arg
  <2>5. arg[j] \in Character
    BY <2>3, <2>4, ElementOfSeq
  <2>6. SubSeq(arg, 1, j - 1) \in Seq(Character)
    <3>1. j - 1 \in Int /\ \A k \in 1..(j - 1) : k \in 1..Len(arg)
      BY <2>3, <2>4, LenProperties
    <3>2. \A k \in 1..(j - 1) : arg[k] \in Character
      BY <2>3, <3>1, ElementOfSeq
    <3> QED BY <3>1, <3>2, SubSeqProperties
  <2>7. SubSeq(arg, 1, j) = SubSeq(arg, 1, j - 1) \o <<arg[j]>>
    <3>1. 1 \in 1..Len(arg) /\ j \in 1..Len(arg)
      BY <2>4
    <3> QED BY <2>3, <3>1, SubSeqRecursiveSecond
  <2> QED BY <2>1, <2>2, <2>4, <2>5, <2>6, <2>7 DEF arg, Texts
<1>7. ASSUME step = "char"
      PROVE  \E t \in Texts : /\ text = Name \o t /\ Within(After(t))
                              /\ After(t) \in States /\ After(t).cur \in Texts
                              /\ After(t).bs = 0 /\ After(t).quoted /\ After(t).inside
  <2>1. PICK t \in Texts : text = Name \o t /\ Within(After(t))
    BY <1>7 DEF ReadSoFar
  <2>2. After(t) \in States
    BY AfterAppend
  <2> QED BY <2>1, <2>2 DEF Within, States
<1>8. CASE QuoteChar
  <2>1. InArgument /\ vargs[i][j] = Quote
    BY <1>8 DEF QuoteChar
  <2>2. PICK t \in Texts : /\ text = Name \o t /\ Within(After(t))
                           /\ After(t) \in States /\ After(t).cur \in Texts
                           /\ After(t).bs = 0 /\ After(t).quoted /\ After(t).inside
    BY <1>6, <1>7, <2>1
  <2>0. PICK more : more = (t \o Backslashes(2 * bs_count)) \o <<Backslash, Quote>>
    OBVIOUS
  <2>3. /\ more \in Texts
        /\ Is(After(more), After(t).args, After(t).cur \o Backslashes(bs_count) \o <<Quote>>, 0,
              TRUE, TRUE)
    BY <1>1, <2>0, <2>2, QuoteStays
  <2>4. /\ text' = text \o Backslashes(2 * bs_count) \o <<Backslash, Quote>>
        /\ bs_count' = 0 /\ j' = j + 1 /\ step' = step /\ i' = i /\ vargs' = vargs /\ Name' = Name
    BY <1>8 DEF QuoteChar, Name
  <2>5. text' = Name' \o more
    <3>1. Backslashes(2 * bs_count) \in Texts /\ <<Backslash, Quote>> \in Texts
      BY <1>1, Written
    <3>2. PICK x \in Texts, y \in Texts : x = Backslashes(2 * bs_count) /\ y = <<Backslash, Quote>>
      BY <3>1
    <3>3. (Name \o t) \o x \o y = Name \o ((t \o x) \o y)
      <4>1. PICK nm \in Texts : nm = Name
        BY <1>2
      <4>2. nm \in Texts /\ t \in Texts /\ x \in Texts /\ y \in Texts
        BY <2>2, <3>2, <4>1
      <4>3. Regrouped(nm, t, x, y)
        BY <4>2, Regroup, Zenon
      <4> QED BY <4>1, <4>3, Zenon DEF Regrouped
    <3>4. text' = (Name \o t) \o x \o y /\ more = (t \o x) \o y
      BY <2>0, <2>2, <2>4, <3>2
    <3> QED BY <2>4, <3>3, <3>4
  <2>6. Within(After(more))'
    <3>1. /\ After(t).args = SubSeq(vargs, 1, i - 1)
          /\ After(t).cur \o Backslashes(bs_count) = SubSeq(vargs[i], 1, j - 1)
          /\ SubSeq(vargs[i], 1, j) = SubSeq(vargs[i], 1, j - 1) \o <<Quote>>
          /\ j \in 1..Len(vargs[i]) /\ vargs[i] \in Texts
      BY <1>6, <2>1, <2>2 DEF Within
    <3> QED BY <1>1, <2>3, <2>4, <3>1, StillWithin
  <2>7. \E u \in Texts : text' = Name' \o u /\ Within(After(u))'
    BY <2>3, <2>5, <2>6
  <2> QED BY <1>6, <2>1, <2>4, <2>7 DEF ReadSoFar
<1>9. CASE BackslashChar
  <2>1. InArgument /\ vargs[i][j] = Backslash
    BY <1>9 DEF BackslashChar
  <2>2. PICK t \in Texts : /\ text = Name \o t /\ Within(After(t))
                           /\ After(t) \in States /\ After(t).cur \in Texts
                           /\ After(t).bs = 0 /\ After(t).quoted /\ After(t).inside
    BY <1>6, <1>7, <2>1
  <2>3. /\ text' = text /\ bs_count' = bs_count + 1 /\ j' = j + 1 /\ step' = step /\ i' = i
        /\ vargs' = vargs /\ Name' = Name
    BY <1>9 DEF BackslashChar, Name
  <2>4. After(t).cur \o Backslashes(bs_count + 1) = SubSeq(vargs[i], 1, j)
    <3>1. After(t).cur \o Backslashes(bs_count) = SubSeq(vargs[i], 1, j - 1)
      BY <2>2 DEF Within
    <3>2. Backslashes(bs_count + 1) = Backslashes(bs_count) \o <<Backslash>>
      BY <1>1, OneMore
    <3>3. Backslashes(bs_count) \in Texts /\ <<Backslash>> \in Texts
      BY <1>1, Written, TextsConcat
    <3>4. After(t).cur \o (Backslashes(bs_count) \o <<Backslash>>)
            = (After(t).cur \o Backslashes(bs_count)) \o <<Backslash>>
      BY <2>2, <3>3, TextsConcat
    <3>5. SubSeq(vargs[i], 1, j) = SubSeq(vargs[i], 1, j - 1) \o <<Backslash>>
      BY <1>6, <2>1
    <3> QED BY <3>1, <3>2, <3>4, <3>5, Zenon
  <2>5. j + 1 <= Len(vargs[i]) + 1 /\ (j + 1) - 1 = j
    BY <1>6, <2>1
  <2>6. Within(After(t))'
    BY <2>2, <2>3, <2>4, <2>5 DEF Within
  <2>7. \E u \in Texts : text' = Name' \o u /\ Within(After(u))'
    BY <2>2, <2>3, <2>6
  <2> QED BY <1>6, <2>1, <2>3, <2>7 DEF ReadSoFar
<1>10. CASE OtherChar
  <2>1. InArgument /\ vargs[i][j] \notin {Quote, Backslash}
    BY <1>10 DEF OtherChar
  <2>2. PICK t \in Texts : /\ text = Name \o t /\ Within(After(t))
                           /\ After(t) \in States /\ After(t).cur \in Texts
                           /\ After(t).bs = 0 /\ After(t).quoted /\ After(t).inside
    BY <1>6, <1>7, <2>1
  <2>00. PICK c : c = vargs[i][j]
    OBVIOUS
  <2>0. PICK more : more = (t \o Backslashes(bs_count)) \o <<c>>
    OBVIOUS
  <2>3. c \in Character /\ c \notin {Quote, Backslash}
    BY <1>6, <2>00, <2>1
  <2>4. /\ text' = text \o Backslashes(bs_count) \o <<c>>
        /\ bs_count' = 0 /\ j' = j + 1 /\ step' = step /\ i' = i /\ vargs' = vargs /\ Name' = Name
    BY <1>10, <2>00 DEF OtherChar, Name
  <2>5. /\ After(t).args = SubSeq(vargs, 1, i - 1)
        /\ After(t).cur \o Backslashes(bs_count) = SubSeq(vargs[i], 1, j - 1)
        /\ SubSeq(vargs[i], 1, j) = SubSeq(vargs[i], 1, j - 1) \o <<c>>
        /\ j \in 1..Len(vargs[i]) /\ vargs[i] \in Texts
    BY <1>6, <2>00, <2>1, <2>2 DEF Within
  <2>6. /\ more \in Texts
        /\ Is(After(more), After(t).args, After(t).cur \o Backslashes(bs_count) \o <<c>>, 0,
              TRUE, TRUE)
    BY <1>1, <2>0, <2>2, <2>3, OtherStays
  <2>7. text' = Name' \o more
    <3>1. Backslashes(bs_count) \in Texts /\ <<c>> \in Texts
      BY <1>1, <2>3, Written, TextsConcat
    <3>2. PICK x \in Texts, y \in Texts : x = Backslashes(bs_count) /\ y = <<c>>
      BY <3>1
    <3>3. (Name \o t) \o x \o y = Name \o ((t \o x) \o y)
      <4>1. PICK nm \in Texts : nm = Name
        BY <1>2
      <4>2. nm \in Texts /\ t \in Texts /\ x \in Texts /\ y \in Texts
        BY <2>2, <3>2, <4>1
      <4>3. Regrouped(nm, t, x, y)
        BY <4>2, Regroup, Zenon
      <4> QED BY <4>1, <4>3, Zenon DEF Regrouped
    <3>4. text' = (Name \o t) \o x \o y /\ more = (t \o x) \o y
      BY <2>0, <2>2, <2>4, <3>2
    <3> QED BY <2>4, <3>3, <3>4
  <2>8. Within(After(more))'
    BY <1>1, <2>4, <2>5, <2>6, StillWithin
  <2>9. \E u \in Texts : text' = Name' \o u /\ Within(After(u))'
    BY <2>6, <2>7, <2>8
  <2> QED BY <1>6, <2>1, <2>4, <2>9 DEF ReadSoFar
<1>11. CASE EndArgument
  <2>1. step = "char" /\ j > Len(vargs[i])
    BY <1>11 DEF EndArgument
  <2>2. PICK t \in Texts : /\ text = Name \o t /\ Within(After(t))
                           /\ After(t) \in States /\ After(t).cur \in Texts
                           /\ After(t).bs = 0 /\ After(t).quoted /\ After(t).inside
    BY <1>7, <2>1
  <2>0. PICK more : more = (t \o Backslashes(2 * bs_count)) \o <<Quote>>
    OBVIOUS
  <2>3. /\ more \in Texts
        /\ Is(After(more), After(t).args, After(t).cur \o Backslashes(bs_count), 0, FALSE, TRUE)
    BY <1>1, <2>0, <2>2, QuoteEnds
  <2>4. /\ text' = text \o Backslashes(2 * bs_count) \o <<Quote>>
        /\ step' = "next" /\ i' = i + 1 /\ vargs' = vargs /\ Name' = Name
    BY <1>11 DEF EndArgument, Name
  <2>5. text' = Name' \o more
    <3>1. Backslashes(2 * bs_count) \in Texts /\ <<Quote>> \in Texts
      BY <1>1, Written
    <3>2. PICK x \in Texts, y \in Texts : x = Backslashes(2 * bs_count) /\ y = <<Quote>>
      BY <3>1
    <3>3. (Name \o t) \o x \o y = Name \o ((t \o x) \o y)
      <4>1. PICK nm \in Texts : nm = Name
        BY <1>2
      <4>2. nm \in Texts /\ t \in Texts /\ x \in Texts /\ y \in Texts
        BY <2>2, <3>2, <4>1
      <4>3. Regrouped(nm, t, x, y)
        BY <4>2, Regroup, Zenon
      <4> QED BY <4>1, <4>3, Zenon DEF Regrouped
    <3>4. text' = (Name \o t) \o x \o y /\ more = (t \o x) \o y
      BY <2>0, <2>2, <2>4, <3>2
    <3> QED BY <2>4, <3>3, <3>4
  <2>6. Between(After(more))'
    <3>1. vargs \in Seq(Texts) /\ i \in 1..Len(vargs) /\ vargs[i] \in Texts
      BY <1>1, <2>1, ElementOfSeq
    <3>2. Len(vargs[i]) \in Nat /\ j - 1 = Len(vargs[i])
      BY <1>1, <2>1, <2>2, <3>1, TextsConcat DEF Within
    <3>3. SubSeq(vargs[i], 1, Len(vargs[i])) = vargs[i]
      BY <3>1, SubSeqFull DEF Texts
    <3>4. After(more).cur = vargs[i] /\ After(more).args = SubSeq(vargs, 1, i - 1)
      BY <2>2, <2>3, <3>2, <3>3 DEF Within, Is
    <3>5. i + 1 > 1 /\ (i + 1) - 2 = i - 1 /\ (i + 1) - 1 = i /\ i + 1 <= Len(vargs) + 1
      BY <1>1, <3>1
    <3> QED BY <2>3, <2>4, <3>4, <3>5 DEF Between, Is
  <2>7. \E u \in Texts : text' = Name' \o u /\ Between(After(u))'
    BY <2>3, <2>5, <2>6
  <2> QED BY <2>4, <2>7 DEF ReadSoFar
<1>12. CASE Finish
  <2>1. step' = "done" /\ text' = text /\ vargs' = vargs /\ Name' = Name
    BY <1>12 DEF Finish, Name
  <2>2. CASE step = "end"
    BY <2>1, <2>2 DEF ReadSoFar
  <2>3. CASE step = "next" /\ i > Len(vargs)
    <3>1. PICK t \in Texts : text = Name \o t /\ Between(After(t))
      BY <2>3 DEF ReadSoFar
    <3>2. vargs \in Seq(Texts)
      BY <1>1, <2>3
    <3>3. Len(vargs) \in Nat /\ i - 1 = Len(vargs)
      BY <1>1, <2>3, <3>1, <3>2, LenProperties DEF Between
    <3>4. After(t \o <<Space>>).args = SubSeq(vargs, 1, i - 1)
      BY <3>1, <3>2, SpaceEnds DEF Is
    <3>5. SubSeq(vargs, 1, i - 1) = vargs
      BY <3>2, <3>3, SubSeqFull
    <3>6. \E u \in Texts : text' = Name' \o u /\ After(u \o <<Space>>).args = vargs'
      BY <2>1, <3>1, <3>4, <3>5
    <3> QED BY <2>1, <3>6 DEF ReadSoFar
  <2> QED BY <1>12, <2>2, <2>3 DEF Finish
<1>13. CASE UNCHANGED cmdvars
  <2>1. /\ text' = text /\ vargs' = vargs /\ Name' = Name /\ i' = i /\ j' = j /\ step' = step
        /\ bs_count' = bs_count
    BY <1>13 DEF cmdvars, Name
  <2>2. \A st : (Between(st)' <=> Between(st)) /\ (Within(st)' <=> Within(st))
    BY <2>1 DEF Between, Within
  <2> QED BY <2>1, <2>2 DEF ReadSoFar
<1> QED BY <1>3, <1>4, <1>5, <1>8, <1>9, <1>10, <1>11, <1>12, <1>13 DEF CmdNext

\* The program reads so far in every state.
LEMMA ReadSoFarAlways == Spec => []ReadSoFar
<1>1. Init => ReadSoFar
  BY ReadSoFarStart DEF Init
<1>2. CmdInv /\ ReadSoFar /\ [Next]_vars => ReadSoFar'
  <2> SUFFICES ASSUME CmdInv, ReadSoFar, [Next]_vars PROVE ReadSoFar'
    OBVIOUS
  <2>1. [CmdNext]_cmdvars
    BY DEF Next, OnUnix, OnWindows, vars
  <2> QED BY <2>1, ReadSoFarStep DEF CmdInv
<1> QED BY <1>1, <1>2, CmdAlways, PTL DEF Spec

\* A line that begins with the name has the rest after it.
LEMMA RestOfLine ==
    ASSUME NEW c \in Texts, NEW t \in Texts
    PROVE  LET name == <<Quote>> \o c \o <<Quote>>
           IN  /\ SubSeq(name \o t, 1, Len(c) + 2) = name
               /\ SubSeq(name \o t, Len(c) + 3, Len(name \o t)) = t
<1> DEFINE name == <<Quote>> \o c \o <<Quote>>
<1>1. <<Quote>> \in Texts /\ Len(<<Quote>>) = 1
  BY Written
<1>2. <<Quote>> \o c \in Texts /\ Len(<<Quote>> \o c) = 1 + Len(c)
  BY <1>1, TextsConcat
<1>3. name \in Texts /\ Len(name) = Len(c) + 2
  <2>1. Len(c) \in Nat /\ Len(name) = Len(<<Quote>> \o c) + Len(<<Quote>>)
    BY <1>1, <1>2, TextsConcat
  <2>2. name \in Texts
    BY <1>1, <1>2, TextsConcat
  <2> HIDE DEF name
  <2> QED BY <1>1, <1>2, <2>1, <2>2
<1> HIDE DEF name
<1>4. SubSeq(name \o t, 1, Len(name)) = name
  BY <1>3, SubSeqOfConcat1 DEF Texts
<1>5. SubSeq(name \o t, Len(name) + 1, Len(name \o t)) = t
  <2>1. Len(name \o t) = Len(name) + Len(t) /\ Len(t) \in Nat /\ Len(name) \in Nat
    BY <1>3, TextsConcat
  <2> QED BY <1>3, <2>1, SubSeqOfConcat2 DEF Texts
<1>6. Len(name) + 1 = Len(c) + 3
  <2>1. Len(c) \in Nat
    BY TextsConcat
  <2> QED BY <1>3, <2>1
<1> QED BY <1>3, <1>4, <1>5, <1>6 DEF name

(***************************************************************************)
(* A program that takes its line apart as the C runtime of Windows does is *)
(* given the arguments that were passed, whatever they contain.            *)
(***************************************************************************)
THEOREM ArgumentsAreRead == Spec => []ArgumentsArrive
<1>1. CmdInv /\ ReadSoFar => ArgumentsArrive
  <2> SUFFICES ASSUME CmdInv, ReadSoFar, step = "done", vargs # Null
               PROVE  /\ SubSeq(line, 1, Len(cmd) + 2) = <<Quote>> \o cmd \o <<Quote>>
                      /\ Scanned(SubSeq(line, Len(cmd) + 3, Len(line))) = vargs
    BY DEF ArgumentsArrive
  <2>1. PICK t \in Texts : text = Name \o t /\ After(t \o <<Space>>).args = vargs
    BY DEF ReadSoFar
  <2>2. PICK c \in Texts : c = cmd
    BY DEF CmdInv, CmdTypes
  <2>3. PICK name : name = <<Quote>> \o c \o <<Quote>>
    OBVIOUS
  <2>4. line = name \o t
    BY <2>1, <2>2, <2>3 DEF CmdInv, Filling, Name
  <2>5. SubSeq(line, 1, Len(c) + 2) = name /\ SubSeq(line, Len(c) + 3, Len(line)) = t
    BY <2>3, <2>4, RestOfLine
  <2>6. Scanned(t) = After(t \o <<Space>>).args
    <3>1. Append(t, Space) = t \o <<Space>>
      BY Written, AppendIsConcat DEF Texts
    <3> QED BY <3>1, Zenon DEF Scanned, After, Begin
  <2> QED BY <2>1, <2>2, <2>3, <2>5, <2>6, Zenon
<1> QED BY <1>1, CmdAlways, ReadSoFarAlways, PTL
=============================================================================
