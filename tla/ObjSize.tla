------------------------------ MODULE ObjSize ------------------------------
(***************************************************************************)
(* src/libs/objsize/c_objsize.c: the size of a value by a walk over the    *)
(* heap that marks the blocks it has seen in the colour bits of their      *)
(* headers, those of the garbage collector.  The overwritten colours go to *)
(* a log (ColorLog), and a second walk in the same order puts them back.   *)
(* The walks recur on the C stack except for the last child of a block.    *)
(***************************************************************************)
EXTENDS Measurement, Sequences, ColorLog

VARIABLES
    call,        \* the arguments: [start, exclude, reach]
    pc,
    todo,        \* the rest of a list that is being gone through
    frames,      \* the C stack of c_rec_objsize or of restore_colors
    log,         \* None while the array of colours is not allocated
    acc_data, acc_hdrs, acc_depth, reached,
    saved        \* history: the colours when the call began

accs == <<acc_data, acc_hdrs, acc_depth>>
objvars == <<heap, color, result, call, pc, todo, frames, log, accs, reached, saved>>

ASSUME ColorAssumption == LiveColors \subseteq Color \ {Col_blue}
ASSUME UnitAssumption == Val_unit \notin Node

Blue(n) == color[n] = Col_blue
IsBlock(v) == v \in Node
NotVisited(n) == ~Blue(n)

Wosize(v) == Len(heap.fields[v])
Field(v, i) == heap.fields[v][i]
-----------------------------------------------------------------------------
(* The lists *)

ObjInit ==
    /\ Init
    /\ call = None /\ pc = "idle" /\ todo = << >> /\ frames = << >> /\ log = None
    /\ acc_data = 0 /\ acc_hdrs = 0 /\ acc_depth = 0 /\ reached = FALSE
    /\ saved = color

\* c_objsize begins: colors_init asserts that no array is left over.
Call(start, exclude, reach) ==
    /\ pc = "idle"
    /\ call' = [start |-> start, exclude |-> exclude, reach |-> reach]
    /\ log' = [colors_init EXCEPT !.ok = (log = None)]
    /\ todo' = exclude
    /\ saved' = color
    /\ pc' = "exclude"
    /\ UNCHANGED <<heap, color, result, frames, accs, reached>>

\* The other steps need that no ASSERT has ended the process.
At(label) == pc = label /\ log.ok

\* Faulty: the list is not advanced when an element is skipped.
ExcludeNext_Continue ==
    /\ At("exclude") /\ todo # << >>
    /\ IF Blue(Head(todo)) THEN UNCHANGED <<todo, color, log>>
       ELSE /\ todo' = Tail(todo)
            /\ log' = writecolor(log, color[Head(todo)])
            /\ color' = [color EXCEPT ![Head(todo)] = Col_blue]
    /\ UNCHANGED <<heap, result, call, pc, frames, accs, reached, saved>>

\* An element that comes twice is blue the second time and is not logged again.
ExcludeNext ==
    /\ At("exclude") /\ todo # << >>
    /\ todo' = Tail(todo)
    /\ IF Blue(Head(todo)) THEN UNCHANGED <<color, log>>
       ELSE /\ log' = writecolor(log, color[Head(todo)])
            /\ color' = [color EXCEPT ![Head(todo)] = Col_blue]
    /\ UNCHANGED <<heap, result, call, pc, frames, accs, reached, saved>>

-----------------------------------------------------------------------------
(* The first walk *)

Frame(v, depth) == [v |-> v, i |-> 1, prev |-> Val_unit, depth |-> depth]

Larger(m, n) == IF m > n THEN m ELSE n

\* c_rec_objsize from its entry to its loop, above the frames below.
c_rec_objsize(v, depth, below) ==
    /\ acc_data' = acc_data + Wosize(v)
    /\ acc_hdrs' = acc_hdrs + 1
    /\ acc_depth' = Larger(acc_depth, depth)
    /\ log' = writecolor(log, color[v])
    /\ color' = [color EXCEPT ![v] = Col_blue]
    /\ frames' = IF v \in heap.noscan THEN below ELSE Append(below, Frame(v, depth))

\* Faulty: the counts of the last call are added to.
ExcludeEnd_NoReset ==
    /\ At("exclude") /\ todo = << >>
    /\ pc' = "start"
    /\ UNCHANGED <<heap, color, result, call, todo, frames, log, accs, reached, saved>>

ExcludeEnd ==
    /\ At("exclude") /\ todo = << >>
    /\ pc' = "start"
    /\ acc_data' = 0 /\ acc_hdrs' = 0 /\ acc_depth' = 0
    /\ UNCHANGED <<heap, color, result, call, todo, frames, log, reached, saved>>

Top == frames[Len(frames)]
Below == SubSeq(frames, 1, Len(frames) - 1)

Keep(stack) == frames' = stack /\ UNCHANGED <<color, log, accs>>

Restore(n) ==
    /\ log' = readcolor(log)
    /\ color' = [color EXCEPT ![n] = log'.prev_color]

\* restore_colors from its entry to its loop; it keeps no depth.
restore_colors(v, depth, below) ==
    /\ Restore(v)
    /\ frames' = IF v \in heap.noscan THEN below ELSE Append(below, Frame(v, 0))
    /\ UNCHANGED accs

\* What REC_WALK is told: which children to enter, and how.
Visit(v) == IF At("mark") THEN NotVisited(v) ELSE Blue(v)

Enter(v, depth, below) ==
    IF At("mark") THEN c_rec_objsize(v, depth, below) ELSE restore_colors(v, depth, below)

\* One round of the loop of REC_WALK: a child is entered when the next is met.
WalkField ==
    LET f == Field(Top.v, Top.i)
        next == [Top EXCEPT !.i = @ + 1, !.prev = IF IsBlock(f) THEN f ELSE @]
    IN  /\ frames # << >> /\ Top.i <= Wosize(Top.v)
        /\ IF IsBlock(f) /\ Top.prev # Val_unit /\ Visit(Top.prev)
           THEN Enter(Top.prev, Top.depth + 1, Append(Below, next))
           ELSE Keep(Append(Below, next))

\* The end of REC_WALK: the last child takes the place of its parent on the stack.
WalkLast ==
    /\ frames # << >> /\ Top.i > Wosize(Top.v)
    /\ IF Top.prev # Val_unit /\ Visit(Top.prev)
       THEN Enter(Top.prev, Top.depth + 1, Below)
       ELSE Keep(Below)

\* The value itself may be excluded, or be no block.
MarkStart ==
    /\ At("start")
    /\ IF IsBlock(call.start) /\ NotVisited(call.start)
       THEN c_rec_objsize(call.start, 0, << >>)
       ELSE Keep(<< >>)
    /\ pc' = "mark"
    /\ UNCHANGED <<heap, result, call, todo, reached, saved>>

MarkField ==
    /\ At("mark") /\ WalkField
    /\ UNCHANGED <<heap, result, call, pc, todo, reached, saved>>

\* Faulty: the child that waits when the fields end is forgotten.
MarkLast_Forget ==
    /\ At("mark") /\ frames # << >> /\ Top.i > Wosize(Top.v)
    /\ Keep(Below)
    /\ UNCHANGED <<heap, result, call, pc, todo, reached, saved>>

MarkLast ==
    /\ At("mark") /\ WalkLast
    /\ UNCHANGED <<heap, result, call, pc, todo, reached, saved>>

MarkEnd ==
    /\ At("mark") /\ frames = << >>
    /\ log' = rle_init(rle_write_flush(log))
    /\ todo' = call.exclude
    /\ pc' = "unexclude"
    /\ UNCHANGED <<heap, color, result, call, frames, accs, reached, saved>>

-----------------------------------------------------------------------------
(* The colours are put back *)

UnexcludeNext ==
    /\ At("unexclude") /\ todo # << >>
    /\ todo' = Tail(todo)
    /\ IF Blue(Head(todo)) THEN Restore(Head(todo)) ELSE UNCHANGED <<color, log>>
    /\ UNCHANGED <<heap, result, call, pc, frames, accs, reached, saved>>

\* What is still blue now was met by the first walk.
Reach ==
    /\ At("unexclude") /\ todo = << >>
    /\ reached' = (\E i \in DOMAIN call.reach : Blue(call.reach[i]))
    /\ pc' = "found"
    /\ UNCHANGED <<heap, color, result, call, todo, frames, log, accs, saved>>

RestoreStart ==
    /\ At("found")
    /\ IF IsBlock(call.start) /\ Blue(call.start)
       THEN restore_colors(call.start, 0, << >>)
       ELSE Keep(<< >>)
    /\ pc' = "restore"
    /\ UNCHANGED <<heap, result, call, todo, reached, saved>>

RestoreField ==
    /\ At("restore") /\ WalkField
    /\ UNCHANGED <<heap, result, call, pc, todo, reached, saved>>

RestoreLast ==
    /\ At("restore") /\ WalkLast
    /\ UNCHANGED <<heap, result, call, pc, todo, reached, saved>>

RestoreEnd ==
    /\ At("restore") /\ frames = << >>
    /\ log' = rle_read_flush(log)
    /\ pc' = "free"
    /\ UNCHANGED <<heap, color, result, call, todo, frames, accs, reached, saved>>

\* colors_deinit and the record that ml_objsize returns.
Return ==
    /\ At("free")
    /\ log' = None
    /\ result' = [data |-> acc_data, headers |-> acc_hdrs, depth |-> acc_depth,
                  reached |-> reached]
    /\ pc' = "idle"
    /\ UNCHANGED <<heap, color, call, todo, frames, accs, reached, saved>>

-----------------------------------------------------------------------------
\* The colours change between two calls, when the collector has run.
CollectorRuns ==
    /\ pc = "idle" /\ Collect
    /\ saved' = color'
    /\ UNCHANGED <<call, pc, todo, frames, log, accs, reached>>

Step ==
    \/ ExcludeNext \/ ExcludeEnd
    \/ MarkStart \/ MarkField \/ MarkLast \/ MarkEnd
    \/ UnexcludeNext \/ Reach
    \/ RestoreStart \/ RestoreField \/ RestoreLast \/ RestoreEnd
    \/ Return

ObjNext ==
    \/ \E start \in Node \union {Val_unit}, exclude, reach \in Lists : Call(start, exclude, reach)
    \/ Step
    \/ CollectorRuns

\* A call that has begun runs to its end: nothing else runs meanwhile.
ObjSpec == ObjInit /\ [][ObjNext]_objvars /\ WF_objvars(Step)
-----------------------------------------------------------------------------
(* Properties *)

InCall == pc # "idle"

Frames ==
    [v : Node \ heap.noscan, i : Nat \ {0}, prev : Node \union {Val_unit}, depth : Nat]

\* The types; the array of colours exists exactly during a call.
TypeOK ==
    /\ color \in [Node -> Color] /\ saved \in [Node -> LiveColors]
    /\ pc \in {"idle", "exclude", "start", "mark", "unexclude", "found", "restore", "free"}
    /\ InCall => call \in [start : Node \union {Val_unit}, exclude : Lists, reach : Lists]
    /\ \A i \in DOMAIN todo : todo[i] \in Node
    /\ \A i \in DOMAIN frames : frames[i] \in Frames
    /\ pc \notin {"mark", "restore"} => frames = << >>
    /\ {acc_data, acc_hdrs, acc_depth} \subseteq Nat /\ reached \in BOOLEAN
    /\ InCall <=> log # None

(***************************************************************************)
(* No ASSERT of c_objsize.c fails: the colours are read back in the number *)
(* and the order in which they were written, the repetitions fit in their  *)
(* bits, and the array holds every bit that is written.                    *)
(***************************************************************************)
NoAssertFails == log # None => log.ok

(***************************************************************************)
(* When the first walk is over, the blue blocks are the excluded ones and  *)
(* exactly those that can be reached without going through them, each of   *)
(* which was counted once, whatever cycles and sharing the heap has.       *)
(***************************************************************************)
MarksTheReachable ==
    pc = "unexclude" /\ todo = call.exclude =>
        LET E == Elements(call.exclude)
            M == Measured(heap, call.start, E)
        IN  {n \in Node : Blue(n)} = E \union M /\ acc_hdrs = Cardinality(M)

(***************************************************************************)
(* The callers see one step that leaves the colours alone and answers with *)
(* the numbers of Measurement, though the headers are overwritten during   *)
(* the whole call.                                                         *)
(***************************************************************************)
Promise == INSTANCE Measurement WITH
    color <- IF InCall THEN saved ELSE color, result <- result, heap <- heap

Measures == Promise!Spec

\* Every call ends, on cyclic heaps too.
CallReturns == InCall ~> ~InCall
=============================================================================
