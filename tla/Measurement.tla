---------------------------- MODULE Measurement ----------------------------
(***************************************************************************)
(* What Objsize.objsize (src/libs/objsize/objsize.ml) promises to its      *)
(* callers, the memory reports of the compilation server: it counts the    *)
(* blocks below a value that are not reached through excluded ones, tells  *)
(* whether one of the blocks asked for is among them, and leaves the       *)
(* colours of the heap to the garbage collector as they were.              *)
(***************************************************************************)
EXTENDS Integers, Sequences, FiniteSets, FiniteSetsExt

CONSTANTS
    Node,        \* the blocks of the heap
    Val_unit,    \* stands for every value that is not a block
    Heaps,       \* the graphs: [fields, noscan]
    Lists,       \* the lists that are passed as excluded or as looked for
    LiveColors,  \* the colours a block in use may have
    None

ASSUME HeapAssumption ==
    /\ Heaps \subseteq [fields : [Node -> Seq(Node \union {Val_unit})], noscan : SUBSET Node]
    /\ Lists \subseteq Seq(Node)

VARIABLES heap, color, result

vars == <<heap, color, result>>

Follows(h, excluded, n, f) == n \notin h.noscan /\ f \in Node \ excluded

Closed(h, excluded, S) ==
    \A n \in S : \A i \in DOMAIN h.fields[n] :
        Follows(h, excluded, n, h.fields[n][i]) => h.fields[n][i] \in S

\* The least closed set with the value in it.
Measured(h, start, excluded) ==
    {n \in Node : /\ start \in Node \ excluded
                  /\ \A S \in SUBSET Node : start \in S /\ Closed(h, excluded, S) => n \in S}

\* The words of the blocks of S, without their headers.
Words(h, S) == MapThenSumSet(LAMBDA n : Cardinality(DOMAIN h.fields[n]), S)

\* depth is the length of some path without repetition, not of the longest.
Answers(h, start, excluded, sought) ==
    LET M == Measured(h, start, excluded)
    IN  {[data |-> Words(h, M), headers |-> Cardinality(M), depth |-> d,
          reached |-> M \intersect sought # {}] :
            d \in IF M = {} THEN {0} ELSE 0 .. Cardinality(M) - 1}
-----------------------------------------------------------------------------
Init ==
    /\ heap \in Heaps
    /\ color \in [Node -> LiveColors]
    /\ result = None

Elements(list) == {list[i] : i \in DOMAIN list}

\* The same answer once more is a step that changes nothing.
Measure ==
    /\ UNCHANGED <<heap, color>>
    /\ result' # result
    /\ \E start \in Node \union {Val_unit}, exclude, reach \in Lists :
           result' \in Answers(heap, start, Elements(exclude), Elements(reach))

\* Between two measurements the collector marks and sweeps, and the program runs.
Collect ==
    /\ color' \in [Node -> LiveColors]
    /\ UNCHANGED <<heap, result>>

Next == Measure \/ Collect

Spec == Init /\ [][Next]_vars
=============================================================================
