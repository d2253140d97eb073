----------------------------- MODULE MCObjSize -----------------------------
(* Instances of ObjSize for TLC: heaps of four blocks, repeats of up to three. *)
EXTENDS ObjSize, TLC

CONSTANTS n1, n2, n3, n4

Graph(f1, f2, f3, f4, strings) ==
    [fields |-> n1 :> f1 @@ n2 :> f2 @@ n3 :> f3 @@ n4 :> f4, noscan |-> strings]

\* A list, sharing, cycles, a block that points to itself, and a string whose
\* second word looks like a pointer.
SmallHeaps == {
    Graph(<<Val_unit, n2>>, <<Val_unit, n3>>, <<Val_unit, n4>>, <<Val_unit>>, {}),
    Graph(<<n2, n3>>, <<n4, Val_unit>>, <<n4>>, << >>, {}),
    Graph(<<n2, n2, n3>>, <<n1, n3>>, <<n4, n1>>, <<n4, n2>>, {}),
    Graph(<<n3, Val_unit, n2, n4>>, <<n4>>, <<n3, n2>>, <<n1>>, {}),
    Graph(<<n2, n3>>, <<Val_unit, n4>>, <<n2, n4>>, <<n3>>, {n2}) }

SmallLists == {<< >>, <<n3, n3>>, <<n2, n4>>}
=============================================================================
