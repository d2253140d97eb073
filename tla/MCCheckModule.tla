--------------------------- MODULE MCCheckModule ---------------------------
(* Instances of CheckModule for TLC. *)
EXTENDS CheckModule, FiniteSets, TLC

CONSTANTS m1, m2, m3

\* No module depends on itself (add_dependency).
AllGraphs == {g \in [Modules -> SUBSET Modules] : \A m \in Modules : m \notin g[m]}

\* m1 and m2 depend on each other, and m3 on m1.
SharedCycle == {g \in AllGraphs : g[m1] = {m2} /\ g[m2] = {m1} /\ g[m3] = {m1}}

Symmetric == Permutations(Modules)
=============================================================================
