---------------------------- MODULE MCEventLoop ----------------------------
(* Instances of EventLoop for TLC. *)
EXTENDS EventLoop

CONSTANTS e1, e2, r1, r2, m1

\* r1 is due every second tick, r2 every tick: at the second both are.
Intervals == [r \in Repeaters |-> IF r = r1 THEN 2 ELSE 1]
=============================================================================
