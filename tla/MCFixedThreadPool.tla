------------------------- MODULE MCFixedThreadPool -------------------------
(* Instances of FixedThreadPool for TLC. *)
EXTENDS FixedThreadPool

CONSTANTS t1, t2, t3, c1, c2
=============================================================================
