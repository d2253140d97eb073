--------------------------- MODULE MCModuleCache ---------------------------
(* Instances of ModuleCache for TLC: two texts that parse and one that does not. *)
EXTENDS ModuleCache

CONSTANTS t1, t2, broken
=============================================================================
