------------------------ MODULE MCElasticThreadPool ------------------------
(* Instances of ElasticThreadPool for TLC. *)
EXTENDS ElasticThreadPool

CONSTANTS t1, t2, t3, c1, c2
=============================================================================
