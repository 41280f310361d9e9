--------------------------- MODULE MCRedisPipeline ---------------------------
(***************************************************************************)
(* Instances of RedisPipeline for TLC.  The configurations choose the      *)
(* number of threads, the requests and the number of faults.               *)
(***************************************************************************)
EXTENDS RedisPipeline, TLC

\* The callers of publish() and the threads are interchangeable.
Symmetry == Permutations(Threads)
==============================================================================
