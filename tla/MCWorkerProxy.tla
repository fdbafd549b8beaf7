--------------------------- MODULE MCWorkerProxy ---------------------------
(* Instances of WorkerProxy for TLC.                                       *)
EXTENDS WorkerProxy

CONSTANTS get1, get2, post1, t1, t2
=============================================================================
