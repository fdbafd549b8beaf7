----------------------------- MODULE MCRegistry -----------------------------
(* Instances of Registry for TLC: two processes, and three registrations   *)
(* of one script, the first two of them in the same process.               *)
EXTENDS Registry

CONSTANTS p1, p2, i1, i2, i3

MCProcessOf == [i \in Registrations |-> IF i = i3 THEN p2 ELSE p1]
=============================================================================
