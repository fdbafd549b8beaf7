--------------------------- MODULE MCPortAllocator ---------------------------
(* Instances of PortAllocator for TLC: a and b are served by the first     *)
(* runtime instance, c by the second; all of them ask for port 1.          *)
EXTENDS PortAllocator

CONSTANTS a, b, c, first, second

MCInstanceOf == [t \in Tasks |-> IF t = c THEN second ELSE first]
MCWanted == [t \in Tasks |-> 1]
=============================================================================
