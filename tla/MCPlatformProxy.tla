--------------------------- MODULE MCPlatformProxy ---------------------------
(* An instance of PlatformProxy for TLC: a Durable Object namespace whose  *)
(* method get is given an id, a method of the object, a method of two      *)
(* arguments, one with a list, and one with a stub of another binding.     *)
EXTENDS PlatformProxy

CONSTANTS id1, id2, object, member, both, batch, foreign

MCTargetOf ==
  [e \in Stubs |-> IF e = member THEN object ELSE Root]
MCArgsOf ==
  [e \in Stubs |-> CASE e \in {id1, id2, member} -> <<Plain>>
                     [] e = object -> <<id1>>
                     [] e = both -> <<member, id2>>
                     [] e = batch -> <<(<<id1, id2>>)>>
                     [] e = foreign -> <<Foreign>>]
=============================================================================
