----------------------------- MODULE MCDevServer -----------------------------
(* An instance of DevServer for TLC. *)
EXTENDS DevServer

CONSTANTS e1, e2

FairDevSpec == DevSpec /\ DevFairness
=============================================================================
