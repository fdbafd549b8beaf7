------------------------------ MODULE MCBrowser ------------------------------
(* An instance of Browser for TLC: one session, one connection.            *)
EXTENDS Browser

CONSTANTS s1, c1
=============================================================================
