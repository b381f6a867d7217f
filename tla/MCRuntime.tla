----------------------------- MODULE MCRuntime -----------------------------
(* A base and up to two unit ids; one unit is there from the start.          *)
EXTENDS Runtime

CONSTANTS base, u1, u2
=============================================================================
