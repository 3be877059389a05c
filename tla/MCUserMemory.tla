---------------------------- MODULE MCUserMemory ----------------------------
(* Small instances of UserMemory: d1 and d2 answer user u1, d3 user u2. *)
EXTENDS UserMemory

CONSTANTS u1, u2, d1, d2, d3

MCUserOf == [d \in Dispatches |-> IF d = d3 THEN u2 ELSE u1]
=============================================================================
