---------------------------- MODULE MCSessionRun ----------------------------
(* Small instances of SessionRun: the calls c1, c2 and c3 of one session and *)
(* the call d1 of another one; two workspaces.                               *)
EXTENDS SessionRun, TLC

CONSTANTS c1, c2, c3, d1, s1, s2, w1, w2

MCSessionOf == [c \in Calls |-> IF c = d1 THEN s2 ELSE s1]

Interchangeable == Permutations({c2, c3})
=============================================================================
