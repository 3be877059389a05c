------------------------------ MODULE MCRuntime ------------------------------
(* Small instances of Runtime: w is connected by WebSocket, p is polled. *)
EXTENDS Runtime, TLC

CONSTANTS w, p, r1, r2

MCChannels == {w, p}
MCGroupOf == [c \in {p} |-> "g"]
MCRoleOf == [c \in {w, p} |-> "role"]
MCConfigs == {{w, p}, {p}}

\* The goroutines that reload are alike.
Alike == Permutations({r1, r2})
=============================================================================
