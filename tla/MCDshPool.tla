------------------------------ MODULE MCDshPool ------------------------------
(* Small instances of DshPool: the runs 1 and 2 of chat c1, 3 of chat c2. *)
EXTENDS DshPool

CONSTANTS c1, c2, k1

MCChatOf == [r \in Runs |-> IF r = 3 THEN c2 ELSE c1]
OneKey == [c \in Chats |-> k1]
=============================================================================
