----------------------------- MODULE MCOpenAIChat -----------------------------
(* Small instances of OpenAIChat: three calls of one session. *)
EXTENDS OpenAIChat

CONSTANT key

MCKeyOf == [x \in Calls |-> key]
=============================================================================
