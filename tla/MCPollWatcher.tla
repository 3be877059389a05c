--------------------------- MODULE MCPollWatcher ---------------------------
(* Small instances of PollWatcher.  The loops are interchangeable.           *)
EXTENDS PollWatcher, TLC

CONSTANTS l1, l2

EitherLoop == Permutations({l1, l2})
=============================================================================
