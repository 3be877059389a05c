-------------------------- MODULE JobQueueRefinement --------------------------
(***************************************************************************)
(* JobQueue implements AskService.  The line of a scope is the user the    *)
(* slot names followed by the queue; what has become of a message is read  *)
(* off the place where it is.                                              *)
(***************************************************************************)
EXTENDS JobQueue

LineOf(s) ==
  IF slots[s].busy = NoID
  THEN <<>>
  ELSE <<slots[s].busy>> \o [i \in DOMAIN slots[s].queue |-> slots[s].queue[i].openID]

StateOf(m) ==
  CASE result[m] = "none"     -> "unsent"
    [] m \in replied          -> "answered"
    [] InHand(m)              -> "owed"
    [] InQueue(m)             -> "waiting"
    [] m \in SlotOf(m).extra  -> "added"
    [] OTHER                  -> "dropped"

lineBar == [s \in Scopes |-> LineOf(s)]
stateBar == [m \in Msgs |-> StateOf(m)]

Ask == INSTANCE AskService WITH
         ScopeFor <- [m \in Msgs |-> ScopeOf(m)],
         line <- lineBar,
         state <- stateBar

\* The job queue keeps the promise of AskService: jobs are served one at a
\* time and in line, a queued message is never dropped, a merged one only when
\* its author's job ends (jobs.Manager with Handle and runJob).
KeepsThePromise == Ask!Spec
=============================================================================
