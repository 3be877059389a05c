----------------------------- MODULE MCJobQueue -----------------------------
(* Small instances of JobQueue.  The messages of one author are              *)
(* interchangeable, so permuting them is a symmetry of the specification.    *)
EXTENDS JobQueueRefinement, TLC

CONSTANTS a1, b1, b2, c1, n1, a, b, c

MCAuthor ==
  [m \in Msgs |-> CASE m = a1 -> a
                    [] m \in {b1, b2} -> b
                    [] m = c1 -> c
                    [] OTHER -> NoID]

Interchangeable == Permutations({b1, b2})
=============================================================================
