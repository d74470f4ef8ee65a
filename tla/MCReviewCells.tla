--------------------------- MODULE MCReviewCells ---------------------------
(* Instances of ReviewCells for model checking. *)
EXTENDS ReviewCells, TLC

MCOwners == Cells \X (1..MaxRuns)
MCOnePackage == [c \in Cells |-> CHOOSE p \in Packages : TRUE]
\* A package per cell, named after it.
MCOwnPackage == [c \in Cells |-> c]
\* A process may die and a later attempt runs its package again.
Rerun1 == [slots |-> 1, turns |-> 1, attempts |-> 1, firstError |-> FALSE, faults |-> TRUE,
           reruns |-> 1, clock |-> 0]
\* First-error safety, or an operator, stops a cell at any point of two turns.
Stopped == [slots |-> 2, turns |-> 2, attempts |-> 1, firstError |-> TRUE, faults |-> TRUE,
            reruns |-> 0, clock |-> 0]
\* Two teams overlap, a cell retries, and the clock reaches the timeout.
Timed == [slots |-> 2, turns |-> 1, attempts |-> 2, firstError |-> FALSE, faults |-> FALSE,
          reruns |-> 0, clock |-> 1]
MCSettings == {Rerun1, Stopped, Timed}
MCStopped == {Stopped}
\* The same, with one slot to wait for.
MCTimed == {[Timed EXCEPT !.slots = 1]}
Symmetry == Permutations(Cells)
=============================================================================
