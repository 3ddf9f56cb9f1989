------------------------------- MODULE MCHeap -------------------------------
(* Small heaps for TLC: headers of 2 bytes, so that the places where there  *)
(* is room for a payload but not for a second header exist.  A behaviour    *)
(* is one of callers who may do anything, or of such as StackSpec has.      *)
EXTENDS Heap

VARIABLE callers

MCRequests == {0, 1, 4}
MCAlignments == {4}

MCInit == Init /\ callers \in {"any", "stack"}
MCNext ==
  /\ \/ callers = "any" /\ Next
     \/ callers = "stack" /\ StackNext
  /\ UNCHANGED callers
\* A call that has started runs to its end: the CPU does not stop in it.
MCSpec == MCInit /\ [][MCNext]_<<vars, callers>> /\ WF_vars(FreeLoop)

\* What StackUseIsSafe says of callers that free in the opposite order of their mallocs
\* (heap.c:22-90, 208-224): nothing of it holds for the others.
StackCallersAreSafe == callers = "stack" => StackUseIsSafe
=============================================================================
