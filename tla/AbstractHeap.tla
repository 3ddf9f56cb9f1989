---------------------------- MODULE AbstractHeap ----------------------------
(***************************************************************************)
(* What a heap promises its callers: every live allocation is a range of   *)
(* bytes inside the heap that no other live allocation touches.            *)
(***************************************************************************)
EXTENDS Integers

CONSTANTS HeapSize,   \* bytes managed
          Sizes       \* sizes a caller may ask for

VARIABLE live         \* address of a live allocation -> bytes asked for

Disjoint(a, m, b, n) == a + m <= b \/ b + n <= a

\* [a, a + n) lies in the heap and touches none of the allocations in "rest".
Fits(a, n, rest) ==
  /\ a + n <= HeapSize
  /\ \A b \in DOMAIN rest : Disjoint(a, n, b, rest[b])

Without(a) == [b \in DOMAIN live \ {a} |-> live[b]]
With(rest, a, n) == [b \in DOMAIN rest \cup {a} |-> IF b = a THEN n ELSE rest[b]]

Init == live = [a \in {} |-> 0]

Allocate == \E a \in 0..HeapSize, n \in Sizes :
  /\ a \notin DOMAIN live
  /\ Fits(a, n, live)
  /\ live' = With(live, a, n)

Release == \E a \in DOMAIN live : live' = Without(a)

\* The allocation keeps its place or moves; the others stay as they are.
Resize == \E a \in DOMAIN live, b \in 0..HeapSize, n \in Sizes :
  /\ b \notin DOMAIN Without(a)
  /\ Fits(b, n, Without(a))
  /\ live' = With(Without(a), b, n)

Next == Allocate \/ Release \/ Resize

Spec == Init /\ [][Next]_live
=============================================================================
