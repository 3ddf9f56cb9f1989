--------------------------- MODULE AbstractFiles ---------------------------
(***************************************************************************)
(* What a file system promises: the contents of a file are what the last   *)
(* writes put there.  A write that power failure cuts short may leave any  *)
(* part of its own range as it was, and touches nothing else.              *)
(***************************************************************************)
EXTENDS Integers

CONSTANTS Data,      \* what a caller may write into a word
          Requests   \* sizes of requests, in words

VARIABLE content     \* file -> position -> word

Size(file) == IF file = <<>> THEN 0
              ELSE CHOOSE n \in {p + 1 : p \in DOMAIN file} : n \notin DOMAIN file

\* A file that was "was" is now "is".

Wrote(was, is, range, v) ==
  /\ DOMAIN is = DOMAIN was \cup range
  /\ \A p \in DOMAIN is : is[p] = IF p \in range THEN v ELSE was[p]

\* The size is the last thing that reaches the disk.
CutShort(was, is, range, v) ==
  /\ DOMAIN is = DOMAIN was
  /\ \A p \in DOMAIN is : is[p] = was[p] \/ (p \in range /\ is[p] = v)

\* Overwriting, or extending the file at its end.
Write(was, is) ==
  \E from \in 0..Size(was), n \in Requests, v \in Data :
    LET range == from..(from + n - 1)
    IN Wrote(was, is, range, v) \/ CutShort(was, is, range, v)

\* A caller that broke the rules loses the promise for its file, not for others.
Changes(old, new) ==
  \/ new = old
  \/ /\ DOMAIN new \subseteq DOMAIN old
     /\ \E f \in DOMAIN old :
          /\ DOMAIN old \ {f} \subseteq DOMAIN new
          /\ \A g \in DOMAIN old \ {f} : new[g] = old[g]
          /\ f \in DOMAIN new => Write(old[f], new[f])

Init == \A f \in DOMAIN content : DOMAIN content[f] = 0..(Size(content[f]) - 1)
Next == Changes(content, content')
Spec == Init /\ [][Next]_content
=============================================================================
