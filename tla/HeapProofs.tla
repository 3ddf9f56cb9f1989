----------------------------- MODULE HeapProofs -----------------------------
(***************************************************************************)
(* Heap.tla for every heap size, header size and set of requests: until    *)
(* the first fault the blocks tile the heap and match their owners.  So it *)
(* implements AbstractHeap, links that are exact stay exact, and callers   *)
(* that use it as a stack never damage the list.                           *)
(***************************************************************************)
EXTENDS Heap, Recursion

\* A list whose blocks tile the heap and whose prev links lead backwards.
PrevBehind(l, a) == IF a = 0 THEN l[a].prev = NULL ELSE l[a].prev \in 0..(a - 1)

Tiled(l) ==
  /\ DOMAIN l \subseteq Nat
  /\ l \in [DOMAIN l -> BlockHeader]
  /\ 0 \in DOMAIN l
  /\ \A a \in DOMAIN l : EndsAtNext(l, a) /\ NoneInside(l, a) /\ PrevBehind(l, a)

\* The used blocks of l are those of the owners o.
Matches(l, o) ==
  /\ \A p \in DOMAIN o : /\ p - HDR \in DOMAIN l
                         /\ ~l[p - HDR].free
                         /\ l[p - HDR].size >= o[p]
  /\ \A a \in DOMAIN l : ~l[a].free => a + HDR \in DOMAIN o

CallOK ==
  /\ call.at = "idle" <=> call = Idle
  /\ call # Idle /\ fault = "none" => call.entry \in DOMAIN list /\ list[call.entry].free

IInv == /\ TypeOK
        /\ fault = "none" => Tiled(list) /\ Matches(list, owned)
        /\ CallOK

-----------------------------------------------------------------------------
(* The list operations keep a tiled list tiled.                            *)

\* Marking a block changes no boundary and no link.
LEMMA SetFreeTiled ==
  ASSUME NEW l, Tiled(l), NEW e \in DOMAIN l, NEW f \in BOOLEAN
  PROVE  /\ Tiled(SetFree(l, e, f))
         /\ DOMAIN SetFree(l, e, f) = DOMAIN l
         /\ SetFree(l, e, f)[e] = [l[e] EXCEPT !.free = f]
         /\ \A a \in DOMAIN l \ {e} : SetFree(l, e, f)[a] = l[a]
<1> DEFINE m == SetFree(l, e, f)
<1>1. DOMAIN m = DOMAIN l BY DEF SetFree
<1>2. m[e] = [l[e] EXCEPT !.free = f] BY DEF SetFree, Tiled
<1>3. \A a \in DOMAIN l \ {e} : m[a] = l[a] BY DEF SetFree, Tiled
<1>4. m \in [DOMAIN m -> BlockHeader]
  BY DEF SetFree, Tiled, BlockHeader
<1>5. \A a \in DOMAIN m : /\ m[a].size = l[a].size
                          /\ m[a].next = l[a].next
                          /\ m[a].prev = l[a].prev
  BY <1>1, <1>2, <1>3 DEF Tiled, BlockHeader
<1>6. Tiled(m)
  <2> HIDE DEF m
  <2> QED BY <1>1, <1>4, <1>5 DEF Tiled, EndsAtNext, NoneInside, PrevBehind
<1> QED BY <1>1, <1>2, <1>3, <1>6

\* What split() makes of l.
SplitShape(l, e, s) ==
  LET m == Split(l, e, s)
      second == e + HDR + s
  IN  /\ Tiled(m)
      /\ second \notin DOMAIN l
      /\ DOMAIN m = DOMAIN l \cup {second}
      /\ m[e].size = s /\ m[e].free = l[e].free
      /\ m[e].next = second /\ m[e].prev = l[e].prev
      /\ m[second].free /\ m[second].next = l[e].next
      /\ m[second].size = l[e].size - s - HDR
      /\ \A a \in DOMAIN l \ {e} : m[a] = l[a]

\* split() on a block with room for a second header.
LEMMA SplitTiled ==
  ASSUME NEW l, Tiled(l), NEW e \in DOMAIN l, NEW s \in Nat, HasRoom(l, e, s)
  PROVE  SplitShape(l, e, s)
<1> DEFINE m == Split(l, e, s)
           second == e + HDR + s
<1>0. e \in Nat /\ HDR \in Nat \ {0} /\ l[e] \in BlockHeader /\ second \in Nat /\ second > e
  BY HeapSizeAssumption DEF Tiled
<1>1. second \notin DOMAIN l
  BY <1>0 DEF Tiled, NoneInside, HasRoom, BlockHeader
<1>2. DOMAIN m = DOMAIN l \cup {second} BY DEF Split
<1>3. m[second] = [size |-> l[e].size - s - HDR, free |-> TRUE, prev |-> e, next |-> l[e].next]
  BY <1>0 DEF Split
<1>4. m[e] = [l[e] EXCEPT !.size = s, !.next = second]
  BY <1>0 DEF Split
<1>5. \A a \in DOMAIN l \ {e} : m[a] = l[a]
  BY <1>1 DEF Split
<1>6. /\ m[e].size = s /\ m[e].free = l[e].free /\ m[e].next = second
      /\ m[e].prev = l[e].prev /\ m[e] \in BlockHeader
  BY <1>0, <1>4 DEF BlockHeader, Link
<1>7. /\ m[second].size = l[e].size - s - HDR /\ m[second].free
      /\ m[second].prev = e /\ m[second].next = l[e].next
      /\ m[second] \in BlockHeader
  BY <1>0, <1>3 DEF BlockHeader, Link, HasRoom
<1>8. m \in [DOMAIN m -> BlockHeader]
  <2>1. \A a \in DOMAIN m : m[a] \in BlockHeader
    BY <1>2, <1>5, <1>6, <1>7 DEF Tiled
  <2>2. m = [a \in DOMAIN m |-> m[a]] BY DEF Split
  <2> QED BY <2>1, <2>2
<1> HIDE DEF m
<1>9. ASSUME NEW a \in DOMAIN m PROVE EndsAtNext(m, a) /\ NoneInside(m, a) /\ PrevBehind(m, a)
  <2>0. \A b \in DOMAIN l : l[b].size \in Nat /\ b \in Nat
    BY DEF Tiled, BlockHeader
  <2>1. CASE a = second
    <3>1. EndsAtNext(m, a)
      BY <1>0, <1>2, <1>7, <2>0, <2>1 DEF Tiled, EndsAtNext
    <3>2. NoneInside(m, a)
      BY <1>0, <1>2, <1>7, <2>0, <2>1 DEF Tiled, NoneInside
    <3>3. PrevBehind(m, a)
      BY <1>0, <1>7, <2>1 DEF PrevBehind
    <3> QED BY <3>1, <3>2, <3>3
  <2>2. CASE a = e
    <3>1. EndsAtNext(m, a)
      <4>1. e + HDR + l[e].size <= HeapSize BY DEF Tiled, EndsAtNext
      <4>2. e + HDR + m[e].size = second BY <1>6
      <4>3. second < HeapSize
        BY <1>0, <2>0, <4>1, HeapSizeAssumption DEF HasRoom
      <4>4. second \in DOMAIN m BY <1>2
      <4> HIDE DEF second
      <4> QED BY <1>6, <2>2, <4>2, <4>3, <4>4, <1>0, HeapSizeAssumption DEF EndsAtNext
    <3>2. NoneInside(m, a)
      BY <1>0, <1>2, <1>6, <2>0, <2>2 DEF Tiled, NoneInside, HasRoom
    <3>3. PrevBehind(m, a)
      BY <1>6, <2>2 DEF Tiled, PrevBehind
    <3> QED BY <3>1, <3>2, <3>3
  <2>3. CASE a \in DOMAIN l \ {e}
    <3>1. EndsAtNext(m, a)
      BY <1>2, <1>5, <2>3 DEF Tiled, EndsAtNext
    <3>2. NoneInside(m, a)
      BY <1>0, <1>2, <1>5, <2>0, <2>3 DEF Tiled, NoneInside, HasRoom
    <3>3. PrevBehind(m, a)
      BY <1>5, <2>3 DEF Tiled, PrevBehind
    <3> QED BY <3>1, <3>2, <3>3
  <2> QED BY <1>2, <2>1, <2>2, <2>3
<1>10. Tiled(m)
  BY <1>0, <1>2, <1>8, <1>9 DEF Tiled
<1> QED BY <1>1, <1>2, <1>5, <1>6, <1>7, <1>10 DEF m, SplitShape

\* What merge(entry, 'n') makes of l.
MergeShape(l, e) ==
  LET m == MergeNext(l, e)
      n == l[e].next
  IN  /\ Tiled(m)
      /\ n \in DOMAIN l /\ n > e
      /\ DOMAIN m = DOMAIN l \ {n}
      /\ m[e].size = l[e].size + l[n].size + HDR
      /\ m[e].next = l[n].next
      /\ \A a \in DOMAIN m : m[a].free = l[a].free
      /\ \A a \in DOMAIN m \ {e} : m[a].size = l[a].size /\ m[a].next = l[a].next
      /\ \A a \in DOMAIN m : a <= n => m[a].prev = l[a].prev

\* merge(entry, 'n') takes the next header off the list.
LEMMA MergeNextTiled ==
  ASSUME NEW l, Tiled(l), NEW e \in DOMAIN l, l[e].next # NULL
  PROVE  MergeShape(l, e)
<1> DEFINE m == MergeNext(l, e)
           n == l[e].next
           nn == l[n].next
<1>0. /\ HDR \in Nat \ {0} /\ HeapSize \in Nat /\ NULL \notin Nat
      /\ \A a \in DOMAIN l : /\ a \in Nat /\ l[a] \in BlockHeader /\ l[a].size \in Nat
                            /\ l[a].free \in BOOLEAN /\ l[a].prev \in Link
                            /\ l[a].next \in Link
  BY HeapSizeAssumption DEF Tiled, BlockHeader, NULL
<1>1. n \in DOMAIN l /\ n = e + HDR + l[e].size /\ n > e /\ n \in Nat /\ n # 0
  BY <1>0 DEF Tiled, EndsAtNext
<1>2. nn # NULL => nn \in DOMAIN l /\ nn > n /\ nn = n + HDR + l[n].size
  BY <1>0, <1>1 DEF Tiled, EndsAtNext
<1>3. DOMAIN m = DOMAIN l \ {n} BY DEF MergeNext
<1>4. nn # e /\ e # n
  BY <1>0, <1>1, <1>2
<1>5. m[e] = [l[e] EXCEPT !.size = l[e].size + l[n].size + HDR, !.next = nn]
  BY <1>4, <1>1 DEF MergeNext
<1>6. nn # NULL => m[nn] = [l[nn] EXCEPT !.prev = e]
  BY <1>0, <1>1, <1>2, <1>4 DEF MergeNext
<1>7. \A a \in DOMAIN l \ {e, n, nn} : m[a] = l[a]
  BY DEF MergeNext
<1>8. /\ m[e].size = l[e].size + l[n].size + HDR /\ m[e].next = nn
      /\ m[e].free = l[e].free /\ m[e].prev = l[e].prev /\ m[e] \in BlockHeader
  <2>1. nn \in Link /\ l[e].size + l[n].size + HDR \in Nat /\ l[e] \in BlockHeader
    BY <1>0, <1>1
  <2> HIDE DEF n, nn, m
  <2> QED BY <1>5, <2>1 DEF BlockHeader
<1>9. nn # NULL => /\ m[nn].size = l[nn].size /\ m[nn].next = l[nn].next
                   /\ m[nn].free = l[nn].free /\ m[nn].prev = e /\ m[nn] \in BlockHeader
  <2> HIDE DEF n, nn, m
  <2> QED BY <1>0, <1>2, <1>6 DEF BlockHeader, Link
<1>10. m \in [DOMAIN m -> BlockHeader]
  <2>1. \A a \in DOMAIN m : m[a] \in BlockHeader
    <3> HIDE DEF m, n, nn
    <3> QED BY <1>0, <1>1, <1>2, <1>3, <1>7, <1>8, <1>9
  <2>2. m = [a \in DOMAIN m |-> m[a]] BY DEF MergeNext
  <2> QED BY <2>1, <2>2
<1> HIDE DEF m, nn, n
<1>11. ASSUME NEW a \in DOMAIN m
       PROVE /\ m[a].free = l[a].free
             /\ a # e => m[a].size = l[a].size /\ m[a].next = l[a].next
             /\ a <= n => m[a].prev = l[a].prev
  BY <1>0, <1>1, <1>2, <1>3, <1>7, <1>8, <1>9
<1>12. ASSUME NEW a \in DOMAIN m PROVE EndsAtNext(m, a)
  <2>1. CASE a = e
    <3>1. EndsAtNext(l, n) BY <1>1 DEF Tiled
    <3>2. n + HDR + l[n].size = e + HDR + m[e].size
      BY <1>0, <1>1, <1>8
    <3> QED BY <1>0, <1>1, <1>2, <1>3, <1>8, <2>1, <3>1, <3>2 DEF EndsAtNext, nn
  <2>2. CASE a # e
    <3>1. EndsAtNext(l, a) /\ NoneInside(l, a) /\ a \in DOMAIN l BY <1>3 DEF Tiled
    <3>2. NoneInside(l, e) BY DEF Tiled
    <3>3. a + HDR + l[a].size # n
      BY <1>0, <1>1, <1>3, <2>2, <3>1, <3>2 DEF NoneInside
    <3> QED BY <1>3, <1>11, <2>2, <3>1, <3>3 DEF EndsAtNext
  <2> QED BY <2>1, <2>2
<1>13. ASSUME NEW a \in DOMAIN m PROVE NoneInside(m, a)
  <2>1. CASE a = e
    <3>1. NoneInside(l, n) /\ NoneInside(l, e) BY <1>1 DEF Tiled
    <3> QED BY <1>0, <1>1, <1>3, <1>8, <2>1, <3>1 DEF NoneInside
  <2>2. CASE a # e
    <3>1. NoneInside(l, a) /\ a \in DOMAIN l BY <1>3 DEF Tiled
    <3> QED BY <1>0, <1>3, <1>11, <2>2, <3>1 DEF NoneInside
  <2> QED BY <2>1, <2>2
<1>14. ASSUME NEW a \in DOMAIN m PROVE PrevBehind(m, a)
  <2>1. PrevBehind(l, a) /\ a \in DOMAIN l BY <1>3 DEF Tiled
  <2>2. CASE a = nn
    BY <1>0, <1>1, <1>2, <1>9, <2>1, <2>2 DEF PrevBehind
  <2>3. CASE a = e
    BY <1>8, <2>1, <2>3 DEF PrevBehind
  <2>4. CASE a \notin {nn, e}
    BY <1>3, <1>7, <2>1, <2>4 DEF PrevBehind
  <2> QED BY <2>2, <2>3, <2>4
<1>15. Tiled(m)
  BY <1>0, <1>1, <1>3, <1>10, <1>12, <1>13, <1>14 DEF Tiled
<1> QED BY <1>1, <1>3, <1>8, <1>11, <1>15 DEF m, n, nn, MergeShape

\* merge(entry, 'p') with a true neighbour is merge(prev, 'n').
LEMMA MergePrevIsMergeNext ==
  ASSUME NEW l, Tiled(l), NEW e \in DOMAIN l, l[e].prev \in DOMAIN l,
         Neighbours(l, l[e].prev, e)
  PROVE  MergePrev(l, e) = MergeNext(l, l[e].prev) /\ l[l[e].prev].next # NULL
<1> DEFINE p == l[e].prev
<1>1. l[p].next = e /\ e \in Nat /\ p \in Nat /\ p < e /\ NULL \notin Nat
  BY DEF Neighbours, Tiled, PrevBehind, NULL
<1>2. {b \in DOMAIN l : b <= p \/ b > e} = DOMAIN l \ {e}
  <2>1. NoneInside(l, p) /\ EndsAtNext(l, p) BY DEF Tiled
  <2>2. p + HDR + l[p].size = e
    BY <1>1, <2>1 DEF EndsAtNext
  <2>3. DOMAIN l \subseteq Nat BY DEF Tiled
  <2> HIDE DEF p
  <2> QED BY <1>1, <2>1, <2>2, <2>3 DEF NoneInside
<1> QED BY <1>1, <1>2 DEF MergePrev, MergeNext

-----------------------------------------------------------------------------
(* What they do to the match between used blocks and owners.               *)

Owners(o) == DOMAIN o \subseteq Nat /\ o \in [DOMAIN o -> Nat]

LEMMA OwnersKept ==
  ASSUME NEW o, Owners(o), NEW p \in Nat, NEW n \in Nat
  PROVE  Owners(Own(o, p, n)) /\ Owners(Disown(o, p))
BY DEF Owners, Own, Disown

\* A free block is cut in two.
LEMMA SplitFreeMatches ==
  ASSUME NEW l, Tiled(l), NEW o, Owners(o), Matches(l, o),
         NEW e \in DOMAIN l, l[e].free, NEW s \in Nat, HasRoom(l, e, s)
  PROVE  Matches(Split(l, e, s), o)
<1> DEFINE m == Split(l, e, s)
           second == e + HDR + s
<1>1. /\ second \notin DOMAIN l /\ DOMAIN m = DOMAIN l \cup {second}
      /\ m[second].free /\ m[e].free = l[e].free
      /\ \A a \in DOMAIN l \ {e} : m[a] = l[a]
  <2>1. SplitShape(l, e, s) BY SplitTiled
  <2> QED BY <2>1 DEF SplitShape
<1> HIDE DEF m, second
<1>2. Matches(m, o) BY <1>1 DEF Matches
<1> QED BY <1>2 DEF m

\* A used block gives up what its owner does not need.
LEMMA SplitUsedMatches ==
  ASSUME NEW l, Tiled(l), NEW o, Owners(o), Matches(l, o),
         NEW e \in DOMAIN l, ~l[e].free, NEW s \in Nat, HasRoom(l, e, s),
         o[e + HDR] <= s
  PROVE  Matches(Split(l, e, s), o)
<1> DEFINE m == Split(l, e, s)
           second == e + HDR + s
<1>0. e \in Nat /\ HDR \in Nat BY HeapSizeAssumption DEF Tiled
<1>1. /\ second \notin DOMAIN l /\ DOMAIN m = DOMAIN l \cup {second}
      /\ m[second].free /\ m[e].free = l[e].free /\ m[e].size = s
      /\ \A a \in DOMAIN l \ {e} : m[a] = l[a]
  <2>1. SplitShape(l, e, s) BY SplitTiled
  <2> QED BY <2>1 DEF SplitShape
<1> HIDE DEF m, second
<1>2. ASSUME NEW p \in DOMAIN o
      PROVE  p - HDR \in DOMAIN m /\ ~m[p - HDR].free /\ m[p - HDR].size >= o[p]
  <2>1. CASE p - HDR = e
    <3>1. p = e + HDR BY <1>0, <2>1 DEF Owners
    <3> QED BY <1>0, <1>1, <2>1, <3>1 DEF Owners
  <2>2. CASE p - HDR # e
    BY <1>1, <2>2 DEF Matches
  <2> QED BY <2>1, <2>2
<1>3. ASSUME NEW a \in DOMAIN m, ~m[a].free PROVE a + HDR \in DOMAIN o
  BY <1>1, <1>3 DEF Matches
<1>4. Matches(m, o) BY <1>2, <1>3 DEF Matches
<1> QED BY <1>4 DEF m

\* Whoever owned the block that is merged away owns nothing afterwards.
LEMMA MergeMatches ==
  ASSUME NEW l, Tiled(l), NEW o, Owners(o), Matches(l, o),
         NEW e \in DOMAIN l, l[e].next # NULL
  PROVE  Matches(MergeNext(l, e), Disown(o, l[e].next + HDR))
<1> DEFINE m == MergeNext(l, e)
           n == l[e].next
           d == Disown(o, n + HDR)
<1>0. HDR \in Nat /\ \A a \in DOMAIN l : a \in Nat /\ l[a].size \in Nat
  BY HeapSizeAssumption DEF Tiled, BlockHeader
<1>1. /\ n \in DOMAIN l /\ DOMAIN m = DOMAIN l \ {n}
      /\ m[e].size = l[e].size + l[n].size + HDR
      /\ \A a \in DOMAIN m : m[a].free = l[a].free
      /\ \A a \in DOMAIN m \ {e} : m[a].size = l[a].size
  <2>1. MergeShape(l, e) BY MergeNextTiled
  <2> QED BY <2>1 DEF MergeShape
<1>2. DOMAIN d = DOMAIN o \ {n + HDR} /\ \A p \in DOMAIN d : d[p] = o[p]
  BY DEF Disown
<1> HIDE DEF m, n, d
<1>3. ASSUME NEW p \in DOMAIN d
      PROVE  p - HDR \in DOMAIN m /\ ~m[p - HDR].free /\ m[p - HDR].size >= d[p]
  <2>1. p \in Nat /\ o[p] \in Nat BY <1>2 DEF Owners
  <2>2. p - HDR \in DOMAIN l /\ ~l[p - HDR].free /\ l[p - HDR].size >= o[p]
    BY <1>2 DEF Matches
  <2>3. p - HDR # n BY <1>0, <1>1, <1>2, <2>1
  <2>4. CASE p - HDR = e BY <1>0, <1>1, <1>2, <2>1, <2>2, <2>3, <2>4
  <2>5. CASE p - HDR # e BY <1>0, <1>1, <1>2, <2>1, <2>2, <2>3, <2>5
  <2> QED BY <2>4, <2>5
<1>4. ASSUME NEW a \in DOMAIN m, ~m[a].free PROVE a + HDR \in DOMAIN d
  BY <1>0, <1>1, <1>2, <1>4 DEF Matches
<1>5. Matches(m, d) BY <1>3, <1>4 DEF Matches
<1> QED BY <1>5 DEF m, n, d

\* A free block has no owner to lose.
LEMMA MergeFreeMatches ==
  ASSUME NEW l, Tiled(l), NEW o, Owners(o), Matches(l, o),
         NEW e \in DOMAIN l, NextFree(l, e)
  PROVE  Matches(MergeNext(l, e), o)
<1>1. l[e].next \in DOMAIN l /\ l[e].next \in Nat /\ HDR \in Nat
  <2>1. MergeShape(l, e) BY MergeNextTiled DEF NextFree
  <2> QED BY <2>1, HeapSizeAssumption DEF MergeShape, Tiled
<1>2. l[e].next + HDR \notin DOMAIN o
  <2>1. (l[e].next + HDR) - HDR = l[e].next BY <1>1
  <2> QED BY <2>1 DEF Matches, NextFree
<1>3. Disown(o, l[e].next + HDR) = o
  BY <1>2 DEF Disown, Owners
<1> QED BY <1>3, MergeMatches DEF NextFree

\* A caller takes a free block.
LEMMA TakeMatches ==
  ASSUME NEW l, Tiled(l), NEW o, Owners(o), Matches(l, o),
         NEW e \in DOMAIN l, NEW n \in Nat, l[e].size >= n
  PROVE  Matches(SetFree(l, e, FALSE), Own(o, e + HDR, n))
<1> DEFINE m == SetFree(l, e, FALSE)
           w == Own(o, e + HDR, n)
<1>0. HDR \in Nat /\ \A a \in DOMAIN l : a \in Nat /\ l[a] \in BlockHeader
  BY HeapSizeAssumption DEF Tiled
<1>1. /\ DOMAIN m = DOMAIN l /\ m[e] = [l[e] EXCEPT !.free = FALSE]
      /\ \A a \in DOMAIN l \ {e} : m[a] = l[a]
  BY SetFreeTiled
<1>2. ~m[e].free /\ m[e].size = l[e].size BY <1>0, <1>1 DEF BlockHeader
<1>3. /\ DOMAIN w = DOMAIN o \cup {e + HDR} /\ w[e + HDR] = n
      /\ \A p \in DOMAIN o \ {e + HDR} : w[p] = o[p]
  BY DEF Own
<1> HIDE DEF m, w
<1>4. ASSUME NEW p \in DOMAIN w
      PROVE  p - HDR \in DOMAIN m /\ ~m[p - HDR].free /\ m[p - HDR].size >= w[p]
  <2>1. CASE p = e + HDR
    <3>1. p - HDR = e BY <1>0, <2>1
    <3> QED BY <1>1, <1>2, <1>3, <2>1, <3>1
  <2>2. CASE p # e + HDR
    <3>1. p - HDR # e /\ p \in DOMAIN o BY <1>0, <1>3, <2>2 DEF Owners
    <3> QED BY <1>1, <1>3, <2>2, <3>1 DEF Matches
  <2> QED BY <2>1, <2>2
<1>5. ASSUME NEW a \in DOMAIN m, ~m[a].free PROVE a + HDR \in DOMAIN w
  BY <1>1, <1>3, <1>5 DEF Matches
<1>6. Matches(m, w) BY <1>4, <1>5 DEF Matches
<1> QED BY <1>6 DEF m, w

\* An owner asks for another size of a block that has it.
LEMMA ResizeMatches ==
  ASSUME NEW l, Tiled(l), NEW o, Owners(o), Matches(l, o),
         NEW p \in DOMAIN o, NEW n \in Nat, l[p - HDR].size >= n
  PROVE  Matches(l, Own(o, p, n))
BY DEF Matches, Own

\* An owner gives its block back.
LEMMA GiveBackMatches ==
  ASSUME NEW l, Tiled(l), NEW o, Owners(o), Matches(l, o), NEW p \in DOMAIN o
  PROVE  Matches(SetFree(l, p - HDR, TRUE), Disown(o, p))
<1> DEFINE e == p - HDR
           m == SetFree(l, e, TRUE)
           d == Disown(o, p)
<1>0. HDR \in Nat /\ p \in Nat /\ e \in DOMAIN l /\ l \in [DOMAIN l -> BlockHeader]
  BY HeapSizeAssumption DEF Tiled, Owners, Matches
<1>1. /\ DOMAIN m = DOMAIN l /\ m[e] = [l[e] EXCEPT !.free = TRUE]
      /\ \A a \in DOMAIN l \ {e} : m[a] = l[a]
  BY <1>0, SetFreeTiled
<1>2. m[e].free BY <1>0, <1>1 DEF BlockHeader
<1>3. DOMAIN d = DOMAIN o \ {p} /\ \A q \in DOMAIN d : d[q] = o[q]
  BY DEF Disown
<1>4. e + HDR = p BY <1>0
<1> HIDE DEF m, d
<1>5. ASSUME NEW q \in DOMAIN d PROVE q - HDR # e /\ q \in DOMAIN o
  BY <1>0, <1>3 DEF Owners
<1> HIDE DEF e
<1>6. ASSUME NEW q \in DOMAIN d
      PROVE  q - HDR \in DOMAIN m /\ ~m[q - HDR].free /\ m[q - HDR].size >= d[q]
  BY <1>1, <1>3, <1>5 DEF Matches
<1>7. ASSUME NEW a \in DOMAIN m, ~m[a].free PROVE a + HDR \in DOMAIN d
  <2>1. a # e /\ a \in DOMAIN l /\ ~l[a].free BY <1>1, <1>2, <1>7
  <2>2. a + HDR # p BY <1>0, <1>4, <2>1 DEF Tiled
  <2> QED BY <1>3, <2>1, <2>2 DEF Matches
<1>8. Matches(m, d) BY <1>6, <1>7 DEF Matches
<1> QED BY <1>8 DEF m, d, e

-----------------------------------------------------------------------------
(* The calls.                                                              *)

Sound(l, o) == Tiled(l) /\ Owners(o) /\ Matches(l, o)

\* malloc's last lines: split when it is worth it, then mark used.
LEMMA TakeSound ==
  ASSUME NEW l, NEW o, Sound(l, o), NEW e \in DOMAIN l, l[e].free,
         NEW n \in Nat, l[e].size >= n
  PROVE  /\ Sound(Take(l, e, n), Own(o, e + HDR, n))
         /\ \A a \in DOMAIN l \ {e} : a \in DOMAIN Take(l, e, n) /\ Take(l, e, n)[a] = l[a]
<1>0. /\ HDR \in Nat /\ e \in Nat /\ e + HDR \in Nat /\ l[e].size \in Nat
      /\ Tiled(l) /\ Owners(o) /\ Matches(l, o)
  BY HeapSizeAssumption DEF Sound, Tiled, BlockHeader
<1>1. Owners(Own(o, e + HDR, n)) BY <1>0, OwnersKept
<1>2. CASE l[e].size > (n + HDR) * 2
  <2> DEFINE m == Split(l, e, n)
  <2>1. HasRoom(l, e, n) BY <1>0, <1>2 DEF HasRoom
  <2>2. SplitShape(l, e, n) BY <1>0, <2>1, SplitTiled
  <2>3. Matches(m, o) BY <1>0, <2>1, SplitFreeMatches
  <2>4. /\ Tiled(m) /\ e \in DOMAIN m /\ m[e].size = n /\ DOMAIN l \subseteq DOMAIN m
        /\ \A a \in DOMAIN l \ {e} : m[a] = l[a]
    BY <2>2 DEF SplitShape
  <2>5. Take(l, e, n) = SetFree(m, e, FALSE) BY <1>2 DEF Take
  <2> HIDE DEF m
  <2>6. Matches(SetFree(m, e, FALSE), Own(o, e + HDR, n))
    <3>1. m[e].size >= n BY <2>4
    <3> QED BY <1>0, <2>3, <2>4, <3>1, TakeMatches
  <2>7. /\ Tiled(SetFree(m, e, FALSE)) /\ DOMAIN SetFree(m, e, FALSE) = DOMAIN m
        /\ \A a \in DOMAIN m \ {e} : SetFree(m, e, FALSE)[a] = m[a]
    BY <2>4, SetFreeTiled
  <2> QED BY <1>1, <2>4, <2>5, <2>6, <2>7 DEF Sound
<1>3. CASE ~(l[e].size > (n + HDR) * 2)
  <2>1. Take(l, e, n) = SetFree(l, e, FALSE) BY <1>3 DEF Take
  <2>2. Matches(SetFree(l, e, FALSE), Own(o, e + HDR, n))
    BY <1>0, TakeMatches
  <2>3. /\ Tiled(SetFree(l, e, FALSE)) /\ DOMAIN SetFree(l, e, FALSE) = DOMAIN l
        /\ \A a \in DOMAIN l \ {e} : SetFree(l, e, FALSE)[a] = l[a]
    BY <1>0, SetFreeTiled
  <2> QED BY <1>1, <2>1, <2>2, <2>3 DEF Sound
<1> QED BY <1>2, <1>3

LEMMA InvIsSound == IInv /\ fault = "none" => Sound(list, owned)
BY DEF IInv, TypeOK, Sound, Owners

\* A step that ends without a fault and with sound data keeps the invariant.
LEMMA SoundIsEnough ==
  ASSUME IInv, Sound(list', owned'), fault' = "none", atNull' \in Link \cup {atNull},
         \/ call' = Idle
         \/ /\ call' \in [at : {"backward", "forward"}, entry : Link]
            /\ call'.entry \in DOMAIN list' /\ list'[call'.entry].free
  PROVE  IInv'
<1>0. atNull' \in Link BY DEF IInv, TypeOK
<1>1. TypeOK' BY <1>0 DEF TypeOK, Sound, Tiled, Owners, Idle, Link, Faults
<1>2. CallOK' BY DEF CallOK, Idle
<1> QED BY <1>1, <1>2 DEF IInv, Sound

\* A step that ends in a fault and changes no data keeps it too.
LEMMA FaultIsEnough ==
  ASSUME IInv, fault' \in Faults \ {"none"}, UNCHANGED <<list, owned, call, atNull>>
  PROVE  IInv'
BY DEF IInv, TypeOK, CallOK

\* Whatever a merge leaves at NULL->prev is a link.
LEMMA AfterMergeIsLink ==
  ASSUME NEW l, Tiled(l), NEW e \in DOMAIN l
  PROVE  AfterMergeNext(l, e) \in Link \cup {atNull} /\ AfterMergePrev(l, e) \in Link \cup {atNull}
BY DEF AfterMergeNext, AfterMergePrev, Tiled, BlockHeader, Link

LEMMA MallocInv == ASSUME IInv, NEW n \in Nat, Malloc(n) PROVE IInv'
<1>1. fault = "none" /\ call = Idle /\ UNCHANGED <<call, atNull, fault>> BY DEF Malloc, Ready
<1>2. PICK e \in DOMAIN list : /\ IsFirst(e, {a \in DOMAIN list : Suits(a, n)})
                               /\ list' = Take(list, e, n)
                               /\ owned' = Own(owned, e + HDR, n)
  BY DEF Malloc
<1>3. list[e].free /\ list[e].size >= n BY <1>2 DEF IsFirst, Suits
<1>4. Sound(list', owned') BY <1>1, <1>2, <1>3, InvIsSound, TakeSound
<1> QED BY <1>1, <1>4, SoundIsEnough

LEMMA MallocAlignedInv ==
  ASSUME IInv, NEW n \in Nat, NEW align \in Nat \ {0}, MallocAligned(n, align)
  PROVE  IInv'
<1>1. fault = "none" /\ call = Idle /\ UNCHANGED <<call, atNull, fault>>
  BY DEF MallocAligned, Ready
<1>2. Sound(list, owned) BY <1>1, InvIsSound
<1>3. PICK e \in DOMAIN list :
        /\ IsFirst(e, {a \in DOMAIN list : SuitsAligned(a, n, align)})
        /\ LET pad == Padding(e, align)
               b   == IF pad > HDR THEN e + pad ELSE e
               l   == IF pad > HDR THEN Split(list, e, pad - HDR) ELSE list
           IN  /\ list' = Take(l, b, n)
               /\ owned' = Own(owned, b + HDR, n)
  BY DEF MallocAligned
<1> DEFINE pad == Padding(e, align)
<1>4. HDR \in Nat /\ e \in Nat /\ list[e].size \in Nat
  BY <1>2, HeapSizeAssumption DEF Sound, Tiled, BlockHeader
<1>5. pad \in Int BY <1>4 DEF Padding
<1>6. list[e].free /\ list[e].size >= n + pad /\ pad >= HDR
  BY <1>3 DEF IsFirst, SuitsAligned, Suits
<1> HIDE DEF pad
<1>7. CASE pad > HDR
  <2> DEFINE l == Split(list, e, pad - HDR)
  <2>1. list' = Take(l, e + pad, n) /\ owned' = Own(owned, e + pad + HDR, n)
    BY <1>3, <1>7 DEF pad
  <2>2. pad - HDR \in Nat /\ HasRoom(list, e, pad - HDR) /\ e + HDR + (pad - HDR) = e + pad
    BY <1>4, <1>5, <1>6, <1>7 DEF HasRoom
  <2>3. SplitShape(list, e, pad - HDR) BY <1>2, <2>2, SplitTiled DEF Sound
  <2>4. Matches(l, owned) BY <1>2, <1>6, <2>2, SplitFreeMatches DEF Sound
  <2>5. Sound(l, owned) BY <1>2, <2>3, <2>4 DEF Sound, SplitShape
  <2>6. e + pad \in DOMAIN l /\ l[e + pad].free /\ l[e + pad].size >= n
    <3>1. /\ e + pad \in DOMAIN l /\ l[e + pad].free
          /\ l[e + pad].size = list[e].size - (pad - HDR) - HDR
      BY <2>2, <2>3 DEF SplitShape
    <3> HIDE DEF l
    <3> QED BY <1>4, <1>5, <1>6, <3>1
  <2> HIDE DEF l
  <2>7. Sound(list', owned') BY <2>1, <2>5, <2>6, TakeSound
  <2> QED BY <1>1, <2>7, SoundIsEnough
<1>8. CASE ~(pad > HDR)
  <2>1. list' = Take(list, e, n) /\ owned' = Own(owned, e + HDR, n)
    BY <1>3, <1>8 DEF pad
  <2>2. list[e].size >= n BY <1>4, <1>5, <1>6
  <2>3. Sound(list', owned') BY <1>2, <1>6, <2>1, <2>2, TakeSound
  <2> QED BY <1>1, <2>3, SoundIsEnough
<1> QED BY <1>7, <1>8

LEMMA FreeInv == ASSUME IInv, NEW p \in DOMAIN owned, Free(p) PROVE IInv'
<1>1. fault = "none" /\ Sound(list, owned) BY InvIsSound DEF Free, Ready
<1>2. /\ list' = SetFree(list, p - HDR, TRUE) /\ owned' = Disown(owned, p)
      /\ call' = [at |-> "backward", entry |-> p - HDR] /\ fault' = "none" /\ UNCHANGED atNull
  BY <1>1 DEF Free
<1>3. p - HDR \in DOMAIN list /\ p \in Nat BY <1>1 DEF Sound, Matches, Owners
<1>4. /\ Tiled(list') /\ DOMAIN list' = DOMAIN list
      /\ list'[p - HDR] = [list[p - HDR] EXCEPT !.free = TRUE]
  BY <1>1, <1>2, <1>3, SetFreeTiled DEF Sound
<1>5. list'[p - HDR].free
  BY <1>1, <1>3, <1>4 DEF Sound, Tiled, BlockHeader
<1>6. Sound(list', owned')
  <2>1. Matches(list', owned') BY <1>1, <1>2, GiveBackMatches DEF Sound
  <2>2. Owners(owned') BY <1>1, <1>2, <1>3, OwnersKept DEF Sound
  <2> QED BY <1>4, <2>1, <2>2 DEF Sound
<1>7. p - HDR \in Link BY <1>1, <1>3 DEF Sound, Tiled, Link
<1> QED BY <1>2, <1>3, <1>4, <1>5, <1>6, <1>7, SoundIsEnough

\* A merge with the free block behind, whichever loop makes it.
LEMMA MergeSound ==
  ASSUME NEW l, NEW o, Sound(l, o), NEW e \in DOMAIN l, NextFree(l, e)
  PROVE  /\ Sound(MergeNext(l, e), o)
         /\ e \in DOMAIN MergeNext(l, e)
         /\ MergeNext(l, e)[e].free = l[e].free
         /\ MergeNext(l, e)[e].size = l[e].size + l[l[e].next].size + HDR
<1>1. MergeShape(l, e) BY MergeNextTiled DEF Sound, NextFree
<1>2. Matches(MergeNext(l, e), o) BY MergeFreeMatches DEF Sound
<1>3. e \in DOMAIN MergeNext(l, e)
  BY <1>1 DEF MergeShape, Sound, Tiled
<1> QED BY <1>1, <1>2, <1>3 DEF Sound, MergeShape

LEMMA FreeBackwardInv == ASSUME IInv, FreeBackward PROVE IInv'
<1> DEFINE e == call.entry
           p == list[e].prev
<1>1. /\ fault = "none" /\ call.at = "backward" /\ UNCHANGED owned
      /\ Sound(list, owned) /\ e \in DOMAIN list /\ list[e].free
  BY InvIsSound DEF FreeBackward, IInv, CallOK, Idle
<1>2. CASE PrevFree(list, e) /\ list' = MergePrev(list, e)
           /\ call' = [call EXCEPT !.entry = p] /\ atNull' = AfterMergePrev(list, e)
           /\ fault' = IF Neighbours(list, p, e) THEN "none" ELSE "merge"
  <2>0. p \in DOMAIN list /\ list[p].free BY <1>2 DEF PrevFree
  <2>1. call' = [at |-> "backward", entry |-> p] BY <1>1, <1>2 DEF IInv, TypeOK
  <2>2. p \in Link BY <1>1, <2>0 DEF Sound, Tiled, Link
  <2>2a. atNull' \in Link \cup {atNull} BY <1>1, <1>2, AfterMergeIsLink DEF Sound
  <2>3. CASE Neighbours(list, p, e)
    <3>1. list' = MergeNext(list, p) /\ NextFree(list, p)
      BY <1>1, <1>2, <2>0, <2>3, MergePrevIsMergeNext DEF Sound, NextFree, Neighbours
    <3>2. Sound(list', owned') /\ p \in DOMAIN list' /\ list'[p].free
      BY <1>1, <2>0, <3>1, MergeSound
    <3>3. /\ call' \in [at : {"backward", "forward"}, entry : Link]
          /\ call'.entry = p
      BY <2>1, <2>2
    <3>4. fault' = "none" BY <1>2, <2>3
    <3> HIDE DEF p, e
    <3> QED BY <2>2a, <3>2, <3>3, <3>4, SoundIsEnough
  <2>4. CASE ~Neighbours(list, p, e)
    <3>1. fault' = "merge" BY <1>2, <2>4
    <3>2. \A a \in DOMAIN list : a \in Nat /\ list[a] \in BlockHeader
      BY <1>1 DEF Sound, Tiled
    <3>3. DOMAIN list' \subseteq DOMAIN list BY <1>2 DEF MergePrev
    <3>4. ASSUME NEW a \in DOMAIN list' PROVE list'[a] \in BlockHeader
      <4>1. CASE a = p
        <5>1. list'[a] = [list[p] EXCEPT !.size = list[p].size + list[e].size + HDR,
                                         !.next = list[e].next]
          <6>1. p < e /\ list[e].size \in Nat /\ list[e].next # p
            BY <1>1, <2>0, <3>2, HeapSizeAssumption
               DEF Sound, Tiled, PrevBehind, EndsAtNext, BlockHeader, NULL
          <6> QED BY <1>2, <4>1, <2>0, <3>2, <6>1 DEF MergePrev
        <5>2. list[p] \in BlockHeader /\ list[e] \in BlockHeader BY <1>1, <2>0, <3>2
        <5>3. list[p].size + list[e].size + HDR \in Nat /\ list[e].next \in Link
          BY <5>2, HeapSizeAssumption DEF BlockHeader
        <5> HIDE DEF p, e
        <5> QED BY <5>1, <5>2, <5>3 DEF BlockHeader
      <4>2. CASE a # p
        <5>1. list'[a] \in {list[a], [list[a] EXCEPT !.prev = p]}
          BY <1>2, <4>2, <2>0 DEF MergePrev
        <5>2. list[a] \in BlockHeader BY <3>2, <3>3
        <5> HIDE DEF p, e
        <5> QED BY <2>2, <5>1, <5>2 DEF BlockHeader
      <4> QED BY <4>1, <4>2
    <3>5. list' \in [DOMAIN list' -> BlockHeader]
      <4>1. list' = [a \in DOMAIN list' |-> list'[a]] BY <1>2 DEF MergePrev
      <4> QED BY <3>4, <4>1
    <3>6. TypeOK'
      BY <1>1, <2>1, <2>2, <2>2a, <3>1, <3>2, <3>3, <3>5 DEF IInv, TypeOK, Faults
    <3>7. CallOK' BY <2>1, <3>1 DEF CallOK, Idle
    <3> QED BY <3>1, <3>6, <3>7 DEF IInv
  <2> QED BY <2>3, <2>4
<1>3. CASE fault' = "ghost" /\ UNCHANGED <<list, call, atNull>>
  BY <1>1, <1>3, FaultIsEnough DEF Faults
<1>4. CASE call' = [call EXCEPT !.at = "forward"] /\ UNCHANGED <<list, atNull, fault>>
  <2>1. call' \in [at : {"backward", "forward"}, entry : Link] /\ call'.entry = e
    BY <1>4 DEF IInv, TypeOK
  <2>2. Sound(list', owned') /\ e \in DOMAIN list' /\ list'[e].free /\ fault' = "none"
    BY <1>1, <1>4
  <2> QED BY <1>4, <2>1, <2>2, SoundIsEnough
<1> QED BY <1>2, <1>3, <1>4 DEF FreeBackward

LEMMA FreeForwardInv == ASSUME IInv, FreeForward PROVE IInv'
<1> DEFINE e == call.entry
<1>1. /\ fault = "none" /\ call.at = "forward" /\ UNCHANGED <<owned, fault>>
      /\ Sound(list, owned) /\ e \in DOMAIN list /\ list[e].free
  BY InvIsSound DEF FreeForward, IInv, CallOK, Idle
<1>2. CASE /\ NextFree(list, e) /\ list' = MergeNext(list, e) /\ UNCHANGED call
           /\ atNull' = AfterMergeNext(list, e)
  <2>1. Sound(list', owned') /\ e \in DOMAIN list' /\ list'[e].free
    BY <1>1, <1>2, MergeSound
  <2>2. call' \in [at : {"backward", "forward"}, entry : Link] /\ call'.entry = e
    BY <1>1, <1>2 DEF IInv, TypeOK
  <2>3. atNull' \in Link \cup {atNull} BY <1>1, <1>2, AfterMergeIsLink DEF Sound
  <2> QED BY <1>1, <2>1, <2>2, <2>3, SoundIsEnough
<1>3. CASE call' = Idle /\ UNCHANGED <<list, atNull>>
  BY <1>1, <1>3, SoundIsEnough
<1> QED BY <1>2, <1>3 DEF FreeForward

\* The block a caller holds.
LEMMA OwnedBlock ==
  ASSUME NEW l, NEW o, Sound(l, o), NEW p \in DOMAIN o
  PROVE  /\ p \in Nat /\ HDR \in Nat \ {0} /\ (p - HDR) + HDR = p /\ o[p] \in Nat
         /\ p - HDR \in DOMAIN l /\ p - HDR \in Nat
         /\ ~l[p - HDR].free /\ l[p - HDR].size >= o[p] /\ l[p - HDR].size \in Nat
BY HeapSizeAssumption DEF Sound, Matches, Owners, Tiled, BlockHeader

LEMMA ResizeSound ==
  ASSUME NEW l, NEW o, Sound(l, o), NEW p \in DOMAIN o, NEW n \in Nat,
         l[p - HDR].size >= n
  PROVE  Sound(l, Own(o, p, n))
BY ResizeMatches, OwnersKept, OwnedBlock DEF Sound

\* Cutting a used block down to its owner's new size.
LEMMA CutSound ==
  ASSUME NEW l, NEW o, Sound(l, o), NEW p \in DOMAIN o, NEW n \in Nat,
         HasRoom(l, p - HDR, n)
  PROVE  /\ Sound(Split(l, p - HDR, n), Own(o, p, n))
         /\ SplitShape(l, p - HDR, n)
<1> DEFINE e == p - HDR
           w == Own(o, p, n)
<1>1. /\ e \in DOMAIN l /\ e + HDR = p /\ ~l[e].free /\ p \in Nat
      /\ l[e].size \in Nat /\ HDR \in Nat
  BY OwnedBlock
<1>2. l[e].size >= n BY <1>1 DEF HasRoom
<1>3. Sound(l, w) BY <1>2, ResizeSound
<1>4. w[e + HDR] <= n BY <1>1 DEF Own
<1>5. SplitShape(l, e, n) BY <1>1, SplitTiled DEF Sound
<1> HIDE DEF e, w
<1>6. HasRoom(l, e, n) BY DEF e
<1>7. Matches(Split(l, e, n), w)
  BY <1>1, <1>3, <1>4, <1>6, SplitUsedMatches DEF Sound
<1> QED BY <1>3, <1>5, <1>7 DEF Sound, SplitShape, e, w

LEMMA ReallocShrinkInv ==
  ASSUME IInv, NEW p \in DOMAIN owned, NEW n \in Nat, ReallocShrink(p, n)
  PROVE  IInv'
<1> DEFINE e == p - HDR
           l == Split(list, e, n)
           rest == l[e].next
<1>1. /\ fault = "none" /\ call = Idle /\ UNCHANGED <<call, fault>> /\ Shrinks(e, n)
      /\ list' = Trim(l, e) /\ owned' = Own(owned, p, n)
      /\ atNull' = IF Trims(l, e) THEN AfterMergeNext(l, rest) ELSE atNull
      /\ Sound(list, owned)
  BY InvIsSound DEF ReallocShrink, Ready
<1>2. HasRoom(list, e, n)
  <2>1. HDR \in Nat /\ list[e].size \in Nat BY <1>1, OwnedBlock
  <2> HIDE DEF e
  <2> QED BY <1>1, <2>1 DEF Shrinks, HasRoom
<1>3. Sound(l, owned') /\ rest \in DOMAIN l /\ l[rest].free
  <2>1. Sound(l, owned') /\ SplitShape(list, e, n)
    BY <1>1, <1>2, CutSound
  <2> QED BY <2>1 DEF SplitShape
<1>3a. atNull' \in Link \cup {atNull}
  <2> HIDE DEF l, e, rest
  <2>1. AfterMergeNext(l, rest) \in Link \cup {atNull} BY <1>3, AfterMergeIsLink DEF Sound
  <2> QED BY <1>1, <2>1
<1> HIDE DEF l, rest, e
<1>4. Sound(list', owned')
  <2>1. CASE NextFree(l, rest)
    <3>1. list' = MergeNext(l, rest) BY <1>1, <1>3, <2>1 DEF Trim, Trims, rest
    <3> QED BY <1>3, <2>1, <3>1, MergeSound
  <2>2. CASE ~NextFree(l, rest)
    <3>1. list' = l BY <1>1, <1>3, <2>2 DEF Trim, Trims, rest
    <3> QED BY <1>3, <3>1
  <2> QED BY <2>1, <2>2
<1> QED BY <1>1, <1>3a, <1>4, SoundIsEnough

LEMMA ReallocStayInv ==
  ASSUME IInv, NEW p \in DOMAIN owned, NEW n \in Nat, ReallocStay(p, n)
  PROVE  IInv'
<1>1. /\ fault = "none" /\ call = Idle /\ UNCHANGED <<list, call, atNull, fault>>
      /\ owned' = Own(owned, p, n) /\ Sound(list, owned) /\ n <= list[p - HDR].size
  BY InvIsSound DEF ReallocStay, Ready, Stays
<1>2. list[p - HDR].size >= n BY <1>1, OwnedBlock
<1>3. Sound(list', owned') BY <1>1, <1>2, ResizeSound
<1> QED BY <1>1, <1>3, SoundIsEnough

LEMMA ReallocForwardInv ==
  ASSUME IInv, NEW p \in DOMAIN owned, NEW n \in Nat, ReallocForward(p, n)
  PROVE  IInv'
<1> DEFINE e == p - HDR
           l == MergeNext(list, e)
<1>1. /\ fault = "none" /\ call = Idle /\ UNCHANGED call /\ NextFree(list, e)
      /\ Sound(list, owned)
  BY InvIsSound DEF ReallocForward, Ready, GrowsForward
<1>2. e \in DOMAIN list BY <1>1, OwnedBlock
<1>3. Sound(l, owned) BY <1>1, <1>2, MergeSound
<1>4. CASE HasRoom(l, e, n) /\ list' = Split(l, e, n) /\ owned' = Own(owned, p, n)
           /\ UNCHANGED fault /\ atNull' = AfterMergeNext(list, e)
  <2> HIDE DEF l
  <2>1. Sound(list', owned') BY <1>3, <1>4, CutSound
  <2>2. atNull' \in Link \cup {atNull} BY <1>1, <1>2, <1>4, AfterMergeIsLink DEF Sound
  <2> QED BY <1>1, <1>4, <2>1, <2>2, SoundIsEnough
<1>5. CASE fault' = "split" /\ UNCHANGED <<list, owned, atNull>>
  BY <1>1, <1>5, FaultIsEnough DEF Faults
<1> QED BY <1>4, <1>5 DEF ReallocForward

\* The moves down: l is a sound list in which p still has its block.
LEMMA MoveDownInv ==
  ASSUME IInv, fault = "none", call = Idle, NEW l, Sound(l, owned),
         NEW p \in DOMAIN owned, NEW n \in Nat,
         PrevFree(l, p - HDR), MoveDown(l, p, n)
  PROVE  IInv'
<1> DEFINE e == p - HDR
           low == l[e].prev
           m == MergePrev(l, e)
<1>1. CASE fault' # "none"
  <2>1. fault' \in Faults /\ UNCHANGED <<list, owned, call, atNull>>
    BY <1>1 DEF MoveDown, Faults
  <2> QED BY <1>1, <2>1, FaultIsEnough
<1>2. CASE fault' = "none"
  <2>1. /\ Neighbours(l, low, e) /\ HasRoom(m, low, n) /\ UNCHANGED call
        /\ list' = SetFree(Split(m, low, n), low, FALSE)
        /\ owned' = Own(Disown(owned, p), low + HDR, n)
        /\ atNull' = AfterMergePrev(l, e)
    BY <1>2 DEF MoveDown
  <2>2. e \in DOMAIN l /\ e + HDR = p /\ low \in DOMAIN l /\ l[low].free
        /\ low \in Nat /\ low + HDR \in Nat /\ p \in Nat
    BY OwnedBlock, HeapSizeAssumption DEF PrevFree, Sound, Tiled
  <2>3. m = MergeNext(l, low) /\ l[low].next # NULL /\ l[low].next = e
    BY <2>1, <2>2, MergePrevIsMergeNext DEF Sound, Neighbours
  <2>3a. atNull' \in Link \cup {atNull} BY <2>1, <2>2, AfterMergeIsLink DEF Sound
  <2>4. Tiled(m) /\ low \in DOMAIN m /\ m[low].free
    <3>1. MergeShape(l, low) BY <2>2, <2>3, MergeNextTiled DEF Sound
    <3> QED BY <2>2, <2>3, <3>1 DEF MergeShape
  <2>5. Matches(m, Disown(owned, p))
    BY <2>2, <2>3, MergeMatches DEF Sound
  <2>6. Owners(Disown(owned, p)) BY <2>2, OwnersKept DEF Sound
  <2> HIDE DEF m, low, e
  <2>7. Matches(Split(m, low, n), Disown(owned, p)) /\ SplitShape(m, low, n)
    BY <2>1, <2>4, <2>5, <2>6, SplitFreeMatches, SplitTiled
  <2>8. /\ Tiled(Split(m, low, n)) /\ low \in DOMAIN Split(m, low, n)
        /\ Split(m, low, n)[low].size = n
    BY <2>4, <2>7 DEF SplitShape
  <2>9. Split(m, low, n)[low].size >= n BY <2>8
  <2>10. Tiled(list') BY <2>1, <2>8, SetFreeTiled
  <2>11. Matches(list', owned') BY <2>1, <2>6, <2>7, <2>8, <2>9, TakeMatches
  <2>12. Owners(owned') BY <2>1, <2>2, <2>6, OwnersKept
  <2> QED BY <1>2, <2>1, <2>3a, <2>10, <2>11, <2>12, SoundIsEnough DEF Sound
<1> QED BY <1>1, <1>2

LEMMA ReallocBothWaysInv ==
  ASSUME IInv, NEW p \in DOMAIN owned, NEW n \in Nat, ReallocBothWays(p, n)
  PROVE  IInv'
<1> DEFINE e == p - HDR
           l == MergeNext(list, e)
<1>1. /\ fault = "none" /\ call = Idle /\ Sound(list, owned)
      /\ NextFree(list, e) /\ PrevFree(list, e) /\ MoveDown(l, p, n)
  BY InvIsSound DEF ReallocBothWays, Ready, GrowsBothWays
<1>2. e \in DOMAIN list /\ e \in Nat BY <1>1, OwnedBlock
<1>3. Sound(l, owned) /\ e \in DOMAIN l BY <1>1, <1>2, MergeSound
<1>4. PrevFree(l, e)
  <2>1. MergeShape(list, e)
    BY <1>1, <1>2, MergeNextTiled DEF Sound, NextFree
  <2>2. list[e].prev \in DOMAIN list /\ list[e].prev \in Nat /\ list[e].prev < e
        /\ list[list[e].prev].free
    BY <1>1, <1>2 DEF PrevFree, Sound, Tiled, PrevBehind, NULL
  <2>3. l[e].prev = list[e].prev /\ list[e].prev \in DOMAIN l
    BY <1>1, <1>2, <1>3, <2>1, <2>2 DEF MergeShape, Sound, Tiled
  <2> QED BY <2>1, <2>2, <2>3 DEF PrevFree, MergeShape
<1> HIDE DEF l
<1> QED BY <1>1, <1>3, <1>4, MoveDownInv

LEMMA ReallocBackwardInv ==
  ASSUME IInv, NEW p \in DOMAIN owned, NEW n \in Nat, ReallocBackward(p, n)
  PROVE  IInv'
<1>1. /\ fault = "none" /\ call = Idle /\ Sound(list, owned)
      /\ PrevFree(list, p - HDR) /\ MoveDown(list, p, n)
  BY InvIsSound DEF ReallocBackward, Ready, GrowsBackward
<1> QED BY <1>1, MoveDownInv

LEMMA ReallocMoveInv ==
  ASSUME IInv, NEW p \in DOMAIN owned, NEW n \in Nat, ReallocMove(p, n)
  PROVE  IInv'
<1> DEFINE e == p - HDR
<1>1. /\ fault = "none" /\ call = Idle /\ UNCHANGED <<atNull, fault>> /\ Sound(list, owned)
      /\ call' = [at |-> "backward", entry |-> e]
  BY InvIsSound DEF ReallocMove, Ready
<1>2. PICK a \in DOMAIN list : /\ IsFirst(a, {b \in DOMAIN list : Suits(b, n)})
                               /\ list' = SetFree(Take(list, a, n), e, TRUE)
                               /\ owned' = Own(Disown(owned, p), a + HDR, n)
  BY DEF ReallocMove
<1>3. list[a].free /\ list[a].size >= n BY <1>2 DEF IsFirst, Suits
<1>4. e \in DOMAIN list /\ ~list[e].free /\ e + HDR = p /\ e \in Nat /\ p \in Nat
      /\ a \in Nat /\ HDR \in Nat
  BY <1>1, OwnedBlock DEF Sound, Tiled
<1> DEFINE l == Take(list, a, n)
           o == Own(owned, a + HDR, n)
<1>5. Sound(l, o) /\ e \in DOMAIN l /\ l[e] = list[e]
  BY <1>1, <1>3, <1>4, TakeSound
<1>6. p \in DOMAIN o /\ owned' = Disown(o, p)
  <2>1. a + HDR # p BY <1>3, <1>4
  <2>2. Own(Disown(owned, p), a + HDR, n) = Disown(Own(owned, a + HDR, n), p)
    <3> DEFINE x == a + HDR
               f == Own(Disown(owned, p), x, n)
               g == Disown(Own(owned, x, n), p)
    <3> HIDE DEF x
    <3>1. x # p BY <2>1 DEF x
    <3>2. DOMAIN f = (DOMAIN owned \ {p}) \cup {x} BY DEF Own, Disown
    <3>3. DOMAIN g = (DOMAIN owned \cup {x}) \ {p} BY DEF Own, Disown
    <3>4. DOMAIN f = DOMAIN g BY <3>1, <3>2, <3>3
    <3>5. \A q \in DOMAIN f : f[q] = g[q] BY <3>1, <3>4 DEF Own, Disown
    <3>6. f = [q \in DOMAIN f |-> f[q]] /\ g = [q \in DOMAIN g |-> g[q]]
      BY DEF Own, Disown
    <3> HIDE DEF f, g
    <3>7. f = g BY <3>4, <3>5, <3>6
    <3> QED BY <3>7 DEF f, g, x
  <2> QED BY <1>2, <2>2 DEF Own
<1>6a. list' = SetFree(l, e, TRUE) BY <1>2
<1> HIDE DEF l, o
<1>7. Matches(list', owned') BY <1>5, <1>6, <1>6a, GiveBackMatches DEF Sound
<1>8. Owners(owned') BY <1>4, <1>5, <1>6, OwnersKept DEF Sound
<1> HIDE DEF e
<1>9. Tiled(list') /\ DOMAIN list' = DOMAIN l /\ list'[e] = [l[e] EXCEPT !.free = TRUE]
  <2>1. Tiled(l) /\ e \in DOMAIN l BY <1>5 DEF Sound
  <2> QED BY <1>6a, <2>1, SetFreeTiled
<1>10. list'[e].free BY <1>5, <1>9 DEF Sound, Tiled, BlockHeader
<1>11. call' \in [at : {"backward", "forward"}, entry : Link] /\ call'.entry = e
  BY <1>1, <1>4 DEF Link
<1>12. e \in DOMAIN list' BY <1>5, <1>9
<1> QED BY <1>1, <1>7, <1>8, <1>9, <1>10, <1>11, <1>12, SoundIsEnough DEF Sound

LEMMA ReallocInv ==
  ASSUME IInv, NEW p \in DOMAIN owned, NEW n \in Nat, Realloc(p, n)
  PROVE  IInv'
<1>1. CASE ReallocGhost(p, n)
  BY <1>1, FaultIsEnough DEF ReallocGhost, Faults
<1> QED
  BY <1>1, ReallocShrinkInv, ReallocStayInv, ReallocForwardInv, ReallocBothWaysInv,
     ReallocBackwardInv, ReallocMoveInv DEF Realloc

-----------------------------------------------------------------------------
(* The theorems.                                                           *)

LEMMA InitInv == Init => IInv
<1> SUFFICES ASSUME Init PROVE IInv OBVIOUS
<1> USE HeapSizeAssumption
<1>1. /\ DOMAIN list = {0}
      /\ list[0] = [size |-> HeapSize - HDR, free |-> TRUE, prev |-> NULL, next |-> NULL]
      /\ list \in [DOMAIN list -> BlockHeader]
  BY DEF Init, BlockHeader, Link
<1>2. Tiled(list)
  BY <1>1 DEF Tiled, EndsAtNext, NoneInside, PrevBehind
<1>3. DOMAIN owned = {} /\ owned \in [DOMAIN owned -> Nat] BY DEF Init
<1>4. Matches(list, owned) BY <1>1, <1>3 DEF Matches
<1>5. call = Idle /\ fault = "none" /\ atNull = NULL BY DEF Init
<1> QED BY <1>2, <1>3, <1>4, <1>5 DEF IInv, TypeOK, CallOK, Tiled, Idle, Link, Faults

LEMMA NextInv == IInv /\ [Next]_vars => IInv'
<1> SUFFICES ASSUME IInv, [Next]_vars PROVE IInv' OBVIOUS
<1> USE RequestsAssumption, AlignmentsAssumption
<1>1. CASE Allocation BY <1>1, MallocInv DEF Allocation
<1>2. CASE AlignedAllocation BY <1>2, MallocAlignedInv DEF AlignedAllocation
<1>3. CASE ArrayAllocation
  BY <1>3, MallocInv, FaultIsEnough DEF ArrayAllocation, Calloc, Faults
<1>4. CASE Resizing BY <1>4, ReallocInv DEF Resizing
<1>5. CASE Freeing BY <1>5, FreeInv DEF Freeing
<1>6. CASE FreeLoop BY <1>6, FreeBackwardInv, FreeForwardInv DEF FreeLoop
<1>7. CASE UNCHANGED vars
  BY <1>7 DEF vars, IInv, TypeOK, Tiled, Matches, CallOK, EndsAtNext, NoneInside, PrevBehind
<1> QED BY <1>1, <1>2, <1>3, <1>4, <1>5, <1>6, <1>7 DEF Next

LEMMA Inductive == Spec => []IInv
<1>1. Init => IInv BY InitInv
<1>2. IInv /\ [Next]_vars => IInv' BY NextInv
<1> QED BY <1>1, <1>2, PTL DEF Spec

\* The list, the owners and the state of free() are always well formed.
THEOREM TypeCorrect == Spec => []TypeOK
<1>1. IInv => TypeOK BY DEF IInv
<1> QED BY <1>1, Inductive, PTL

\* Whatever is allocated, resized and freed in whatever order, up to the first
\* fault headers and payloads tile the heap.
THEOREM TilingCorrect == Spec => []BlocksTile
<1>1. IInv => BlocksTile BY DEF IInv, BlocksTile, Tiled
<1> QED BY <1>1, Inductive, PTL

\* Up to the first fault callers hold used blocks of sufficient size, and no
\* used block is without a caller.
THEOREM OwnersCorrect == Spec => []OwnersMatchBlocks
<1>1. IInv => OwnersMatchBlocks BY DEF IInv, OwnersMatchBlocks, Matches
<1> QED BY <1>1, Inductive, PTL

\* Up to the first fault the prev links lead backwards to the first block.
THEOREM PrevCorrect == Spec => []PrevIsBehind
<1>1. IInv => PrevIsBehind BY DEF IInv, PrevIsBehind, Tiled, PrevBehind
<1> QED BY <1>1, Inductive, PTL

-----------------------------------------------------------------------------
(* The refinement: callers never share bytes.                              *)

\* The ranges of two callers lie in two blocks.
LEMMA RangesApart ==
  ASSUME NEW l, NEW o, Sound(l, o), NEW p \in DOMAIN o
  PROVE  /\ p \in 0..HeapSize /\ p + o[p] <= HeapSize
         /\ \A q \in DOMAIN o : q # p => Promise!Disjoint(p, o[p], q, o[q])
<1>0. HDR \in Nat \ {0} /\ HeapSize \in Nat BY HeapSizeAssumption
<1>1. ASSUME NEW q \in DOMAIN o
      PROVE  /\ q - HDR \in DOMAIN l /\ q \in Nat /\ o[q] \in Nat /\ q - HDR \in Nat
             /\ l[q - HDR].size \in Nat /\ o[q] <= l[q - HDR].size
             /\ EndsAtNext(l, q - HDR) /\ NoneInside(l, q - HDR)
  BY OwnedBlock DEF Sound, Tiled
<1>2. p \in 0..HeapSize /\ p + o[p] <= HeapSize
  BY <1>0, <1>1 DEF EndsAtNext
<1>3. ASSUME NEW q \in DOMAIN o, q # p PROVE Promise!Disjoint(p, o[p], q, o[q])
  <2>1. q - HDR < p - HDR \/ p - HDR < q - HDR BY <1>0, <1>1, <1>3
  <2>2. CASE p - HDR < q - HDR
    <3>1. (p - HDR) + HDR + l[p - HDR].size <= q - HDR BY <1>1, <2>2 DEF NoneInside
    <3> QED BY <1>0, <1>1, <3>1 DEF Promise!Disjoint
  <2>3. CASE q - HDR < p - HDR
    <3>1. (q - HDR) + HDR + l[q - HDR].size <= p - HDR BY <1>1, <2>3 DEF NoneInside
    <3> QED BY <1>0, <1>1, <3>1 DEF Promise!Disjoint
  <2> QED BY <2>1, <2>2, <2>3
<1> QED BY <1>2, <1>3

LEMMA AllocatesPromise ==
  ASSUME Sound(list', owned'), NEW n \in Requests, NEW p, p \notin DOMAIN owned,
         owned' = Own(owned, p, n)
  PROVE  Promise!Next
<1>1. DOMAIN owned' = DOMAIN owned \cup {p} /\ owned'[p] = n
      /\ \A q \in DOMAIN owned : q # p /\ owned'[q] = owned[q]
  BY DEF Own
<1>2. /\ p \in 0..HeapSize /\ p + n <= HeapSize
      /\ \A q \in DOMAIN owned : Promise!Disjoint(p, n, q, owned[q])
  BY <1>1, RangesApart
<1>3. Promise!Fits(p, n, owned) BY <1>2 DEF Promise!Fits
<1>4. owned' = Promise!With(owned, p, n) BY DEF Own, Promise!With
<1> QED BY <1>2, <1>3, <1>4 DEF Promise!Next, Promise!Allocate

LEMMA ResizesPromise ==
  ASSUME Sound(list', owned'), NEW n \in Requests, NEW p \in DOMAIN owned,
         NEW q, q \notin DOMAIN Disown(owned, p),
         owned' = Own(Disown(owned, p), q, n)
  PROVE  Promise!Next
<1> DEFINE rest == Disown(owned, p)
<1>1. DOMAIN owned' = DOMAIN rest \cup {q} /\ owned'[q] = n
      /\ \A r \in DOMAIN rest : r # q /\ owned'[r] = rest[r]
  BY DEF Own
<1> HIDE DEF rest
<1>2. /\ q \in 0..HeapSize /\ q + n <= HeapSize
      /\ \A r \in DOMAIN rest : Promise!Disjoint(q, n, r, rest[r])
  BY <1>1, RangesApart
<1>3. rest = Promise!Without(p) BY DEF rest, Disown, Promise!Without
<1>4. Promise!Fits(q, n, rest) BY <1>2 DEF Promise!Fits
<1>5. owned' = Promise!With(rest, q, n) BY DEF Own, Promise!With, rest
<1>6. q \notin DOMAIN rest BY DEF rest
<1> QED BY <1>2, <1>3, <1>4, <1>5, <1>6 DEF Promise!Next, Promise!Resize

\* A size asked for again is the case of a block that stays where it is.
LEMMA StaysPromise ==
  ASSUME Sound(list', owned'), NEW n \in Requests, NEW p \in DOMAIN owned,
         owned' = Own(owned, p, n)
  PROVE  Promise!Next
<1>1. Own(owned, p, n) = Own(Disown(owned, p), p, n)
  <2>1. DOMAIN owned \cup {p} = (DOMAIN owned \ {p}) \cup {p} OBVIOUS
  <2> QED BY <2>1 DEF Own, Disown
<1>2. p \notin DOMAIN Disown(owned, p) BY DEF Disown
<1> QED BY <1>1, <1>2, ResizesPromise

\* A free block is nobody's.
LEMMA FreeIsUnowned ==
  ASSUME NEW l, NEW o, Sound(l, o), NEW e \in DOMAIN l, l[e].free
  PROVE  e + HDR \notin DOMAIN o
<1>1. e \in Nat /\ HDR \in Nat /\ (e + HDR) - HDR = e
  BY HeapSizeAssumption DEF Sound, Tiled
<1> QED BY <1>1 DEF Sound, Matches

LEMMA MallocPromise ==
  ASSUME IInv, IInv', NEW n \in Requests, Malloc(n)
  PROVE  Promise!Next
<1>1. fault = "none" /\ fault' = "none" /\ Sound(list, owned) /\ Sound(list', owned')
  BY InvIsSound DEF Malloc, Ready, IInv, TypeOK, Sound, Owners
<1>2. PICK e \in DOMAIN list : list[e].free /\ owned' = Own(owned, e + HDR, n)
  BY DEF Malloc, IsFirst, Suits
<1> QED BY <1>1, <1>2, FreeIsUnowned, AllocatesPromise

LEMMA MallocAlignedPromise ==
  ASSUME IInv, IInv', NEW n \in Requests, NEW align \in Alignments, MallocAligned(n, align)
  PROVE  Promise!Next
<1>1. fault = "none" /\ fault' = "none" /\ Sound(list, owned) /\ Sound(list', owned')
  BY InvIsSound DEF MallocAligned, Ready, IInv, TypeOK, Sound, Owners
<1>2. PICK e \in DOMAIN list :
        LET pad == Padding(e, align)
            b   == IF pad > HDR THEN e + pad ELSE e
        IN  SuitsAligned(e, n, align) /\ owned' = Own(owned, b + HDR, n)
  BY DEF MallocAligned, IsFirst
<1> DEFINE pad == Padding(e, align)
<1>3. e \in Nat /\ HDR \in Nat \ {0} /\ align \in Nat \ {0} /\ n \in Nat /\ list[e].size \in Nat
  BY <1>1, HeapSizeAssumption, AlignmentsAssumption, RequestsAssumption
     DEF Sound, Tiled, BlockHeader
<1>4. pad \in Int /\ list[e].free /\ n + pad <= list[e].size
  BY <1>2, <1>3 DEF SuitsAligned, Suits, Padding
<1>5. CASE pad > HDR
  <2>1. pad - HDR \in Nat /\ HasRoom(list, e, pad - HDR)
    BY <1>3, <1>4, <1>5 DEF HasRoom
  <2>2. e + HDR + (pad - HDR) \notin DOMAIN list
    BY <1>1, <2>1, SplitTiled DEF Sound, SplitShape
  <2>3. e + HDR + (pad - HDR) = e + pad BY <1>3, <1>4
  <2>4. e + pad + HDR \notin DOMAIN owned
    <3>1. (e + pad + HDR) - HDR = e + pad BY <1>3, <1>4
    <3> QED BY <1>1, <2>2, <2>3, <3>1 DEF Sound, Matches
  <2> QED BY <1>1, <1>2, <1>5, <2>4, AllocatesPromise
<1>6. CASE ~(pad > HDR)
  BY <1>1, <1>2, <1>4, <1>6, FreeIsUnowned, AllocatesPromise
<1> QED BY <1>5, <1>6

LEMMA MoveDownPromise ==
  ASSUME IInv, fault = "none", IInv', NEW l, Sound(l, owned),
         NEW p \in DOMAIN owned, NEW n \in Requests,
         PrevFree(l, p - HDR), MoveDown(l, p, n)
  PROVE  Promise!Next \/ UNCHANGED owned
<1> DEFINE low == l[p - HDR].prev
<1>1. CASE fault' # "none" BY <1>1 DEF MoveDown
<1>2. CASE fault' = "none"
  <2>1. owned' = Own(Disown(owned, p), low + HDR, n) /\ Sound(list', owned')
    BY <1>2 DEF MoveDown, IInv, TypeOK, Sound, Owners
  <2>2. low \in DOMAIN l /\ l[low].free BY DEF PrevFree
  <2>3. low + HDR \notin DOMAIN owned BY <2>2, FreeIsUnowned
  <2> QED BY <2>1, <2>3, ResizesPromise DEF Disown
<1> QED BY <1>1, <1>2

LEMMA ReallocPromise ==
  ASSUME IInv, IInv', NEW p \in DOMAIN owned, NEW n \in Requests, Realloc(p, n)
  PROVE  Promise!Next \/ UNCHANGED owned
<1> DEFINE e == p - HDR
<1>0. fault = "none" /\ Sound(list, owned) /\ e \in DOMAIN list
  BY InvIsSound, OwnedBlock
     DEF Realloc, ReallocShrink, ReallocStay, ReallocForward, ReallocBothWays,
         ReallocBackward, ReallocGhost, ReallocMove, Ready
<1>1. fault' = "none" => Sound(list', owned')
  BY DEF IInv, TypeOK, Sound, Owners
<1>2. CASE ReallocShrink(p, n) \/ ReallocStay(p, n)
  BY <1>0, <1>1, <1>2, StaysPromise DEF ReallocShrink, ReallocStay
<1>3. CASE ReallocForward(p, n)
  BY <1>0, <1>1, <1>3, StaysPromise DEF ReallocForward
<1>4. CASE ReallocBothWays(p, n)
  <2>1. NextFree(list, e) /\ PrevFree(list, e) /\ MoveDown(MergeNext(list, e), p, n)
    BY <1>4 DEF ReallocBothWays, GrowsBothWays
  <2>2. Sound(MergeNext(list, e), owned) BY <1>0, <2>1, MergeSound
  <2>3. MergeShape(list, e) BY <1>0, <2>1, MergeNextTiled DEF Sound, NextFree
  <2>4. list[e].prev \in DOMAIN list /\ list[e].prev \in Nat /\ list[e].prev < e /\ e \in Nat
    BY <1>0, <2>1 DEF PrevFree, Sound, Tiled, PrevBehind, NULL
  <2>5. PrevFree(MergeNext(list, e), e)
    BY <1>0, <2>1, <2>3, <2>4 DEF PrevFree, MergeShape, Sound, Tiled
  <2> QED BY <1>0, <2>1, <2>2, <2>5, MoveDownPromise
<1>5. CASE ReallocBackward(p, n)
  BY <1>0, <1>5, MoveDownPromise DEF ReallocBackward, GrowsBackward
<1>6. CASE ReallocGhost(p, n) BY <1>6 DEF ReallocGhost
<1>7. CASE ReallocMove(p, n)
  <2>1. PICK a \in DOMAIN list : list[a].free /\ owned' = Own(Disown(owned, p), a + HDR, n)
    BY <1>7 DEF ReallocMove, IsFirst, Suits
  <2>2. a + HDR \notin DOMAIN owned BY <1>0, <2>1, FreeIsUnowned
  <2>3. fault' = "none" BY <1>0, <1>7 DEF ReallocMove
  <2> QED BY <1>1, <2>1, <2>2, <2>3, ResizesPromise DEF Disown
<1> QED BY <1>2, <1>3, <1>4, <1>5, <1>6, <1>7 DEF Realloc

LEMMA StepPromise ==
  ASSUME IInv, IInv', [Next]_vars
  PROVE  [Promise!Next]_owned
<1>1. CASE Allocation BY <1>1, MallocPromise DEF Allocation
<1>2. CASE AlignedAllocation BY <1>2, MallocAlignedPromise DEF AlignedAllocation
<1>3. CASE ArrayAllocation BY <1>3, MallocPromise DEF ArrayAllocation, Calloc
<1>4. CASE Resizing BY <1>4, ReallocPromise DEF Resizing
<1>5. CASE Freeing
  <2>1. PICK p \in DOMAIN owned : owned' = Disown(owned, p) BY <1>5 DEF Freeing, Free
  <2> QED BY <2>1 DEF Disown, Promise!Without, Promise!Release, Promise!Next
<1>6. CASE FreeLoop BY <1>6 DEF FreeLoop, FreeBackward, FreeForward
<1>7. CASE UNCHANGED vars BY <1>7 DEF vars
<1> QED BY <1>1, <1>2, <1>3, <1>4, <1>5, <1>6, <1>7 DEF Next

\* Whatever the callers do, every allocation is a range of its own inside the
\* heap until it is given back: Heap implements AbstractHeap.
THEOREM PromiseKept == Spec => KeepsPromise
<1>1. Init => Promise!Init BY DEF Init, Promise!Init
<1>2. IInv /\ IInv' /\ [Next]_vars => [Promise!Next]_owned BY StepPromise
<1> QED BY <1>1, <1>2, Inductive, PTL DEF Spec, KeepsPromise, Promise!Spec

-----------------------------------------------------------------------------
(* Exact links.                                                            *)

\* In a tiled heap every block but the first begins where another one ends.
LEMMA BlockInFront ==
  ASSUME NEW l, Tiled(l), NEW e \in DOMAIN l, e # 0
  PROVE  \E a \in DOMAIN l : l[a].next = e
<1>0. /\ HDR \in Nat \ {0} /\ HeapSize \in Nat
      /\ \A a \in DOMAIN l : a \in Nat /\ l[a].size \in Nat
  BY HeapSizeAssumption DEF Tiled, BlockHeader
<1> DEFINE T == {n \in Nat : \E a \in DOMAIN l : a < e /\ n = e - a}
<1>1. T \in SUBSET Nat /\ e \in T BY <1>0 DEF Tiled
<1> HIDE DEF T
<1>2. PICK n \in T : \A m \in T : n <= m BY <1>1, LeastNumber
<1>3. PICK a \in DOMAIN l : a < e /\ n = e - a BY DEF T
<1>4. \A b \in DOMAIN l : b < e => b <= a
  <2>1. ASSUME NEW b \in DOMAIN l, b < e PROVE e - b \in T BY <1>0, <2>1 DEF T
  <2> QED BY <1>0, <1>2, <1>3, <2>1
<1>5. EndsAtNext(l, a) /\ NoneInside(l, a) /\ EndsAtNext(l, e) BY DEF Tiled
<1>6. a + HDR + l[a].size = e
  <2> DEFINE end == a + HDR + l[a].size
  <2>1. end <= e /\ end \in Nat /\ a < end BY <1>0, <1>3, <1>5 DEF NoneInside
  <2>2. e < HeapSize BY <1>0, <1>5 DEF EndsAtNext
  <2>3. end \in DOMAIN l BY <1>0, <1>5, <2>1, <2>2 DEF EndsAtNext
  <2> QED BY <1>0, <1>4, <2>1, <2>3
<1>7. e # HeapSize BY <1>0, <1>5 DEF EndsAtNext
<1> QED BY <1>5, <1>6, <1>7 DEF EndsAtNext

\* Exact links lead to the neighbour and never to a header merged away.
LEMMA ExactNeighbour ==
  ASSUME NEW l, Tiled(l), PrevExact(l), NEW e \in DOMAIN l
  PROVE  /\ ~PrevGhost(l, e)
         /\ l[e].prev \in DOMAIN l => Neighbours(l, l[e].prev, e)
<1>1. e = 0 => l[e].prev = NULL /\ NULL \notin DOMAIN l
  BY DEF Tiled, PrevBehind, NULL
<1>2. ASSUME e # 0 PROVE l[e].prev \in DOMAIN l /\ l[l[e].prev].next = e
  <2>1. PICK a \in DOMAIN l : l[a].next = e BY <1>2, BlockInFront
  <2>2. e # NULL BY DEF Tiled, NULL
  <2>3. l[e].prev = a BY <2>1, <2>2 DEF PrevExact
  <2> QED BY <2>1, <2>3
<1> QED BY <1>1, <1>2 DEF PrevGhost, Neighbours

LEMMA MergeNextExact ==
  ASSUME NEW l, Tiled(l), PrevExact(l), NEW e \in DOMAIN l, l[e].next # NULL
  PROVE  PrevExact(MergeNext(l, e))
<1> DEFINE m == MergeNext(l, e)
           n == l[e].next
           nn == l[n].next
<1>1. /\ Tiled(m) /\ n \in DOMAIN l /\ n > e /\ DOMAIN m = DOMAIN l \ {n}
      /\ m[e].next = nn
      /\ \A a \in DOMAIN m \ {e} : m[a].next = l[a].next
      /\ \A a \in DOMAIN m : a <= n => m[a].prev = l[a].prev
  <2>1. MergeShape(l, e) BY MergeNextTiled
  <2>2. DOMAIN m = DOMAIN l \ {n} BY <2>1 DEF MergeShape
  <2> HIDE DEF m
  <2> QED BY <2>1, <2>2 DEF MergeShape, m
<1>2. \A a \in DOMAIN l : a \in Nat /\ l[a] \in BlockHeader BY DEF Tiled
<1>3. nn # NULL => nn \in DOMAIN l /\ nn > n
  <2>1. EndsAtNext(l, n) BY <1>1 DEF Tiled
  <2>2. n \in Nat /\ l[n].size \in Nat /\ HDR \in Nat \ {0}
    BY <1>1, <1>2, HeapSizeAssumption DEF BlockHeader
  <2> QED BY <2>1, <2>2 DEF EndsAtNext
<1>4. nn # NULL => m[nn].prev = e
  <2>1. nn # NULL => m[nn] = [l[nn] EXCEPT !.prev = e]
    BY <1>1, <1>2, <1>3 DEF MergeNext
  <2> HIDE DEF m, nn
  <2> QED BY <1>2, <1>3, <2>1 DEF BlockHeader
<1>5. \A a \in DOMAIN l \ {n, e, nn} : m[a] = l[a] BY DEF MergeNext
<1> HIDE DEF m, n, nn
<1>6. ASSUME NEW a \in DOMAIN m, m[a].next # NULL PROVE m[m[a].next].prev = a
  <2>1. CASE a = e BY <1>1, <1>4, <1>6, <2>1
  <2>2. CASE a # e
    <3> DEFINE b == l[a].next
    <3>1. m[a].next = b /\ a \in DOMAIN l /\ a # n /\ b # NULL BY <1>1, <1>6, <2>2
    <3>2. l[b].prev = a /\ l[n].prev = e BY <3>1, <1>1, <1>2 DEF PrevExact, n, NULL
    <3>3. b \in DOMAIN l BY <1>2, <3>1, HeapSizeAssumption DEF Tiled, EndsAtNext, BlockHeader
    <3>4. b # n BY <2>2, <3>2
    <3>5. b # nn
      <4>1. nn # NULL => l[nn].prev = n BY <1>1 DEF PrevExact, nn
      <4> QED BY <3>1, <3>2, <4>1
    <3> HIDE DEF b
    <3>6. m[b].prev = l[b].prev BY <1>1, <1>2, <1>5, <3>3, <3>4, <3>5
    <3> QED BY <3>1, <3>2, <3>6
  <2> QED BY <2>1, <2>2
<1> QED BY <1>6 DEF PrevExact, m

\* No move down merges with a block that is not the neighbour.
LEMMA MoveDownExact ==
  ASSUME IInv, fault = "none", NEW l, Sound(l, owned), PrevExact(l),
         NEW p \in DOMAIN owned, NEW n, PrevFree(l, p - HDR), MoveDown(l, p, n)
  PROVE  fault' \notin {"merge", "ghost"}
<1>1. p - HDR \in DOMAIN l BY OwnedBlock
<1>2. Neighbours(l, l[p - HDR].prev, p - HDR)
  BY <1>1, ExactNeighbour DEF PrevFree, Sound
<1> QED BY <1>2 DEF MoveDown

LEMMA ReallocExact ==
  ASSUME IInv, PrevExact(list), NEW p \in DOMAIN owned, NEW n \in Nat, Realloc(p, n)
  PROVE  fault' \notin {"merge", "ghost"} /\ call = Idle
<1> DEFINE e == p - HDR
<1>0. fault = "none" /\ call = Idle /\ Sound(list, owned) /\ e \in DOMAIN list
  BY InvIsSound, OwnedBlock
     DEF Realloc, ReallocShrink, ReallocStay, ReallocForward, ReallocBothWays,
         ReallocBackward, ReallocGhost, ReallocMove, Ready
<1>1. CASE ReallocShrink(p, n) \/ ReallocStay(p, n) \/ ReallocForward(p, n) \/ ReallocMove(p, n)
  BY <1>0, <1>1 DEF ReallocShrink, ReallocStay, ReallocForward, ReallocMove
<1>2. CASE ReallocBothWays(p, n)
  <2>1. NextFree(list, e) /\ PrevFree(list, e) /\ MoveDown(MergeNext(list, e), p, n)
    BY <1>2 DEF ReallocBothWays, GrowsBothWays
  <2>2. Sound(MergeNext(list, e), owned) BY <1>0, <2>1, MergeSound
  <2>3. PrevExact(MergeNext(list, e)) /\ MergeShape(list, e)
    BY <1>0, <2>1, MergeNextExact, MergeNextTiled DEF NextFree, Sound
  <2>4. list[e].prev \in DOMAIN list /\ list[e].prev \in Nat /\ list[e].prev < e /\ e \in Nat
    BY <1>0, <2>1 DEF PrevFree, Sound, Tiled, PrevBehind, NULL
  <2>5. PrevFree(MergeNext(list, e), e)
    BY <1>0, <2>1, <2>3, <2>4 DEF PrevFree, MergeShape, Sound, Tiled
  <2> QED BY <1>0, <2>1, <2>2, <2>3, <2>5, MoveDownExact
<1>3. CASE ReallocBackward(p, n)
  BY <1>0, <1>3, MoveDownExact DEF ReallocBackward, GrowsBackward
<1>4. CASE ReallocGhost(p, n)
  BY <1>0, <1>4, ExactNeighbour DEF ReallocGhost, Sound
<1> QED BY <1>0, <1>1, <1>2, <1>3, <1>4 DEF Realloc

LEMMA FreeLoopExact ==
  ASSUME IInv, PrevExact(list), FreeLoop
  PROVE  fault' \notin {"merge", "ghost"} /\ PrevExact(list')
<1> DEFINE e == call.entry
<1>1. fault = "none" /\ call # Idle BY DEF FreeLoop, FreeBackward, FreeForward, Idle
<1>2. Tiled(list) /\ e \in DOMAIN list BY <1>1 DEF IInv, CallOK
<1>3. ~PrevGhost(list, e) /\ (list[e].prev \in DOMAIN list => Neighbours(list, list[e].prev, e))
  BY <1>2, ExactNeighbour
<1>4. CASE PrevFree(list, e) /\ list' = MergePrev(list, e) /\ fault' = "none"
  <2>1. list[e].prev \in DOMAIN list BY <1>4 DEF PrevFree
  <2>2. MergePrev(list, e) = MergeNext(list, list[e].prev) /\ list[list[e].prev].next # NULL
    BY <1>2, <1>3, <2>1, MergePrevIsMergeNext
  <2> QED BY <1>2, <1>4, <2>1, <2>2, MergeNextExact
<1>5. CASE NextFree(list, e) /\ list' = MergeNext(list, e) /\ fault' = "none"
  BY <1>2, <1>5, MergeNextExact DEF NextFree
<1>6. CASE list' = list /\ fault' = "none" BY <1>6
<1> QED
  <2>1. CASE FreeBackward
    BY <1>1, <1>3, <1>4, <1>6, <2>1 DEF FreeBackward, PrevFree
  <2>2. CASE FreeForward
    BY <1>1, <1>5, <1>6, <2>2 DEF FreeForward
  <2> QED BY <2>1, <2>2 DEF FreeLoop

\* From exact links no step merges with a block that is not the neighbour, and
\* the loops of free() leave all links exact: only split() makes them stale.
THEOREM ExactLinksKept == Spec => ExactLinksStayExact
<1> DEFINE A == PrevExact(list) => /\ fault' \notin {"merge", "ghost"}
                                   /\ call # Idle => PrevExact(list')
<1>1. IInv /\ [Next]_vars => [A]_vars
  <2> SUFFICES ASSUME IInv, Next, PrevExact(list)
               PROVE  /\ fault' \notin {"merge", "ghost"}
                      /\ call # Idle => PrevExact(list')
    OBVIOUS
  <2>1. CASE Allocation \/ AlignedAllocation \/ ArrayAllocation \/ Freeing
    BY <2>1 DEF Allocation, AlignedAllocation, ArrayAllocation, Calloc, Freeing, Malloc,
                MallocAligned, Free, Ready
  <2>2. CASE Resizing BY <2>2, ReallocExact, RequestsAssumption DEF Resizing
  <2>3. CASE FreeLoop BY <2>3, FreeLoopExact
  <2> QED BY <2>1, <2>2, <2>3 DEF Next
<1>2. Spec => [][A]_vars BY <1>1, Inductive, PTL DEF Spec
<1> QED BY <1>2 DEF ExactLinksStayExact

-----------------------------------------------------------------------------
(* Callers that use the heap as a stack.                                   *)

FreeBehindUsed(l) == \A a, b \in DOMAIN l : l[a].free /\ ~l[b].free => b < a
LastIfFree(l) == \A a \in DOMAIN l : l[a].free => l[a].next = NULL
FreeFrom(l, e) == \A a \in DOMAIN l : l[a].free => e <= a

OthersLast(l, e) == \A a \in DOMAIN l \ {e} : l[a].free => l[a].next = NULL

\* Between calls at most the last block is free; while free() runs, whatever
\* is free lies at its entry or is the last block behind it.
StackInv ==
  /\ fault = "none"
  /\ PrevExact(list)
  /\ FreeBehindUsed(list)
  /\ IF call = Idle THEN LastIfFree(list)
     ELSE FreeFrom(list, call.entry) /\ OthersLast(list, call.entry)
  /\ atNull \in DOMAIN list \cup {NULL}

\* Nothing lies behind a block without next.
LEMMA NothingBehindLast ==
  ASSUME NEW l, Tiled(l), NEW e \in DOMAIN l, l[e].next = NULL, NEW a \in DOMAIN l
  PROVE  a <= e
<1>1. /\ e \in Nat /\ a \in Nat /\ HDR \in Nat \ {0} /\ HeapSize \in Nat
      /\ l[e].size \in Nat /\ l[a].size \in Nat
  BY HeapSizeAssumption DEF Tiled, BlockHeader
<1>2. EndsAtNext(l, e) /\ EndsAtNext(l, a) /\ NoneInside(l, e) BY DEF Tiled
<1>3. e + HDR + l[e].size = HeapSize BY <1>1, <1>2 DEF EndsAtNext, NULL
<1> QED BY <1>1, <1>2, <1>3 DEF EndsAtNext, NoneInside

LEMMA SetFreeExact ==
  ASSUME NEW l, Tiled(l), PrevExact(l), NEW e \in DOMAIN l, NEW f \in BOOLEAN
  PROVE  /\ PrevExact(SetFree(l, e, f))
         /\ SetFree(l, e, f)[e].free = f
         /\ \A a \in DOMAIN l : SetFree(l, e, f)[a].next = l[a].next
<1> DEFINE m == SetFree(l, e, f)
<1>1. /\ DOMAIN m = DOMAIN l /\ m[e] = [l[e] EXCEPT !.free = f]
      /\ \A a \in DOMAIN l \ {e} : m[a] = l[a]
  BY SetFreeTiled
<1>2. l[e] \in BlockHeader BY DEF Tiled
<1> HIDE DEF m
<1>3. m[e].free = f /\ m[e].next = l[e].next /\ m[e].prev = l[e].prev
  BY <1>1, <1>2 DEF BlockHeader
<1>4. \A a \in DOMAIN l : m[a].next = l[a].next /\ m[a].prev = l[a].prev
  BY <1>1, <1>3
<1>5. \A a \in DOMAIN l : l[a].next # NULL => l[a].next \in DOMAIN l
  BY HeapSizeAssumption DEF Tiled, EndsAtNext, BlockHeader
<1>6. PrevExact(m) BY <1>1, <1>4, <1>5 DEF PrevExact
<1> QED BY <1>3, <1>4, <1>6 DEF m

\* split() on the last block leaves no block behind that it could forget.
LEMMA SplitLastExact ==
  ASSUME NEW l, Tiled(l), PrevExact(l), NEW e \in DOMAIN l, l[e].next = NULL,
         NEW s \in Nat, HasRoom(l, e, s)
  PROVE  PrevExact(Split(l, e, s))
<1> DEFINE m == Split(l, e, s)
           second == e + HDR + s
<1>1. SplitShape(l, e, s) BY SplitTiled
<1>2. /\ second \notin DOMAIN l /\ DOMAIN m = DOMAIN l \cup {second}
      /\ m[e].next = second /\ m[e].prev = l[e].prev /\ m[second].next = NULL
      /\ \A a \in DOMAIN l \ {e} : m[a] = l[a]
  BY <1>1 DEF SplitShape
<1>3. m[second].prev = e BY <1>2 DEF Split
<1> HIDE DEF m, second
<1>4. \A a \in DOMAIN l : l[a].next # NULL => l[a].next \in DOMAIN l
  BY HeapSizeAssumption DEF Tiled, EndsAtNext, BlockHeader
<1>5. ASSUME NEW a \in DOMAIN m, m[a].next # NULL PROVE m[m[a].next].prev = a
  <2>1. CASE a = e BY <1>2, <1>3, <2>1
  <2>2. CASE a = second BY <1>2, <1>5, <2>2
  <2>3. CASE a \in DOMAIN l \ {e}
    <3> DEFINE b == l[a].next
    <3>1. m[a].next = b /\ b # NULL /\ b \in DOMAIN l BY <1>2, <1>4, <1>5, <2>3
    <3>2. l[b].prev = a BY <2>3, <3>1 DEF PrevExact
    <3> HIDE DEF b
    <3>3. m[b].prev = l[b].prev BY <1>2, <3>1
    <3> QED BY <3>1, <3>2, <3>3
  <2> QED BY <1>2, <2>1, <2>2, <2>3
<1>6. PrevExact(m) BY <1>5 DEF PrevExact
<1> QED BY <1>6 DEF m

LEMMA MallocStack ==
  ASSUME IInv, StackInv, NEW n \in Nat, Malloc(n)
  PROVE  StackInv'
<1>1. /\ fault = "none" /\ call = Idle /\ UNCHANGED <<call, atNull, fault>>
      /\ Tiled(list) /\ PrevExact(list) /\ FreeBehindUsed(list) /\ LastIfFree(list)
      /\ atNull \in DOMAIN list \cup {NULL}
  BY DEF Malloc, Ready, IInv, StackInv
<1>2. PICK e \in DOMAIN list : list[e].free /\ list' = Take(list, e, n)
  BY DEF Malloc, IsFirst, Suits
<1>3. list[e].next = NULL BY <1>1, <1>2 DEF LastIfFree
<1>4. e \in Nat /\ n \in Nat /\ HDR \in Nat \ {0} /\ list[e].size \in Nat
      /\ DOMAIN list \subseteq Nat
  BY <1>1, HeapSizeAssumption DEF Tiled, BlockHeader
<1>5. \A a \in DOMAIN list \ {e} : ~list[a].free /\ a < e
  <2>1. ASSUME NEW a \in DOMAIN list, a # e PROVE a < e /\ ~list[a].free
    <3>1. a <= e BY <1>1, <1>3, NothingBehindLast
    <3>2. a < e BY <1>4, <2>1, <3>1
    <3>3. list[a].free => e <= a
      BY <1>1, NothingBehindLast DEF LastIfFree
    <3> QED BY <1>4, <3>2, <3>3
  <2> QED BY <2>1
<1>6. CASE list[e].size > (n + HDR) * 2
  <2> DEFINE m == Split(list, e, n)
             second == e + HDR + n
  <2>1. HasRoom(list, e, n) BY <1>4, <1>6 DEF HasRoom
  <2>2. SplitShape(list, e, n) BY <1>1, <2>1, SplitTiled
  <2>3. PrevExact(m) BY <1>1, <1>3, <2>1, SplitLastExact
  <2>4. /\ Tiled(m) /\ DOMAIN m = DOMAIN list \cup {second} /\ second > e /\ second \in Nat
        /\ m[second].next = NULL /\ second \notin DOMAIN list
        /\ \A a \in DOMAIN list \ {e} : m[a] = list[a]
    BY <1>3, <1>4, <2>2 DEF SplitShape
  <2>5. list' = SetFree(m, e, FALSE) BY <1>2, <1>6 DEF Take
  <2> HIDE DEF m, second
  <2>6. PrevExact(list') /\ list'[e].free = FALSE /\ list'[second].next = NULL
    <3> DEFINE k == SetFree(m, e, FALSE)
    <3>1. e \in DOMAIN m BY <2>4
    <3>2. PrevExact(k) /\ k[e].free = FALSE /\ \A a \in DOMAIN m : k[a].next = m[a].next
      BY <2>3, <2>4, <3>1, SetFreeExact
    <3> HIDE DEF k
    <3>3. list' = k BY <2>5 DEF k
    <3> QED BY <2>4, <3>2, <3>3
  <2>7. DOMAIN list' = DOMAIN m /\ \A a \in DOMAIN list \ {e} : ~list'[a].free
    <3> DEFINE k == SetFree(m, e, FALSE)
    <3>1. e \in DOMAIN m BY <2>4
    <3>2. DOMAIN k = DOMAIN m /\ \A a \in DOMAIN m \ {e} : k[a] = m[a]
      BY <2>4, <3>1, SetFreeTiled
    <3> HIDE DEF k
    <3>3. list' = k BY <2>5 DEF k
    <3> QED BY <1>5, <2>4, <3>2, <3>3
  <2>8. \A a \in DOMAIN list' : list'[a].free => a = second
    BY <2>4, <2>6, <2>7
  <2>9. LastIfFree(list') BY <2>6, <2>8 DEF LastIfFree
  <2>10. FreeBehindUsed(list')
    <3> SUFFICES ASSUME NEW a \in DOMAIN list', NEW b \in DOMAIN list',
                        list'[a].free, ~list'[b].free
                 PROVE  b < a
      BY DEF FreeBehindUsed
    <3>1. a = second /\ b # second BY <2>8
    <3>2. b = e \/ (b \in DOMAIN list /\ b < e) BY <1>5, <2>4, <2>7, <3>1
    <3> QED BY <1>4, <2>4, <3>1, <3>2
  <2>11. atNull' \in DOMAIN list' \cup {NULL} BY <1>1, <2>4, <2>7
  <2> QED BY <1>1, <2>6, <2>9, <2>10, <2>11 DEF StackInv
<1>7. CASE ~(list[e].size > (n + HDR) * 2)
  <2>1. list' = SetFree(list, e, FALSE) BY <1>2, <1>7 DEF Take
  <2>2. PrevExact(list') /\ list'[e].free = FALSE BY <1>1, <2>1, SetFreeExact
  <2>3. DOMAIN list' = DOMAIN list /\ \A a \in DOMAIN list \ {e} : list'[a] = list[a]
    <3> DEFINE k == SetFree(list, e, FALSE)
    <3>1. DOMAIN k = DOMAIN list /\ \A a \in DOMAIN list \ {e} : k[a] = list[a]
      BY <1>1, SetFreeTiled
    <3> HIDE DEF k
    <3> QED BY <2>1, <3>1 DEF k
  <2>4. \A a \in DOMAIN list' : ~list'[a].free BY <1>5, <2>2, <2>3
  <2>5. atNull' \in DOMAIN list' \cup {NULL} BY <1>1, <2>3
  <2> QED BY <1>1, <2>2, <2>4, <2>5 DEF StackInv, FreeBehindUsed, LastIfFree
<1> QED BY <1>6, <1>7

LEMMA NewestFirstStack ==
  ASSUME IInv, StackInv, NewestFirst
  PROVE  StackInv'
<1>1. fault = "none" /\ call = Idle /\ UNCHANGED <<atNull, fault>> /\ Sound(list, owned)
  BY InvIsSound DEF NewestFirst, Free, Ready
<1>2. PICK p \in DOMAIN owned :
        /\ \A q \in DOMAIN owned : q <= p
        /\ list' = SetFree(list, p - HDR, TRUE)
        /\ call' = [at |-> "backward", entry |-> p - HDR]
  BY DEF NewestFirst, Free
<1> DEFINE e == p - HDR
<1>3. e \in DOMAIN list /\ ~list[e].free /\ e + HDR = p /\ p \in Nat
      /\ HDR \in Nat /\ DOMAIN list \subseteq Nat
  BY <1>1, OwnedBlock DEF Sound, Tiled
<1>4. call' # Idle /\ call'.entry = e BY <1>2 DEF Idle
<1> HIDE DEF e
<1>5. PrevExact(list') /\ list'[e].free
  BY <1>1, <1>2, <1>3, SetFreeExact DEF StackInv, Sound, e
<1>6. DOMAIN list' = DOMAIN list /\ \A a \in DOMAIN list \ {e} : list'[a] = list[a]
  <2> DEFINE k == SetFree(list, e, TRUE)
  <2>1. DOMAIN k = DOMAIN list /\ \A a \in DOMAIN list \ {e} : k[a] = list[a]
    BY <1>1, <1>3, SetFreeTiled DEF Sound
  <2>2. list' = k BY <1>2 DEF e
  <2> HIDE DEF k
  <2> QED BY <2>1, <2>2
<1>7. \A a \in DOMAIN list' : list'[a].free => e <= a
  BY <1>3, <1>6 DEF StackInv, FreeBehindUsed
<1>8. \A b \in DOMAIN list' : ~list'[b].free => b < e
  <2> SUFFICES ASSUME NEW b \in DOMAIN list', ~list'[b].free PROVE b < e OBVIOUS
  <2>1. b # e /\ b \in DOMAIN list /\ ~list[b].free BY <1>5, <1>6
  <2>2. b + HDR \in DOMAIN owned BY <1>1, <2>1 DEF Sound, Matches
  <2>3. b + HDR <= p BY <1>2, <2>2
  <2> QED BY <1>3, <2>1, <2>3
<1>9. FreeBehindUsed(list') BY <1>3, <1>6, <1>7, <1>8 DEF FreeBehindUsed
<1>10. OthersLast(list', e) BY <1>1, <1>6 DEF StackInv, LastIfFree, OthersLast
<1>11. atNull' \in DOMAIN list' \cup {NULL} BY <1>1, <1>6 DEF StackInv
<1> QED BY <1>1, <1>4, <1>5, <1>7, <1>9, <1>10, <1>11 DEF StackInv, FreeFrom

LEMMA FreeLoopStack ==
  ASSUME IInv, StackInv, FreeLoop
  PROVE  StackInv'
<1> DEFINE e == call.entry
<1>1. /\ fault = "none" /\ call # Idle /\ Tiled(list) /\ PrevExact(list)
      /\ e \in DOMAIN list /\ list[e].free
      /\ FreeBehindUsed(list) /\ FreeFrom(list, e) /\ OthersLast(list, e)
      /\ DOMAIN list \subseteq Nat /\ atNull \in DOMAIN list \cup {NULL}
  BY DEF FreeLoop, FreeBackward, FreeForward, Idle, IInv, CallOK, StackInv, Tiled
<1>2. CASE FreeBackward
  <2>1. ~PrevFree(list, e)
    <3>1. list[e].prev \in DOMAIN list => list[e].prev < e
      BY <1>1 DEF Tiled, PrevBehind, NULL
    <3> QED BY <1>1, <3>1 DEF PrevFree, FreeFrom
  <2>2. ~PrevGhost(list, e) BY <1>1, ExactNeighbour
  <2>3. call' = [call EXCEPT !.at = "forward"] /\ UNCHANGED <<list, atNull, fault>>
    BY <1>2, <2>1, <2>2 DEF FreeBackward
  <2>4. call' # Idle /\ call'.entry = e BY <2>3 DEF IInv, TypeOK, Idle
  <2> QED BY <1>1, <2>3, <2>4 DEF StackInv
<1>3. CASE FreeForward /\ NextFree(list, e)
  <2> DEFINE m == MergeNext(list, e)
  <2>1. list' = m /\ atNull' = AfterMergeNext(list, e) /\ UNCHANGED <<call, fault>>
    BY <1>3 DEF FreeForward
  <2>2. MergeShape(list, e) /\ PrevExact(m)
    BY <1>1, <1>3, MergeNextTiled, MergeNextExact DEF NextFree
  <2>3. /\ DOMAIN m \subseteq DOMAIN list /\ e \in DOMAIN m
        /\ \A a \in DOMAIN m : m[a].free = list[a].free
        /\ \A a \in DOMAIN m \ {e} : m[a].next = list[a].next
    BY <1>1, <2>2 DEF MergeShape
  <2>4. list[list[e].next].next = NULL
    <3>1. list[e].next \in DOMAIN list \ {e} /\ list[list[e].next].free
      BY <1>1, <1>3, <2>2 DEF MergeShape, NextFree
    <3> QED BY <1>1, <3>1 DEF OthersLast
  <2>5. atNull' = e BY <2>1, <2>4 DEF AfterMergeNext
  <2> HIDE DEF m
  <2>6. FreeBehindUsed(m) /\ FreeFrom(m, e) /\ OthersLast(m, e)
    BY <1>1, <2>3 DEF FreeBehindUsed, FreeFrom, OthersLast
  <2> QED BY <1>1, <2>1, <2>2, <2>3, <2>5, <2>6 DEF StackInv
<1>4. CASE FreeForward /\ ~NextFree(list, e)
  <2>1. call' = Idle /\ UNCHANGED <<list, atNull, fault>> BY <1>4 DEF FreeForward
  <2>2. list[e].next = NULL
    <3> SUFFICES ASSUME list[e].next # NULL PROVE FALSE OBVIOUS
    <3>1. MergeShape(list, e) BY <1>1, MergeNextTiled
    <3>2. list[e].next \in DOMAIN list /\ list[e].next > e BY <3>1 DEF MergeShape
    <3>3. ~list[list[e].next].free BY <1>4 DEF NextFree
    <3>4. list[e].next < e BY <1>1, <3>2, <3>3 DEF FreeBehindUsed
    <3> QED BY <1>1, <3>2, <3>4
  <2>3. LastIfFree(list)
    <3> SUFFICES ASSUME NEW a \in DOMAIN list, list[a].free PROVE a = e
      BY <2>2 DEF LastIfFree
    <3>1. a <= e /\ e <= a BY <1>1, <2>2, NothingBehindLast DEF FreeFrom
    <3> QED BY <1>1, <3>1
  <2> QED BY <1>1, <2>1, <2>3 DEF StackInv
<1> QED BY <1>2, <1>3, <1>4 DEF FreeLoop

LEMMA InitStack == Init => StackInv
<1> SUFFICES ASSUME Init PROVE StackInv OBVIOUS
<1>1. /\ DOMAIN list = {0} /\ list[0].next = NULL /\ list[0].free
      /\ call = Idle /\ fault = "none" /\ atNull = NULL
  BY DEF Init
<1> QED BY <1>1 DEF StackInv, PrevExact, FreeBehindUsed, LastIfFree

LEMMA StackInvSafe == IInv /\ StackInv => StackUseIsSafe
<1> SUFFICES ASSUME IInv, StackInv PROVE StackUseIsSafe OBVIOUS
<1>1. ASSUME owned = [p \in {} |-> 0], call = Idle PROVE DOMAIN list = {0}
  <2>1. DOMAIN owned = {} BY <1>1
  <2>2. /\ Tiled(list) /\ 0 \in DOMAIN list /\ DOMAIN list \subseteq Nat
        /\ \A a \in DOMAIN list : list[a].free
    BY <2>1 DEF IInv, StackInv, Tiled, Matches
  <2>3. list[0].next = NULL BY <1>1, <2>2 DEF StackInv, LastIfFree
  <2>4. \A a \in DOMAIN list : a <= 0 BY <2>2, <2>3, NothingBehindLast
  <2> QED BY <2>2, <2>4
<1> QED BY <1>1 DEF StackInv, StackUseIsSafe, FreeBehindUsed

\* Callers that free the newest block first never damage the list or make a prev
\* stale, and get one free block back when they have freed everything; what their
\* frees write through NULL, as heap.c:54 does whenever it joins the last block, is
\* the address of a block of the list.
THEOREM StackCorrect == StackSpec => []StackUseIsSafe
<1> DEFINE SInv == IInv /\ StackInv
<1>1. Init => SInv BY InitInv, InitStack
<1>2. SInv /\ [StackNext]_vars => SInv'
  <2> SUFFICES ASSUME IInv, StackInv, [StackNext]_vars PROVE IInv' /\ StackInv'
    OBVIOUS
  <2>1. StackNext => Next BY DEF StackNext, NewestFirst, Next, Freeing
  <2>2. IInv' BY <2>1, NextInv
  <2>3. ASSUME Allocation PROVE StackInv'
    BY <2>3, MallocStack, RequestsAssumption DEF Allocation
  <2>4. ASSUME NewestFirst PROVE StackInv' BY <2>4, NewestFirstStack
  <2>5. ASSUME FreeLoop PROVE StackInv' BY <2>5, FreeLoopStack
  <2>6. ASSUME UNCHANGED vars PROVE StackInv'
    BY <2>6 DEF vars, StackInv, PrevExact, FreeBehindUsed, LastIfFree, FreeFrom, OthersLast
  <2> QED BY <2>2, <2>3, <2>4, <2>5, <2>6 DEF StackNext
<1>3. SInv => StackUseIsSafe BY StackInvSafe
<1> QED BY <1>1, <1>2, <1>3, PTL DEF StackSpec

=============================================================================
