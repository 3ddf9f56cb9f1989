-------------------------------- MODULE Heap --------------------------------
(***************************************************************************)
(* The kernel heap, kernel/heap.c (lib/goblibc/src/stdlib.c repeats it for *)
(* the apps).  Block headers live in the heap itself, in front of the      *)
(* payload they describe; "list" holds the headers that can be reached     *)
(* from first_entry through the next pointers, keyed by address.  All      *)
(* addresses are relative to the start of the heap.                        *)
(*                                                                         *)
(* Once the code follows a link to something that is not a neighbouring    *)
(* block, or writes a header where there is no room for one, the bytes it  *)
(* overwrites are arbitrary.  Such a step records what went wrong in       *)
(* "fault", and the behaviour ends there.                                  *)
(*                                                                         *)
(* Joining the last block of the heap writes entry->next->prev where next  *)
(* is NULL (heap.c:47, 54).  The kernel maps page 0, so nothing stops the  *)
(* write; the word it hits lies below the heap and no list runs through    *)
(* it.  "atNull" is that word.                                             *)
(***************************************************************************)
EXTENDS Integers, FiniteSets

CONSTANTS HeapSize,   \* bytes handed to init_heap
          HDR,        \* sizeof(BlockHeader)
          Requests,   \* sizes that callers ask for
          Alignments, \* alignments that callers of malloc_aligned ask for
          UintMax     \* UINT32_MAX

ASSUME HeapSizeAssumption == HeapSize \in Nat /\ HDR \in Nat \ {0} /\ HeapSize >= HDR
ASSUME RequestsAssumption == Requests \subseteq Nat
ASSUME AlignmentsAssumption == Alignments \subseteq Nat \ {0}
ASSUME UintMaxAssumption == UintMax \in Nat

VARIABLES list,   \* header address -> block header
          owned,  \* payload address held by a caller -> size it asked for
          call,   \* where the running call of free() is
          atNull, \* what merge() wrote to NULL->prev last, NULL before it did
          fault   \* "none", or how the heap was damaged or the CPU trapped

vars == <<list, owned, call, atNull, fault>>

NULL == -1
Idle == [at |-> "idle", entry |-> NULL]
Link == Nat \cup {NULL}
BlockHeader == [size : Nat, free : BOOLEAN, prev : Link, next : Link]
Faults == {"none",
           "merge",    \* merged with a block that is not the neighbour
           "ghost",    \* followed prev to a header that was merged away
           "split",    \* cut a block that has no room for a second header
           "clobber",  \* wrote a header into bytes still to be copied
           "divide"}   \* calloc() divided by 0

-----------------------------------------------------------------------------
(* split() and merge(), as functions of the list.                          *)

\* Mutant of Split: the second block does not point back.
SplitUnlinked(l, e, s) ==
  LET second == e + HDR + s IN
  [a \in DOMAIN l \cup {second} |->
    CASE a = second -> [size |-> l[e].size - s - HDR, free |-> TRUE,
                        prev |-> NULL, next |-> l[e].next]
      [] a = e      -> [l[e] EXCEPT !.size = s, !.next = second]
      [] OTHER      -> l[a]]

\* The block at e keeps s bytes, the rest becomes a free block behind it.
Split(l, e, s) ==
  LET second == e + HDR + s IN
  [a \in DOMAIN l \cup {second} |->
    CASE a = second -> [size |-> l[e].size - s - HDR, free |-> TRUE,
                        prev |-> e, next |-> l[e].next]
      [] a = e      -> [l[e] EXCEPT !.size = s, !.next = second]
      [] OTHER      -> l[a]]

HasRoom(l, e, s) == s + HDR <= l[e].size

\* Mutant of MergeNext: the header of the second block is not counted.
MergeNextWithoutHeader(l, e) ==
  LET n == l[e].next IN
  [a \in DOMAIN l \ {n} |->
    CASE a = e         -> [l[e] EXCEPT !.size = @ + l[n].size, !.next = l[n].next]
      [] a = l[n].next -> [l[a] EXCEPT !.prev = e]
      [] OTHER         -> l[a]]

\* merge(entry, 'n')
MergeNext(l, e) ==
  LET n == l[e].next IN
  [a \in DOMAIN l \ {n} |->
    CASE a = e         -> [l[e] EXCEPT !.size = @ + l[n].size + HDR, !.next = l[n].next]
      [] a = l[n].next -> [l[a] EXCEPT !.prev = e]
      [] OTHER         -> l[a]]

\* Mutant of MergePrev: the block behind keeps its prev.
MergePrevUnlinked(l, e) ==
  LET p == l[e].prev IN
  [a \in {b \in DOMAIN l : b <= p \/ b > e} |->
    IF a = p THEN [l[p] EXCEPT !.size = @ + l[e].size + HDR, !.next = l[e].next] ELSE l[a]]

\* merge(entry, 'p'): whatever lies between prev and e drops off the list.
MergePrev(l, e) ==
  LET p == l[e].prev IN
  [a \in {b \in DOMAIN l : b <= p \/ b > e} |->
    CASE a = p         -> [l[p] EXCEPT !.size = @ + l[e].size + HDR, !.next = l[e].next]
      [] a = l[e].next -> [l[a] EXCEPT !.prev = p]
      [] OTHER         -> l[a]]

\* What merge(entry, 'n') and merge(entry, 'p') leave at NULL->prev: behind the last
\* block there is no header to point back.
AfterMergeNext(l, e) == IF l[l[e].next].next = NULL THEN e ELSE atNull
AfterMergePrev(l, e) == IF l[e].next = NULL THEN l[e].prev ELSE atNull

SetFree(l, e, f) == [l EXCEPT ![e].free = f]

Neighbours(l, p, e) == l[p].next = e
\* Mutant of NextFree: whether the block is free is not looked at.
NextExists(l, e) == l[e].next # NULL
NextFree(l, e) == l[e].next # NULL /\ l[l[e].next].free
PrevFree(l, e) == l[e].prev \in DOMAIN l /\ l[l[e].prev].free
PrevGhost(l, e) == l[e].prev # NULL /\ l[e].prev \notin DOMAIN l

-----------------------------------------------------------------------------
(* malloc, malloc_aligned, calloc.                                         *)

\* The first block of the list among those that fit.
IsFirst(e, fitting) == e \in fitting /\ \A a \in fitting : e <= a

\* Mark e used, after cutting off the rest when it is worth keeping.
Take(l, e, n) ==
  SetFree(IF l[e].size > (n + HDR) * 2 THEN Split(l, e, n) ELSE l, e, FALSE)

Suits(e, n) == list[e].free /\ list[e].size >= n

Own(o, p, n) == [q \in DOMAIN o \cup {p} |-> IF q = p THEN n ELSE o[q]]
Disown(o, p) == [q \in DOMAIN o \ {p} |-> o[q]]

Ready == fault = "none" /\ call = Idle

Malloc(n) ==
  /\ Ready
  /\ n # 0
  /\ \E e \in DOMAIN list :
       /\ IsFirst(e, {a \in DOMAIN list : Suits(a, n)})
       /\ list' = Take(list, e, n)
       /\ owned' = Own(owned, e + HDR, n)
  /\ UNCHANGED <<call, atNull, fault>>

Padding(e, align) == ((e + HDR + align - 1) \div align) * align - (e + HDR)

SuitsAligned(e, n, align) ==
  /\ Suits(e, n + Padding(e, align))
  /\ Padding(e, align) >= HDR

MallocAligned(n, align) ==
  /\ Ready
  /\ n # 0
  /\ \E e \in DOMAIN list :
       /\ IsFirst(e, {a \in DOMAIN list : SuitsAligned(a, n, align)})
       /\ LET pad == Padding(e, align)
              b   == IF pad > HDR THEN e + pad ELSE e
              l   == IF pad > HDR THEN Split(list, e, pad - HDR) ELSE list
          IN  /\ list' = Take(l, b, n)
              /\ owned' = Own(owned, b + HDR, n)
  /\ UNCHANGED <<call, atNull, fault>>

\* The test against overflow divides by the size, whatever it is.
Calloc(k, n) ==
  \/ /\ n # 0
     /\ k <= UintMax \div n
     /\ Malloc(k * n)
  \/ /\ Ready
     /\ n = 0
     /\ fault' = "divide"
     /\ UNCHANGED <<list, owned, call, atNull>>

-----------------------------------------------------------------------------
(* free: one step for each turn of its two loops.                          *)

Free(p) ==
  /\ Ready
  /\ list' = SetFree(list, p - HDR, TRUE)
  /\ owned' = Disown(owned, p)
  /\ call' = [at |-> "backward", entry |-> p - HDR]
  /\ UNCHANGED <<atNull, fault>>

FreeBackward ==
  LET e == call.entry IN
  /\ fault = "none"
  /\ call.at = "backward"
  /\ \/ /\ PrevFree(list, e)
        /\ list' = MergePrev(list, e)
        /\ call' = [call EXCEPT !.entry = list[e].prev]
        /\ atNull' = AfterMergePrev(list, e)
        /\ fault' = IF Neighbours(list, list[e].prev, e) THEN "none" ELSE "merge"
     \/ /\ PrevGhost(list, e)
        /\ fault' = "ghost"
        /\ UNCHANGED <<list, call, atNull>>
     \/ /\ ~PrevFree(list, e)
        /\ call' = [call EXCEPT !.at = "forward"]
        /\ UNCHANGED <<list, atNull, fault>>
  /\ UNCHANGED owned

\* Mutant of FreeForward: the result of the merge is thrown away.
FreeForwardIdly ==
  LET e == call.entry IN
  /\ fault = "none"
  /\ call.at = "forward"
  /\ IF NextFree(list, e) THEN UNCHANGED call ELSE call' = Idle
  /\ UNCHANGED <<list, owned, atNull, fault>>

FreeForward ==
  LET e == call.entry IN
  /\ fault = "none"
  /\ call.at = "forward"
  /\ IF NextFree(list, e)
     THEN list' = MergeNext(list, e) /\ atNull' = AfterMergeNext(list, e) /\ UNCHANGED call
     ELSE call' = Idle /\ UNCHANGED <<list, atNull>>
  /\ UNCHANGED <<owned, fault>>

-----------------------------------------------------------------------------
(* realloc: its cases in the order the code tries them.                    *)

Shrinks(e, n) == n <= list[e].size - 2 * HDR
Stays(e, n) == ~Shrinks(e, n) /\ n <= list[e].size

Size(a) == list[a].size
GrowsForward(e, n) ==
  NextFree(list, e) /\ n < Size(e) + Size(list[e].next) + HDR
GrowsBothWays(e, n) ==
  /\ NextFree(list, e) /\ PrevFree(list, e)
  /\ n < Size(e) + Size(list[e].next) + Size(list[e].prev) + 2 * HDR
GrowsBackward(e, n) ==
  PrevFree(list, e) /\ n < Size(e) + Size(list[e].prev) + HDR

\* The leftover of a shrunk block joins the free block behind it.
Trims(l, e) == l[l[e].next].free /\ NextFree(l, l[e].next)
Trim(l, e) == IF Trims(l, e) THEN MergeNext(l, l[e].next) ELSE l

ReallocShrink(p, n) ==
  LET e == p - HDR
      l == Split(list, e, n)
  IN
  /\ Ready
  /\ Shrinks(e, n)
  /\ list' = Trim(l, e)
  /\ atNull' = IF Trims(l, e) THEN AfterMergeNext(l, l[e].next) ELSE atNull
  /\ owned' = Own(owned, p, n)
  /\ UNCHANGED <<call, fault>>

ReallocStay(p, n) ==
  /\ Ready
  /\ Stays(p - HDR, n)
  /\ owned' = Own(owned, p, n)
  /\ UNCHANGED <<list, call, atNull, fault>>

ReallocForward(p, n) ==
  LET e == p - HDR
      l == MergeNext(list, e)
  IN
  /\ Ready
  /\ n > Size(e)
  /\ GrowsForward(e, n)
  /\ IF HasRoom(l, e, n)
     THEN /\ list' = Split(l, e, n)
          /\ atNull' = AfterMergeNext(list, e)
          /\ owned' = Own(owned, p, n)
          /\ UNCHANGED fault
     ELSE /\ fault' = "split"
          /\ UNCHANGED <<list, owned, atNull>>
  /\ UNCHANGED call

\* Both cases that move the data down: l is the list after the merge with
\* the next block, if there was one.
MoveDown(l, p, n) ==
  LET e     == p - HDR
      low   == l[e].prev
      m     == MergePrev(l, e)
      wrong == IF ~Neighbours(l, low, e) THEN "merge"
               ELSE IF ~HasRoom(m, low, n) THEN "split"
               ELSE IF n > l[low].size /\ n < l[low].size + HDR + Size(e) THEN "clobber"
               ELSE "none"
  IN
  /\ fault' = wrong
  /\ IF wrong = "none"
     THEN /\ list' = SetFree(Split(m, low, n), low, FALSE)
          /\ atNull' = AfterMergePrev(l, e)
          /\ owned' = Own(Disown(owned, p), low + HDR, n)
     ELSE UNCHANGED <<list, owned, atNull>>
  /\ UNCHANGED call

ReallocBothWays(p, n) ==
  LET e == p - HDR IN
  /\ Ready
  /\ n > Size(e)
  /\ ~GrowsForward(e, n)
  /\ GrowsBothWays(e, n)
  /\ MoveDown(MergeNext(list, e), p, n)

ReallocBackward(p, n) ==
  LET e == p - HDR IN
  /\ Ready
  /\ n > Size(e)
  /\ ~GrowsForward(e, n) /\ ~GrowsBothWays(e, n)
  /\ GrowsBackward(e, n)
  /\ MoveDown(list, p, n)

\* A free flag and a size read from a header that was merged away.
ReallocGhost(p, n) ==
  LET e == p - HDR IN
  /\ Ready
  /\ n > Size(e)
  /\ ~GrowsForward(e, n)
  /\ PrevGhost(list, e)
  /\ fault' = "ghost"
  /\ UNCHANGED <<list, owned, call, atNull>>

\* Mutant of ReallocMove: the old block is not freed.
ReallocMoveLeaking(p, n) ==
  LET e == p - HDR IN
  /\ Ready
  /\ n > Size(e)
  /\ ~GrowsForward(e, n) /\ ~GrowsBothWays(e, n) /\ ~GrowsBackward(e, n)
  /\ \E a \in DOMAIN list :
       /\ IsFirst(a, {b \in DOMAIN list : Suits(b, n)})
       /\ list' = Take(list, a, n)
       /\ owned' = Own(Disown(owned, p), a + HDR, n)
  /\ UNCHANGED <<call, atNull, fault>>

\* Allocate, copy, free; the last call's loops follow.
ReallocMove(p, n) ==
  LET e == p - HDR IN
  /\ Ready
  /\ n > Size(e)
  /\ ~GrowsForward(e, n) /\ ~GrowsBothWays(e, n) /\ ~GrowsBackward(e, n)
  /\ \E a \in DOMAIN list :
       /\ IsFirst(a, {b \in DOMAIN list : Suits(b, n)})
       /\ list' = SetFree(Take(list, a, n), e, TRUE)
       /\ owned' = Own(Disown(owned, p), a + HDR, n)
  /\ call' = [at |-> "backward", entry |-> e]
  /\ UNCHANGED <<atNull, fault>>

Realloc(p, n) ==
  \/ ReallocShrink(p, n)
  \/ ReallocStay(p, n)
  \/ ReallocForward(p, n)
  \/ ReallocBothWays(p, n)
  \/ ReallocBackward(p, n)
  \/ ReallocGhost(p, n)
  \/ ReallocMove(p, n)

-----------------------------------------------------------------------------
\* init_heap: one free block over the whole buffer.
Init ==
  /\ list = [a \in {0} |-> [size |-> HeapSize - HDR, free |-> TRUE, prev |-> NULL, next |-> NULL]]
  /\ owned = [p \in {} |-> 0]
  /\ call = Idle
  /\ atNull = NULL
  /\ fault = "none"

Allocation == \E n \in Requests : Malloc(n)
AlignedAllocation == \E n \in Requests, align \in Alignments : MallocAligned(n, align)
ArrayAllocation == \E k, n \in Requests : k * n \in Requests /\ Calloc(k, n)
Resizing == \E p \in DOMAIN owned, n \in Requests : Realloc(p, n)
Freeing == \E p \in DOMAIN owned : Free(p)
FreeLoop == FreeBackward \/ FreeForward

Next == \/ Allocation \/ AlignedAllocation \/ ArrayAllocation
        \/ Resizing \/ Freeing \/ FreeLoop

Spec == Init /\ [][Next]_vars

\* Callers that only use malloc and free, and free the newest block first.
NewestFirst == \E p \in DOMAIN owned : (\A q \in DOMAIN owned : q <= p) /\ Free(p)
StackNext == Allocation \/ NewestFirst \/ FreeLoop
StackSpec == Init /\ [][StackNext]_vars

-----------------------------------------------------------------------------
(* Properties.                                                             *)

\* Every variable has its type (init_heap, BlockHeader).
TypeOK ==
  /\ DOMAIN list \subseteq Nat
  /\ list \in [DOMAIN list -> BlockHeader]
  /\ DOMAIN owned \subseteq Nat
  /\ owned \in [DOMAIN owned -> Nat]
  /\ call \in [at : {"idle", "backward", "forward"}, entry : Link]
  /\ atNull \in Link
  /\ fault \in Faults

\* A block ends where the block its next pointer names begins, the last one
\* at the end of the heap.
EndsAtNext(l, a) ==
  LET end == a + HDR + l[a].size IN
  /\ end <= HeapSize
  /\ l[a].next = IF end = HeapSize THEN NULL ELSE end
  /\ end # HeapSize => end \in DOMAIN l

\* No header lies inside another block.
NoneInside(l, a) == \A b \in DOMAIN l : a < b => a + HDR + l[a].size <= b

\* Until a fault, headers and payloads tile the heap: whatever sequence of
\* calls cut, joined and moved blocks, no byte is lost or counted twice.
BlocksTile ==
  fault = "none" => /\ 0 \in DOMAIN list
                    /\ \A a \in DOMAIN list : EndsAtNext(list, a) /\ NoneInside(list, a)

\* Until a fault, a payload a caller holds is a block of its own, marked used
\* and large enough for what it asked for; and every block marked used has an
\* owner who can free it, so no path of realloc or malloc_aligned leaks one.
OwnersMatchBlocks ==
  fault = "none" =>
    /\ \A p \in DOMAIN owned : /\ p - HDR \in DOMAIN list
                              /\ ~list[p - HDR].free
                              /\ list[p - HDR].size >= owned[p]
    /\ \A a \in DOMAIN list : ~list[a].free => a + HDR \in DOMAIN owned

\* Until a fault, prev leads strictly towards the start of the heap and only
\* the first block has none, stale as it may be; free()'s backward loop
\* depends on it.
PrevIsBehind ==
  fault = "none" => \A a \in DOMAIN list :
    IF a = 0 THEN list[a].prev = NULL ELSE list[a].prev \in 0..(a - 1)

PrevExact(l) == \A a \in DOMAIN l : l[a].next # NULL => l[l[a].next].prev = a

\* As long as no prev is stale, nothing is merged with a block that is not
\* its neighbour, and the loops of free() make no prev stale: only split(),
\* which forgets the block behind the one it cuts, can start the damage.
ExactLinksStayExact ==
  [][PrevExact(list) => /\ fault' \notin {"merge", "ghost"}
                        /\ call # Idle => PrevExact(list')]_vars

\* Callers that free in the opposite order of their mallocs never damage the list
\* or make a prev stale: all that is free lies behind all that is used, and the heap
\* is one free block again when they have freed everything.  It is not that nothing
\* goes astray: every such free that finds a free block behind its own joins the last
\* block and writes the address of its own through NULL (heap.c:54).  That word stays
\* the address of a block that is still in the list.
StackUseIsSafe ==
  /\ fault = "none"
  /\ PrevExact(list)
  /\ \A a, b \in DOMAIN list : list[a].free /\ ~list[b].free => b < a
  /\ owned = [p \in {} |-> 0] /\ call = Idle => DOMAIN list = {0}
  /\ atNull # NULL => atNull \in DOMAIN list

\* Every call of free() comes to its end, or to the fault that stops it.
FreeReturns == call # Idle ~> (call = Idle \/ fault # "none")

\* The heap keeps the promise of AbstractHeap: callers never share bytes.
Promise == INSTANCE AbstractHeap WITH live <- owned, Sizes <- Requests
KeepsPromise == Promise!Spec

\* heap.c:38 "p for previouse": merge(entry, 'p') joins entry to the block in
\* front of it, so that no block between them can vanish from the list.
MergesWithPrevious ==
  \A p \in DOMAIN owned : p - HDR \in DOMAIN list

=============================================================================
