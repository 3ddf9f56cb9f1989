----------------------------- MODULE PagerProofs -----------------------------
(***************************************************************************)
(* Pager.tla for every memory, table and heap size.                        *)
(***************************************************************************)
EXTENDS Pager, Recursion

-----------------------------------------------------------------------------
(* Arithmetic of pages and of flat indices.                                *)

LEMMA UpIs ==
  ASSUME NEW p \in Page
  PROVE  Up(p) = (IF p = Pages - 1 THEN 0 ELSE p + 1) /\ Up(p) \in Page
BY SizesAssumption DEF Up, Page

LEMMA DownIs ==
  ASSUME NEW p \in Page
  PROVE  Down(p) = (IF p = 0 THEN Pages - 1 ELSE p - 1) /\ Down(p) \in Page
BY SizesAssumption DEF Down, Page

\* A flat index is a place in a table and a place in a table below it.
LEMMA FlatIndex ==
  ASSUME NEW v \in Virtual
  PROVE  /\ v \in Nat /\ v \div Entries \in Index /\ v % Entries \in Index
         /\ v = Entries * (v \div Entries) + (v % Entries)
         /\ v < Entries => v \div Entries = 0 /\ v % Entries = v
         /\ v >= Entries => v \div Entries # 0
<1> DEFINE a == v \div Entries
           b == v % Entries
<1>1. v \in Nat /\ v < Entries * Entries BY SizesAssumption DEF Virtual
<1>2. v = Entries * a + b /\ b \in 0..(Entries - 1) /\ a \in Nat
  BY <1>1, SizesAssumption, SMTT(30)
<1> HIDE DEF a, b
<1>3. a < Entries
  <2>1. SUFFICES ASSUME a >= Entries PROVE FALSE BY <1>2, SizesAssumption
  <2>2. Entries * a >= Entries * Entries BY <1>2, <2>1, SizesAssumption, SMTT(30)
  <2> QED BY <1>1, <1>2, <2>2, SizesAssumption
<1>4. v < Entries => a = 0
  <2>1. SUFFICES ASSUME v < Entries, a >= 1 PROVE FALSE BY <1>2
  <2>2. Entries * a >= Entries BY <1>2, <2>1, SizesAssumption, SMTT(30)
  <2> QED BY <1>1, <1>2, <2>1, <2>2, SizesAssumption
<1>5. a = 0 => v = b BY <1>2, SizesAssumption
<1>6. /\ v \in Nat /\ a \in Index /\ b \in Index /\ v = Entries * a + b
      /\ v < Entries => a = 0 /\ b = v
      /\ v >= Entries => a # 0
  BY <1>1, <1>2, <1>3, <1>4, <1>5, SizesAssumption DEF Index
<1> QED BY <1>6 DEF a, b

-----------------------------------------------------------------------------
(* The list of free ranges: what its operations do, field by field.        *)

Link == Nat \cup {NULL}
Lists == UNION {[first : Link, block : [S -> FreeMemoryBlock]] : S \in SUBSET (0..MaxBlocks)}

From(l, n) == l.block[n].start
To(l, n) == l.block[n].end
After(l, n) == l.block[n].next
Before(l, n) == l.block[n].prev

LEMMA ListType ==
  ASSUME NEW l \in Lists
  PROVE  /\ l.first \in Link /\ Used(l) \subseteq 0..MaxBlocks
         /\ l = [first |-> l.first, block |-> l.block]
         /\ l.block \in [Used(l) -> FreeMemoryBlock]
         /\ \A n \in Used(l) : /\ l.block[n] \in FreeMemoryBlock
                               /\ From(l, n) \in Page /\ To(l, n) \in Page
                               /\ After(l, n) \in Link /\ Before(l, n) \in Link
BY DEF Lists, Used, FreeMemoryBlock, Link, From, To, After, Before

LEMMA ListMade ==
  ASSUME NEW S \in SUBSET (0..MaxBlocks), NEW b \in [S -> FreeMemoryBlock],
         NEW first \in Link
  PROVE  [first |-> first, block |-> b] \in Lists
<1> DEFINE l == [first |-> first, block |-> b]
           L == [first : Link, block : [S -> FreeMemoryBlock]]
<1>1. l \in L OBVIOUS
<1>2. L \in {[first : Link, block : [T -> FreeMemoryBlock]] : T \in SUBSET (0..MaxBlocks)}
  OBVIOUS
<1> HIDE DEF l, L
<1>3. l \in Lists BY <1>1, <1>2 DEF Lists
<1> QED BY <1>3 DEF l

\* m is l with one block changed in one field.
Edited(m, l, n, start, end, next, prev) ==
  /\ m \in Lists /\ m.first = l.first /\ Used(m) = Used(l)
  /\ From(m, n) = start /\ To(m, n) = end /\ After(m, n) = next /\ Before(m, n) = prev
  /\ \A a \in Used(l) \ {n} : m.block[a] = l.block[a]

LEMMA BlockEdit ==
  ASSUME NEW l \in Lists, NEW n \in Used(l), NEW b \in FreeMemoryBlock
  PROVE  Edited([l EXCEPT !.block[n] = b], l, n, b.start, b.end, b.next, b.prev)
<1>1. /\ l.first \in Link /\ Used(l) \subseteq 0..MaxBlocks
      /\ l = [first |-> l.first, block |-> l.block]
      /\ l.block \in [Used(l) -> FreeMemoryBlock]
  BY ListType
<1> DEFINE m == [l EXCEPT !.block[n] = b]
           f == [l.block EXCEPT ![n] = b]
<1>2. m = [first |-> l.first, block |-> f] BY <1>1
<1>3. f \in [Used(l) -> FreeMemoryBlock] /\ f[n] = b
      /\ \A a \in Used(l) \ {n} : f[a] = l.block[a]
  BY <1>1
<1> HIDE DEF f
<1>4. m \in Lists BY <1>1, <1>2, <1>3, ListMade
<1>5. m.first = l.first /\ m.block = f /\ Used(m) = Used(l)
  BY <1>2, <1>3 DEF Used
<1> HIDE DEF m
<1>6. Edited(m, l, n, b.start, b.end, b.next, b.prev)
  BY <1>3, <1>4, <1>5 DEF Edited, From, To, After, Before
<1> QED BY <1>6 DEF m

LEMMA Edits ==
  ASSUME NEW l \in Lists, NEW n \in Used(l)
  PROVE  /\ \A p \in Page :
              /\ Edited([l EXCEPT !.block[n].start = p], l, n,
                        p, To(l, n), After(l, n), Before(l, n))
              /\ Edited([l EXCEPT !.block[n].end = p], l, n,
                        From(l, n), p, After(l, n), Before(l, n))
         /\ \A a \in Link :
              /\ Edited([l EXCEPT !.block[n].next = a], l, n,
                        From(l, n), To(l, n), a, Before(l, n))
              /\ Edited([l EXCEPT !.block[n].prev = a], l, n,
                        From(l, n), To(l, n), After(l, n), a)
<1>3. l.block[n] \in FreeMemoryBlock BY ListType
<1>4. ASSUME NEW p \in Page
      PROVE  /\ Edited([l EXCEPT !.block[n].start = p], l, n,
                       p, To(l, n), After(l, n), Before(l, n))
             /\ Edited([l EXCEPT !.block[n].end = p], l, n,
                       From(l, n), p, After(l, n), Before(l, n))
  <2> DEFINE b == [l.block[n] EXCEPT !.start = p]
             c == [l.block[n] EXCEPT !.end = p]
  <2>1. /\ b \in FreeMemoryBlock /\ b.start = p /\ b.end = To(l, n)
        /\ b.next = After(l, n) /\ b.prev = Before(l, n)
    BY <1>3 DEF FreeMemoryBlock, To, After, Before
  <2>2. /\ c \in FreeMemoryBlock /\ c.start = From(l, n) /\ c.end = p
        /\ c.next = After(l, n) /\ c.prev = Before(l, n)
    BY <1>3 DEF FreeMemoryBlock, From, After, Before
  <2>3. /\ [l EXCEPT !.block[n].start = p] = [l EXCEPT !.block[n] = b]
        /\ [l EXCEPT !.block[n].end = p] = [l EXCEPT !.block[n] = c]
    OBVIOUS
  <2> HIDE DEF b, c
  <2> QED BY <2>1, <2>2, <2>3, BlockEdit
<1>5. ASSUME NEW a \in Link
      PROVE  /\ Edited([l EXCEPT !.block[n].next = a], l, n,
                       From(l, n), To(l, n), a, Before(l, n))
             /\ Edited([l EXCEPT !.block[n].prev = a], l, n,
                       From(l, n), To(l, n), After(l, n), a)
  <2> DEFINE b == [l.block[n] EXCEPT !.next = a]
             c == [l.block[n] EXCEPT !.prev = a]
  <2>1. /\ b \in FreeMemoryBlock /\ b.start = From(l, n) /\ b.end = To(l, n)
        /\ b.next = a /\ b.prev = Before(l, n)
    BY <1>3 DEF FreeMemoryBlock, From, To, Before, Link
  <2>2. /\ c \in FreeMemoryBlock /\ c.start = From(l, n) /\ c.end = To(l, n)
        /\ c.next = After(l, n) /\ c.prev = a
    BY <1>3 DEF FreeMemoryBlock, From, To, After, Link
  <2>3. /\ [l EXCEPT !.block[n].next = a] = [l EXCEPT !.block[n] = b]
        /\ [l EXCEPT !.block[n].prev = a] = [l EXCEPT !.block[n] = c]
    OBVIOUS
  <2> HIDE DEF b, c
  <2> QED BY <2>1, <2>2, <2>3, BlockEdit
<1> QED BY <1>4, <1>5

LEMMA SetShape ==
  ASSUME NEW l \in Lists, NEW n \in 0..MaxBlocks, NEW b \in FreeMemoryBlock
  PROVE  LET m == Set(l, n, b) IN
         /\ m \in Lists /\ m.first = l.first /\ Used(m) = Used(l) \cup {n}
         /\ m.block[n] = b /\ \A a \in Used(l) \ {n} : m.block[a] = l.block[a]
<1> DEFINE f == [a \in Used(l) \cup {n} |-> IF a = n THEN b ELSE l.block[a]]
<1>1. /\ l.first \in Link /\ Used(l) \subseteq 0..MaxBlocks
      /\ l = [first |-> l.first, block |-> l.block]
      /\ l.block \in [Used(l) -> FreeMemoryBlock]
  BY ListType
<1>2. Set(l, n, b) = [first |-> l.first, block |-> f] BY <1>1 DEF Set
<1>3. f \in [Used(l) \cup {n} -> FreeMemoryBlock] /\ f[n] = b
      /\ \A a \in Used(l) \ {n} : f[a] = l.block[a]
  BY <1>1
<1> HIDE DEF f
<1> QED BY <1>1, <1>2, <1>3, ListMade DEF Used

LEMMA DropShape ==
  ASSUME NEW l \in Lists, NEW n
  PROVE  LET m == Drop(l, n) IN
         /\ m \in Lists /\ m.first = l.first /\ Used(m) = Used(l) \ {n}
         /\ \A a \in Used(l) \ {n} : m.block[a] = l.block[a]
<1> DEFINE f == [a \in Used(l) \ {n} |-> l.block[a]]
<1>1. /\ l.first \in Link /\ Used(l) \subseteq 0..MaxBlocks
      /\ l = [first |-> l.first, block |-> l.block]
      /\ l.block \in [Used(l) -> FreeMemoryBlock]
  BY ListType
<1>2. Drop(l, n) = [first |-> l.first, block |-> f] BY <1>1 DEF Drop
<1>3. f \in [Used(l) \ {n} -> FreeMemoryBlock] /\ \A a \in Used(l) \ {n} : f[a] = l.block[a]
  BY <1>1
<1> HIDE DEF f
<1> QED BY <1>1, <1>2, <1>3, ListMade DEF Used

\* Where the first pointer of a list leads does not concern its blocks.
LEMMA FirstShape ==
  ASSUME NEW l \in Lists, NEW a \in Link
  PROVE  LET m == [l EXCEPT !.first = a] IN
         m \in Lists /\ m.first = a /\ m.block = l.block /\ Used(m) = Used(l)
<1>1. /\ Used(l) \subseteq 0..MaxBlocks
      /\ l = [first |-> l.first, block |-> l.block]
      /\ l.block \in [Used(l) -> FreeMemoryBlock]
  BY ListType
<1>2. [l EXCEPT !.first = a] = [first |-> a, block |-> l.block] BY <1>1
<1> QED BY <1>1, <1>2, ListMade DEF Used

\* A list with room has a place for a new block.
LEMMA FreshShape ==
  ASSUME NEW l \in Lists, HasRoom(l)
  PROVE  Fresh(l) \in 0..MaxBlocks /\ Fresh(l) \notin Used(l)
         /\ Cardinality(Used(l) \cup {Fresh(l)}) <= MaxBlocks
<1>1. Used(l) \subseteq 0..MaxBlocks BY ListType
<1>2. IsFiniteSet(0..MaxBlocks) /\ Cardinality(0..MaxBlocks) = MaxBlocks + 1
  BY FS_Interval, SizesAssumption
<1>3. IsFiniteSet(Used(l)) /\ Cardinality(Used(l)) \in Nat
  BY <1>1, <1>2, FS_Subset, FS_CardinalityType
<1>4. Cardinality(Used(l)) < MaxBlocks BY DEF HasRoom
<1>5. Used(l) # 0..MaxBlocks BY <1>2, <1>3, <1>4, SizesAssumption
<1>6. \E n \in 0..MaxBlocks : n \notin Used(l) BY <1>1, <1>5
<1>7. Fresh(l) \in 0..MaxBlocks /\ Fresh(l) \notin Used(l) BY <1>6 DEF Fresh
<1>8. Cardinality(Used(l) \cup {Fresh(l)}) = Cardinality(Used(l)) + 1
  BY <1>3, <1>7, FS_AddElement
<1> QED BY <1>3, <1>4, <1>7, <1>8, SizesAssumption

-----------------------------------------------------------------------------
(* pager_remove and pager_fill.                                            *)

\* The range is one page and goes.
WholeGone(m, l, n) ==
  /\ m \in Lists /\ m.first = After(l, n) /\ Used(m) = Used(l) \ {n}
  /\ \A a \in Used(m) : /\ From(m, a) = From(l, a) /\ To(m, a) = To(l, a)
                        /\ After(m, a) = After(l, a)
                        /\ Before(m, a) = IF a = After(l, n) THEN NULL ELSE Before(l, a)

\* The range is cut in two.
CutInside(m, l, n, p, f) ==
  /\ f \in 0..MaxBlocks /\ f \notin Used(l) /\ Cardinality(Used(l) \cup {f}) <= MaxBlocks
  /\ m \in Lists /\ m.first = l.first /\ Used(m) = Used(l) \cup {f}
  /\ From(m, n) = From(l, n) /\ To(m, n) = Down(p)
  /\ After(m, n) = f /\ Before(m, n) = Before(l, n)
  /\ From(m, f) = Up(p) /\ To(m, f) = To(l, n) /\ After(m, f) = After(l, n) /\ Before(m, f) = n
  /\ \A a \in Used(l) \ {n} : m.block[a] = l.block[a]

LEMMA WholeShape ==
  ASSUME NEW l \in Lists, NEW n \in Used(l)
  PROVE  WholeGone(RemoveWhole(l, n), l, n)
<1> DEFINE next == l.block[n].next
           d == Drop(l, n)
           rest == [d EXCEPT !.first = next]
           m == RemoveWhole(l, n)
<1>1. next = After(l, n) /\ next \in Link BY ListType DEF After
<1>2. d \in Lists /\ Used(d) = Used(l) \ {n} /\ \A a \in Used(d) : d.block[a] = l.block[a]
  BY DropShape
<1>3. rest \in Lists /\ rest.first = next /\ Used(rest) = Used(d) /\ rest.block = d.block
  BY <1>1, <1>2, FirstShape
<1>4. m = IF next \in Used(rest) THEN [rest EXCEPT !.block[next].prev = NULL] ELSE rest
  BY DEF RemoveWhole
<1> HIDE DEF d, rest, m, next
<1>5. \A a \in Used(rest) : rest.block[a] = l.block[a] BY <1>2, <1>3
<1>6. CASE next \in Used(rest)
  <2>1. Edited([rest EXCEPT !.block[next].prev = NULL], rest, next,
               From(rest, next), To(rest, next), After(rest, next), NULL)
    BY <1>3, <1>6, Edits DEF Link
  <2>2. Edited(m, rest, next, From(rest, next), To(rest, next), After(rest, next), NULL)
    BY <1>4, <1>6, <2>1
  <2>3. WholeGone(m, l, n)
    BY <1>1, <1>2, <1>3, <1>5, <1>6, <2>2
       DEF Edited, WholeGone, From, To, After, Before
  <2> QED BY <2>3 DEF m
<1>7. CASE next \notin Used(rest)
  <2>1. WholeGone(m, l, n)
    BY <1>1, <1>2, <1>3, <1>4, <1>5, <1>7 DEF WholeGone, From, To, After, Before
  <2> QED BY <2>1 DEF m
<1> QED BY <1>6, <1>7

LEMMA InsideShape ==
  ASSUME NEW l \in Lists, NEW n \in Used(l), NEW p \in Page, HasRoom(l)
  PROVE  CutInside(RemoveInside(l, n, p), l, n, p, Fresh(l))
<1> DEFINE f == Fresh(l)
           b == [l.block[n] EXCEPT !.next = f, !.end = Down(p)]
           cut == [l EXCEPT !.block[n] = b]
           new == [start |-> Up(p), end |-> l.block[n].end, next |-> l.block[n].next, prev |-> n]
           m == RemoveInside(l, n, p)
<1>1. f \in 0..MaxBlocks /\ f \notin Used(l) /\ Cardinality(Used(l) \cup {f}) <= MaxBlocks
  BY FreshShape
<1>2. Up(p) \in Page /\ Down(p) \in Page BY UpIs, DownIs
<1>3. l.block[n] \in FreeMemoryBlock /\ n \in Nat /\ f \in Nat
  BY <1>1, ListType, SizesAssumption
<1>4. new \in FreeMemoryBlock BY <1>2, <1>3 DEF FreeMemoryBlock
<1>5. /\ b \in FreeMemoryBlock /\ b.start = From(l, n) /\ b.end = Down(p)
      /\ b.next = f /\ b.prev = Before(l, n)
  <2> HIDE DEF f
  <2> QED BY <1>2, <1>3 DEF FreeMemoryBlock, From, Before
<1>6. m = Set(cut, f, new)
  <2>1. cut = [l EXCEPT !.block[n].next = f, !.block[n].end = Down(p)]
    BY ListType
  <2> QED BY <2>1 DEF RemoveInside
<1> HIDE DEF f, b, m
<1>7. Edited(cut, l, n, b.start, b.end, b.next, b.prev) BY <1>5, BlockEdit
<1> HIDE DEF cut
<1>8. cut \in Lists /\ Used(cut) = Used(l) /\ cut.first = l.first BY <1>7 DEF Edited
<1>9. /\ m \in Lists /\ m.first = l.first /\ Used(m) = Used(l) \cup {f}
      /\ m.block[f] = new /\ \A a \in Used(l) : m.block[a] = cut.block[a]
  BY <1>1, <1>4, <1>6, <1>8, SetShape
<1>10. From(m, f) = Up(p) /\ To(m, f) = To(l, n) /\ After(m, f) = After(l, n) /\ Before(m, f) = n
  BY <1>9 DEF From, To, After, Before
<1> HIDE DEF new
<1>11. CutInside(m, l, n, p, f)
  BY <1>1, <1>5, <1>7, <1>9, <1>10 DEF CutInside, Edited, From, To, After, Before
<1> QED BY <1>11 DEF f, m

\* The four outcomes of pager_remove.
LEMMA RemoveShape ==
  ASSUME NEW l \in Lists, NEW n \in Used(l), NEW p \in Page, ~RemoveFails(l, n, p)
  PROVE  LET m == Remove(l, n, p) IN
         \/ From(l, n) = p /\ To(l, n) = p /\ WholeGone(m, l, n)
         \/ From(l, n) = p /\ To(l, n) # p
            /\ Edited(m, l, n, Up(p), To(l, n), After(l, n), Before(l, n))
         \/ From(l, n) # p /\ To(l, n) = p
            /\ Edited(m, l, n, From(l, n), Down(p), After(l, n), Before(l, n))
         \/ From(l, n) # p /\ To(l, n) # p /\ \E f : CutInside(m, l, n, p, f)
<1> DEFINE m == Remove(l, n, p)
<1>0. Up(p) \in Page /\ Down(p) \in Page BY UpIs, DownIs
<1>1. CASE From(l, n) = p /\ To(l, n) = p
  <2>1. m = RemoveWhole(l, n) BY <1>1 DEF Remove, From, To
  <2> HIDE DEF m
  <2>2. WholeGone(m, l, n) BY <2>1, WholeShape
  <2> QED BY <1>1, <2>2 DEF m
<1>2. CASE From(l, n) = p /\ To(l, n) # p
  <2>1. m = [l EXCEPT !.block[n].start = Up(p)] BY <1>2 DEF Remove, RemoveFirst, From, To
  <2> HIDE DEF m
  <2>2. Edited(m, l, n, Up(p), To(l, n), After(l, n), Before(l, n)) BY <1>0, <2>1, Edits
  <2> QED BY <1>2, <2>2 DEF m
<1>3. CASE From(l, n) # p /\ To(l, n) = p
  <2>1. m = [l EXCEPT !.block[n].end = Down(p)] BY <1>3 DEF Remove, From, To
  <2> HIDE DEF m
  <2>2. Edited(m, l, n, From(l, n), Down(p), After(l, n), Before(l, n)) BY <1>0, <2>1, Edits
  <2> QED BY <1>3, <2>2 DEF m
<1>4. CASE From(l, n) # p /\ To(l, n) # p
  <2>1. m = RemoveInside(l, n, p) /\ HasRoom(l) BY <1>4 DEF Remove, RemoveFails, From, To
  <2> HIDE DEF m
  <2>2. CutInside(m, l, n, p, Fresh(l)) BY <2>1, InsideShape
  <2>3. \E f : CutInside(m, l, n, p, f) BY <2>2
  <2> QED BY <1>4, <2>3 DEF m
<1> QED BY <1>1, <1>2, <1>3, <1>4

\* A given page joins the block in front, or the one behind, or becomes a block
\* of its own between them.
JoinsFront(m, l, p, before) ==
  /\ before \in Used(l) /\ Up(To(l, before)) = p
  /\ Edited(m, l, before, From(l, before), p, After(l, before), Before(l, before))

JoinsBehind(m, l, p, after) ==
  /\ Down(From(l, after)) = p
  /\ Edited(m, l, after, p, To(l, after), After(l, after), Before(l, after))

Stands(m, l, p, before, after, f) ==
  /\ f \in 0..MaxBlocks /\ f \notin Used(l) /\ Cardinality(Used(l) \cup {f}) <= MaxBlocks
  /\ m \in Lists /\ Used(m) = Used(l) \cup {f}
  /\ m.first = IF after = l.first THEN f ELSE l.first
  /\ From(m, f) = p /\ To(m, f) = p /\ After(m, f) = after /\ Before(m, f) = before
  /\ \A a \in Used(l) : /\ From(m, a) = From(l, a) /\ To(m, a) = To(l, a)
                        /\ After(m, a) = IF a = before THEN f ELSE After(l, a)
                        /\ Before(m, a) = IF a = after THEN f ELSE Before(l, a)

LEMMA InsertShape ==
  ASSUME NEW l \in Lists, NEW p \in Page, NEW after \in Used(l),
         NEW before \in Used(l) \cup {NULL}, HasRoom(l)
  PROVE  Stands(Insert(l, p, before, after), l, p, before, after, Fresh(l))
<1> DEFINE f == Fresh(l)
           new == [start |-> p, end |-> p, next |-> after, prev |-> before]
           m == IF before = NULL THEN l ELSE [l EXCEPT !.block[before].next = f]
           h == IF after = l.first THEN [m EXCEPT !.first = f] ELSE m
           k == [h EXCEPT !.block[after].prev = f]
           r == Insert(l, p, before, after)
<1>1. f \in 0..MaxBlocks /\ f \notin Used(l) /\ Cardinality(Used(l) \cup {f}) <= MaxBlocks
  BY FreshShape
<1>2. /\ f \in Link /\ after \in Link /\ before \in Link
      /\ NULL \notin Used(l) /\ l.first \in Link
  BY <1>1, ListType, SizesAssumption DEF Link, NULL
<1>3. new \in FreeMemoryBlock BY <1>2 DEF FreeMemoryBlock, Link
<1>4. r = Set(k, f, new) BY DEF Insert
<1> HIDE DEF f, r
<1>5. /\ m \in Lists /\ m.first = l.first /\ Used(m) = Used(l)
      /\ \A a \in Used(l) : /\ From(m, a) = From(l, a) /\ To(m, a) = To(l, a)
                            /\ After(m, a) = IF a = before THEN f ELSE After(l, a)
                            /\ Before(m, a) = Before(l, a)
  <2>1. CASE before = NULL BY <1>2, <2>1
  <2>2. CASE before # NULL
    <3>1. Edited([l EXCEPT !.block[before].next = f], l, before,
                 From(l, before), To(l, before), f, Before(l, before))
      BY <1>2, <2>2, Edits
    <3>2. Edited(m, l, before, From(l, before), To(l, before), f, Before(l, before))
      BY <2>2, <3>1
    <3> HIDE DEF m
    <3> QED BY <3>2 DEF Edited, From, To, After, Before
  <2> QED BY <2>1, <2>2
<1> HIDE DEF m
<1>6. /\ h \in Lists /\ Used(h) = Used(l) /\ h.block = m.block
      /\ h.first = IF after = l.first THEN f ELSE l.first
  BY <1>2, <1>5, FirstShape
<1> HIDE DEF h
<1>7. Edited(k, h, after, From(h, after), To(h, after), After(h, after), f)
  BY <1>2, <1>6, Edits
<1> HIDE DEF k
<1>8. k \in Lists /\ Used(k) = Used(l) /\ k.first = h.first BY <1>6, <1>7 DEF Edited
<1>9. /\ r \in Lists /\ r.first = h.first /\ Used(r) = Used(l) \cup {f}
      /\ r.block[f] = new /\ \A a \in Used(l) : r.block[a] = k.block[a]
  BY <1>1, <1>3, <1>4, <1>8, SetShape
<1>10. From(r, f) = p /\ To(r, f) = p /\ After(r, f) = after /\ Before(r, f) = before
  BY <1>9 DEF From, To, After, Before
<1>11. \A a \in Used(l) : /\ From(k, a) = From(m, a) /\ To(k, a) = To(m, a)
                          /\ After(k, a) = After(m, a)
                          /\ Before(k, a) = IF a = after THEN f ELSE Before(m, a)
  BY <1>6, <1>7 DEF Edited, From, To, After, Before
<1> HIDE DEF new
<1>12. \A a \in Used(l) : /\ From(r, a) = From(k, a) /\ To(r, a) = To(k, a)
                          /\ After(r, a) = After(k, a) /\ Before(r, a) = Before(k, a)
  BY <1>9 DEF From, To, After, Before
<1>13. Stands(r, l, p, before, after, f)
  BY <1>1, <1>5, <1>6, <1>9, <1>10, <1>11, <1>12 DEF Stands
<1> QED BY <1>13 DEF r, f

\* The search of pager_fill, step by step.
Search(at, l, p) ==
  /\ at \in [0..MaxBlocks -> Link] /\ at[0] = l.first
  /\ \A k \in 0..(MaxBlocks - 1) :
       at[k + 1] = IF at[k] \notin Used(l) \/ From(l, at[k]) >= p
                   THEN at[k] ELSE After(l, at[k])

LEMMA BehindIs ==
  ASSUME NEW l \in Lists, NEW p \in Page
  PROVE  \E at : Search(at, l, p) /\ Behind(l, p) = at[MaxBlocks]
<1> DEFINE body(f) == [k \in 0..MaxBlocks |->
                         IF k = 0 THEN l.first
                         ELSE LET n == f[k - 1] IN
                              IF n \notin Used(l) \/ l.block[n].start >= p THEN n
                              ELSE l.block[n].next]
           at == CHOOSE f : f = body(f)
           g == [n \in Link |-> IF n \notin Used(l) \/ l.block[n].start >= p THEN n
                                ELSE l.block[n].next]
           G == [k \in 1..MaxBlocks |-> g]
<1>1. l.first \in Link /\ \A n \in Used(l) : l.block[n].next \in Link
  BY ListType DEF After
<1>2. MaxBlocks \in Nat \ {0} BY SizesAssumption
<1>3. g \in [Link -> Link] BY <1>1
<1>4. G \in [1..MaxBlocks -> [Link -> Link]] BY <1>3
<1>5. \E f \in [0..MaxBlocks -> Link] : f = body(f)
  <2>1. PICK f \in [0..MaxBlocks -> Link] : Turns(f, MaxBlocks, l.first, G)
    <3> HIDE DEF G
    <3> QED BY <1>1, <1>2, <1>4, TurnsExist
  <2>2. ASSUME NEW k \in 0..MaxBlocks, k # 0
        PROVE  G[k][f[k - 1]] = LET n == f[k - 1] IN
                 IF n \notin Used(l) \/ l.block[n].start >= p THEN n ELSE l.block[n].next
    <3>1. k - 1 \in 0..MaxBlocks /\ k \in 1..MaxBlocks BY <1>2, <2>2
    <3>2. f[k - 1] \in Link BY <3>1
    <3> QED BY <3>1, <3>2
  <2> HIDE DEF G
  <2>3. f = body(f) BY <2>1, <2>2 DEF Turns
  <2> QED BY <2>3
<1>6. at = body(at)
  <2> HIDE DEF body
  <2> QED BY <1>5
<1>7. Behind(l, p) = at[MaxBlocks] BY DEF Behind
<1> HIDE DEF at
<1>8. /\ at[0] = l.first
      /\ \A k \in 0..(MaxBlocks - 1) :
           at[k + 1] = IF at[k] \notin Used(l) \/ l.block[at[k]].start >= p
                       THEN at[k] ELSE l.block[at[k]].next
  <2>1. \A k \in 0..MaxBlocks : at[k] = body(at)[k] BY <1>6
  <2>2. \A k \in 0..(MaxBlocks - 1) : k + 1 \in 0..MaxBlocks /\ k + 1 # 0 /\ (k + 1) - 1 = k
    BY <1>2
  <2>3. at[0] = l.first BY <2>1, <1>2
  <2>4. ASSUME NEW k \in 0..(MaxBlocks - 1)
        PROVE  at[k + 1] = IF at[k] \notin Used(l) \/ l.block[at[k]].start >= p
                           THEN at[k] ELSE l.block[at[k]].next
    <3>1. at[k + 1] = body(at)[k + 1] BY <2>1, <2>2
    <3> QED BY <2>2, <3>1
  <2> QED BY <2>3, <2>4
<1>9. at \in [0..MaxBlocks -> Link]
  <2> DEFINE P == {k \in Nat : k <= MaxBlocks => at[k] \in Link}
  <2>1. 0 \in P BY <1>1, <1>8
  <2>2. \A k \in P : k < MaxBlocks => k + 1 \in P
    <3> SUFFICES ASSUME NEW k \in P, k < MaxBlocks PROVE at[k + 1] \in Link OBVIOUS
    <3>1. k \in 0..(MaxBlocks - 1) /\ at[k] \in Link BY <1>2
    <3> QED BY <1>1, <1>8, <3>1
  <2>3. 0..MaxBlocks \subseteq P
    <3>1. P \in SUBSET Nat OBVIOUS
    <3> HIDE DEF P
    <3> QED BY <1>2, <2>1, <2>2, <3>1, CountingUp
  <2>4. at = [k \in 0..MaxBlocks |-> at[k]] BY <1>6
  <2> QED BY <2>3, <2>4
<1> QED BY <1>7, <1>8, <1>9 DEF Search, From, After

\* The outcomes of pager_fill, when it does come back.
LEMMA FillShape ==
  ASSUME NEW l \in Lists, NEW p \in Page, FillFault(l, p) = "none"
  PROVE  LET after == Behind(l, p)
             before == Before(l, after)
             m == Fill(l, p)
         IN  /\ l.first # NULL /\ after \in Used(l) /\ From(l, after) >= p
             /\ before \in Used(l) \cup {NULL}
             /\ \/ JoinsFront(m, l, p, before)
                \/ JoinsBehind(m, l, p, after)
                \/ \E f : Stands(m, l, p, before, after, f)
<1> DEFINE after == Behind(l, p)
           before == Before(l, after)
           m == Fill(l, p)
           front == before # NULL /\ Up(To(l, before)) = p
           behind == Down(From(l, after)) = p
<1>1. /\ l.first # NULL /\ after # NULL /\ after \in Used(l) /\ ~(From(l, after) < p)
      /\ before \in Used(l) \cup {NULL} /\ (front \/ behind \/ HasRoom(l))
  BY DEF FillFault, From, To, Before
<1>2. From(l, after) \in Page /\ p \in Int /\ From(l, after) >= p
  BY <1>1, ListType, SizesAssumption DEF Page
<1>3. m = CASE front -> [l EXCEPT !.block[before].end = p]
            [] ~front /\ behind -> [l EXCEPT !.block[after].start = p]
            [] OTHER -> Insert(l, p, before, after)
  BY DEF Fill, From, To, Before
<1> HIDE DEF m, after, before
<1>4. CASE front
  <2>1. before \in Used(l) /\ m = [l EXCEPT !.block[before].end = p] BY <1>1, <1>3, <1>4
  <2>2. Edited(m, l, before, From(l, before), p, After(l, before), Before(l, before))
    BY <2>1, Edits
  <2>3. JoinsFront(m, l, p, before) BY <1>4, <2>1, <2>2 DEF JoinsFront
  <2> QED BY <1>1, <1>2, <2>3 DEF m, after, before
<1>5. CASE ~front /\ behind
  <2>1. m = [l EXCEPT !.block[after].start = p] BY <1>3, <1>5
  <2>2. Edited(m, l, after, p, To(l, after), After(l, after), Before(l, after))
    BY <1>1, <2>1, Edits
  <2>3. JoinsBehind(m, l, p, after) BY <1>5, <2>2 DEF JoinsBehind
  <2> QED BY <1>1, <1>2, <2>3 DEF m, after, before
<1>6. CASE ~front /\ ~behind
  <2>1. m = Insert(l, p, before, after) BY <1>3, <1>6
  <2>2. \E f : Stands(m, l, p, before, after, f) BY <1>1, <1>6, <2>1, InsertShape
  <2> QED BY <1>1, <1>2, <2>2 DEF m, after, before
<1> QED BY <1>4, <1>5, <1>6

\* Whatever state the list is in, it remains a list.
LEMMA FillType ==
  ASSUME NEW l \in Lists, NEW p \in Page, FillFault(l, p) = "none"
  PROVE  Fill(l, p) \in Lists
<1> DEFINE m == Fill(l, p)
           after == Behind(l, p)
           before == Before(l, after)
<1>1. \/ JoinsFront(m, l, p, before)
      \/ JoinsBehind(m, l, p, after)
      \/ \E f : Stands(m, l, p, before, after, f)
  BY FillShape
<1> HIDE DEF m, after, before
<1>2. m \in Lists BY <1>1 DEF JoinsFront, JoinsBehind, Stands, Edited
<1> QED BY <1>2 DEF m

LEMMA RemoveType ==
  ASSUME NEW l \in Lists, NEW n \in Used(l), NEW p \in Page, ~RemoveFails(l, n, p)
  PROVE  Remove(l, n, p) \in Lists
<1> DEFINE m == Remove(l, n, p)
<1>1. \/ WholeGone(m, l, n)
      \/ Edited(m, l, n, Up(p), To(l, n), After(l, n), Before(l, n))
      \/ Edited(m, l, n, From(l, n), Down(p), After(l, n), Before(l, n))
      \/ \E f : CutInside(m, l, n, p, f)
  BY RemoveShape
<1> HIDE DEF m
<1>2. m \in Lists BY <1>1 DEF WholeGone, CutInside, Edited
<1> QED BY <1>2 DEF m

-----------------------------------------------------------------------------
(* A list whose links are exact: until a page is asked for by its address. *)

Linked(l) ==
  /\ Cardinality(Used(l)) <= MaxBlocks
  /\ l.first # NULL => l.first \in Used(l)
  /\ \A n \in Used(l) :
       /\ Before(l, n) = NULL <=> n = l.first
       /\ Before(l, n) # NULL => /\ Before(l, n) \in Used(l)
                                 /\ After(l, Before(l, n)) = n
       /\ After(l, n) # NULL => /\ After(l, n) \in Used(l)
                                /\ Before(l, After(l, n)) = n

\* The search stops in such a list, at the right place, if nothing that is
\* given back lies behind the last block.
LEMMA SearchStops ==
  ASSUME NEW l \in Lists, Linked(l), l.first # NULL, NEW p \in Page,
         \A n \in Used(l) : After(l, n) = NULL => p <= From(l, n)
  PROVE  LET after == Behind(l, p) IN
         /\ after \in Used(l) /\ From(l, after) >= p
         /\ Before(l, after) # NULL => From(l, Before(l, after)) < p
<1>1. PICK at : Search(at, l, p) /\ Behind(l, p) = at[MaxBlocks] BY BehindIs
<1>2. /\ Used(l) \subseteq 0..MaxBlocks /\ NULL \notin Used(l)
      /\ \A n \in Used(l) : From(l, n) \in Page
  BY ListType, SizesAssumption DEF NULL
<1>3. MaxBlocks \in Nat \ {0} /\ p \in Int /\ Page \subseteq Int
  BY SizesAssumption DEF Page
<1>4. 0..MaxBlocks \subseteq
        {k \in Nat : k <= MaxBlocks =>
           /\ at[k] \in Used(l)
           /\ Before(l, at[k]) # NULL => From(l, Before(l, at[k])) < p}
  <2> DEFINE P == {k \in Nat : k <= MaxBlocks =>
                     /\ at[k] \in Used(l)
                     /\ Before(l, at[k]) # NULL => From(l, Before(l, at[k])) < p}
  <2>1. 0 \in P BY <1>1 DEF Search, Linked
  <2>2. ASSUME NEW k \in P, k < MaxBlocks PROVE k + 1 \in P
    <3>1. /\ k \in 0..(MaxBlocks - 1) /\ at[k] \in Used(l)
          /\ Before(l, at[k]) # NULL => From(l, Before(l, at[k])) < p
      BY <1>3, <2>2
    <3>2. CASE From(l, at[k]) >= p
      <4>1. at[k + 1] = at[k] BY <1>1, <3>1, <3>2 DEF Search
      <4> QED BY <3>1, <4>1
    <3>3. CASE ~(From(l, at[k]) >= p)
      <4>1. at[k + 1] = After(l, at[k]) BY <1>1, <3>1, <3>3 DEF Search
      <4> DEFINE n == at[k]
      <4>0. n \in Used(l) /\ From(l, n) \in Int BY <1>2, <1>3, <3>1
      <4> HIDE DEF n
      <4>2. From(l, n) < p BY <1>3, <3>3, <4>0 DEF n
      <4>3. After(l, n) # NULL BY <1>3, <4>0, <4>2
      <4> USE DEF n
      <4>4. After(l, at[k]) \in Used(l) /\ Before(l, After(l, at[k])) = at[k]
        BY <3>1, <4>3 DEF Linked
      <4> QED BY <4>1, <4>2, <4>4
    <3> QED BY <3>2, <3>3
  <2>3. P \in SUBSET Nat OBVIOUS
  <2> HIDE DEF P
  <2>4. 0..MaxBlocks \subseteq P BY <1>3, <2>1, <2>2, <2>3, CountingUp
  <2> QED BY <2>4 DEF P
<1>5. \A k \in 0..MaxBlocks :
        /\ at[k] \in Used(l)
        /\ Before(l, at[k]) # NULL => From(l, Before(l, at[k])) < p
  BY <1>4
<1>6. From(l, at[MaxBlocks]) >= p
  <2> SUFFICES ASSUME ~(From(l, at[MaxBlocks]) >= p) PROVE FALSE OBVIOUS
  <2>1. \A k \in 0..MaxBlocks : ~(From(l, at[k]) >= p)
    \* Counted from the end: it is as it is in the turn after.
    <3> DEFINE P == {k \in Nat : k <= MaxBlocks => ~(From(l, at[MaxBlocks - k]) >= p)}
    <3>1. 0 \in P BY <1>3
    <3>2. ASSUME NEW k \in P, k < MaxBlocks PROVE k + 1 \in P
      <4> DEFINE j == MaxBlocks - (k + 1)
      <4>1. j \in 0..(MaxBlocks - 1) /\ j + 1 = MaxBlocks - k /\ k <= MaxBlocks
        BY <1>3, <3>2
      <4> HIDE DEF j
      <4>2. ~(From(l, at[j + 1]) >= p) BY <3>2, <4>1
      <4>3. ~(From(l, at[j]) >= p) BY <1>1, <4>1, <4>2 DEF Search
      <4> QED BY <4>3 DEF j
    <3>3. P \in SUBSET Nat OBVIOUS
    <3> HIDE DEF P
    <3>4. 0..MaxBlocks \subseteq P BY <1>3, <3>1, <3>2, <3>3, CountingUp
    <3>5. ASSUME NEW k \in 0..MaxBlocks PROVE ~(From(l, at[k]) >= p)
      <4>1. MaxBlocks - k \in P /\ MaxBlocks - k <= MaxBlocks /\ MaxBlocks - (MaxBlocks - k) = k
        BY <1>3, <3>4
      <4> QED BY <4>1 DEF P
    <3> QED BY <3>5
  <2>2. \A k \in 0..(MaxBlocks - 1) :
          /\ at[k + 1] = After(l, at[k])
          /\ at[k + 1] # NULL /\ Before(l, at[k + 1]) = at[k]
    <3> SUFFICES ASSUME NEW k \in 0..(MaxBlocks - 1)
                 PROVE  /\ at[k + 1] = After(l, at[k])
                        /\ at[k + 1] # NULL /\ Before(l, at[k + 1]) = at[k]
      OBVIOUS
    <3>1. k \in 0..MaxBlocks /\ k + 1 \in 0..MaxBlocks BY <1>3
    <3>2. at[k + 1] = After(l, at[k]) BY <1>1, <1>5, <2>1, <3>1 DEF Search
    <3>3. at[k + 1] # NULL BY <1>2, <1>5, <3>1
    <3> QED BY <1>5, <3>1, <3>2, <3>3 DEF Linked
  <2>3. \A i, j \in 0..MaxBlocks : i < j => at[i] # at[j]
    <3> DEFINE P == {i \in Nat : \A j \in 0..MaxBlocks : i < j => at[i] # at[j]}
    <3>1. 0 \in P
      <4> SUFFICES ASSUME NEW j \in 0..MaxBlocks, 0 < j PROVE at[0] # at[j] OBVIOUS
      <4>1. j - 1 \in 0..(MaxBlocks - 1) /\ (j - 1) + 1 = j /\ j - 1 \in 0..MaxBlocks
            /\ 0 \in 0..MaxBlocks
        BY <1>3
      <4>2. Before(l, at[j]) = at[j - 1] /\ at[j - 1] # NULL BY <1>2, <1>5, <2>2, <4>1
      <4>3. Before(l, at[0]) = NULL BY <1>1, <1>5, <4>1 DEF Search, Linked
      <4> QED BY <4>2, <4>3
    <3>2. ASSUME NEW i \in P, i < MaxBlocks PROVE i + 1 \in P
      <4> SUFFICES ASSUME NEW j \in 0..MaxBlocks, i + 1 < j PROVE at[i + 1] # at[j] OBVIOUS
      <4>1. /\ j - 1 \in 0..(MaxBlocks - 1) /\ (j - 1) + 1 = j /\ j - 1 \in 0..MaxBlocks
            /\ i \in 0..(MaxBlocks - 1) /\ i < j - 1
        BY <1>3, <3>2
      <4>2. Before(l, at[j]) = at[j - 1] /\ Before(l, at[i + 1]) = at[i]
        BY <2>2, <4>1
      <4>3. at[i] # at[j - 1] BY <4>1
      <4> QED BY <4>2, <4>3
    <3>3. P \in SUBSET Nat OBVIOUS
    <3> HIDE DEF P
    <3>4. 0..MaxBlocks \subseteq P BY <1>3, <3>1, <3>2, <3>3, CountingUp
    <3> QED BY <3>4 DEF P
  <2>4. IsFiniteSet(0..MaxBlocks) /\ Cardinality(0..MaxBlocks) = MaxBlocks + 1
    BY <1>3, FS_Interval
  <2>5. IsFiniteSet(Used(l)) /\ Cardinality(Used(l)) \in Nat
    BY <1>2, <2>4, FS_Subset, FS_CardinalityType
  <2>6. Cardinality(Used(l)) < Cardinality(0..MaxBlocks)
    BY <1>3, <2>4, <2>5 DEF Linked
  <2> DEFINE way == [k \in 0..MaxBlocks |-> at[k]]
  <2>7. way \in [0..MaxBlocks -> Used(l)] BY <1>5
  <2> HIDE DEF way
  <2>8. \E i, j \in 0..MaxBlocks : i # j /\ way[i] = way[j]
    BY <2>4, <2>5, <2>6, <2>7, FS_PigeonHole
  <2>9. PICK i \in 0..MaxBlocks, j \in 0..MaxBlocks : i # j /\ at[i] = at[j]
    BY <2>8 DEF way
  <2>10. i < j \/ j < i BY <2>9
  <2> QED BY <2>3, <2>9, <2>10
<1>7. MaxBlocks \in 0..MaxBlocks BY <1>3
<1> QED BY <1>1, <1>5, <1>6, <1>7

LEMMA EditedLinked ==
  ASSUME NEW l \in Lists, NEW n \in Used(l), Linked(l), NEW m, NEW x, NEW y,
         Edited(m, l, n, x, y, After(l, n), Before(l, n))
  PROVE  Linked(m)
<1>1. /\ m.first = l.first /\ Used(m) = Used(l)
      /\ \A a \in Used(l) : After(m, a) = After(l, a) /\ Before(m, a) = Before(l, a)
  BY DEF Edited, After, Before
<1> QED BY <1>1 DEF Linked

LEMMA StandsLinked ==
  ASSUME NEW l \in Lists, Linked(l), NEW after \in Used(l), NEW p, NEW m, NEW f,
         Stands(m, l, p, Before(l, after), after, f)
  PROVE  Linked(m)
<1> DEFINE before == Before(l, after)
<1>1. /\ f \notin Used(l) /\ Cardinality(Used(l) \cup {f}) <= MaxBlocks
      /\ Used(m) = Used(l) \cup {f}
      /\ m.first = IF after = l.first THEN f ELSE l.first
      /\ After(m, f) = after /\ Before(m, f) = before
      /\ \A a \in Used(l) : /\ After(m, a) = IF a = before THEN f ELSE After(l, a)
                            /\ Before(m, a) = IF a = after THEN f ELSE Before(l, a)
  BY DEF Stands
<1>2. f # NULL /\ NULL \notin Used(l)
  BY ListType, SizesAssumption DEF Stands, NULL
<1>3. /\ l.first # NULL => l.first \in Used(l)
      /\ before = NULL <=> after = l.first
      /\ before # NULL => before \in Used(l) /\ After(l, before) = after
      /\ \A n \in Used(l) :
           /\ Before(l, n) = NULL <=> n = l.first
           /\ Before(l, n) # NULL => Before(l, n) \in Used(l) /\ After(l, Before(l, n)) = n
           /\ After(l, n) # NULL => After(l, n) \in Used(l) /\ Before(l, After(l, n)) = n
  BY DEF Linked
<1> HIDE DEF before
<1>4. m.first # NULL => m.first \in Used(m) BY <1>1, <1>3
<1>5. ASSUME NEW n \in Used(m)
      PROVE  /\ Before(m, n) = NULL <=> n = m.first
             /\ Before(m, n) # NULL => Before(m, n) \in Used(m) /\ After(m, Before(m, n)) = n
             /\ After(m, n) # NULL => After(m, n) \in Used(m) /\ Before(m, After(m, n)) = n
  <2>1. CASE n = f BY <1>1, <1>2, <1>3, <2>1
  <2>2. CASE n \in Used(l) /\ n # f
    <3>1. Before(m, n) = NULL <=> n = m.first BY <1>1, <1>2, <1>3, <2>2
    <3>2. Before(m, n) # NULL => Before(m, n) \in Used(m) /\ After(m, Before(m, n)) = n
      <4>1. CASE n = after BY <1>1, <2>2, <4>1
      <4>2. CASE n # after
        <5>1. Before(m, n) = Before(l, n) BY <1>1, <2>2, <4>2
        <5>2. Before(l, n) # NULL => Before(l, n) # before BY <1>3, <2>2, <4>2
        <5> QED BY <1>1, <1>3, <2>2, <5>1, <5>2
      <4> QED BY <4>1, <4>2
    <3>3. After(m, n) # NULL => After(m, n) \in Used(m) /\ Before(m, After(m, n)) = n
      <4>1. CASE n = before BY <1>1, <2>2, <4>1
      <4>2. CASE n # before
        <5>1. After(m, n) = After(l, n) BY <1>1, <2>2, <4>2
        <5>2. After(l, n) # NULL => After(l, n) # after BY <1>2, <1>3, <2>2, <4>2
        <5> QED BY <1>1, <1>3, <2>2, <5>1, <5>2
      <4> QED BY <4>1, <4>2
    <3> QED BY <3>1, <3>2, <3>3
  <2> QED BY <1>1, <2>1, <2>2
<1> QED BY <1>1, <1>4, <1>5 DEF Linked

LEMMA WholeLinked ==
  ASSUME NEW l \in Lists, Linked(l), l.first # NULL, NEW m, WholeGone(m, l, l.first)
  PROVE  Linked(m)
<1> DEFINE n == l.first
<1>1. /\ m.first = After(l, n) /\ Used(m) = Used(l) \ {n} /\ n \in Used(l)
      /\ \A a \in Used(m) : /\ After(m, a) = After(l, a)
                            /\ Before(m, a) = IF a = After(l, n) THEN NULL ELSE Before(l, a)
  BY DEF WholeGone, Linked
<1>2. Cardinality(Used(m)) <= MaxBlocks
  <2>1. IsFiniteSet(0..MaxBlocks) BY FS_Interval, SizesAssumption
  <2>2. IsFiniteSet(Used(l)) BY <2>1, ListType, FS_Subset
  <2> DEFINE R == Used(l) \ {n}
  <2>3. IsFiniteSet(R) /\ Cardinality(R) = IF n \in Used(l) THEN Cardinality(Used(l)) - 1
                                           ELSE Cardinality(Used(l))
    BY <2>2, FS_RemoveElement
  <2>4. Cardinality(Used(l)) \in Nat /\ Cardinality(R) \in Nat
    BY <2>2, <2>3, FS_CardinalityType
  <2>5. R = Used(m) BY <1>1
  <2> HIDE DEF R
  <2>6. Cardinality(R) <= Cardinality(Used(l)) BY <2>3, <2>4
  <2> QED BY <2>4, <2>5, <2>6, SizesAssumption DEF Linked
<1>3. NULL \notin Used(l) BY ListType, SizesAssumption DEF NULL
<1>4. /\ Before(l, n) = NULL
      /\ \A a \in Used(l) :
           /\ Before(l, a) = NULL <=> a = n
           /\ Before(l, a) # NULL => Before(l, a) \in Used(l) /\ After(l, Before(l, a)) = a
           /\ After(l, a) # NULL => After(l, a) \in Used(l) /\ Before(l, After(l, a)) = a
  BY <1>1 DEF Linked
<1> HIDE DEF n
<1>5. After(l, n) # NULL => After(l, n) \in Used(m)
  BY <1>1, <1>3, <1>4
<1>6. ASSUME NEW a \in Used(m)
      PROVE  /\ Before(m, a) = NULL <=> a = m.first
             /\ Before(m, a) # NULL => Before(m, a) \in Used(m) /\ After(m, Before(m, a)) = a
             /\ After(m, a) # NULL => After(m, a) \in Used(m) /\ Before(m, After(m, a)) = a
  <2>1. a \in Used(l) /\ a # n BY <1>1
  <2>2. Before(l, a) = n => a = After(l, n) BY <1>3, <1>4, <2>1, <1>1
  <2>3. After(l, a) # n BY <1>3, <1>4, <2>1, <1>1
  <2>4. After(l, a) # NULL => After(l, a) # After(l, n) BY <1>4, <1>1, <2>1
  <2>5. Before(m, a) = NULL <=> a = m.first BY <1>1, <1>4, <2>1
  <2>6. Before(m, a) # NULL => Before(m, a) \in Used(m) /\ After(m, Before(m, a)) = a
    BY <1>1, <1>4, <2>1, <2>2
  <2>7. After(m, a) # NULL => After(m, a) \in Used(m) /\ Before(m, After(m, a)) = a
    BY <1>1, <1>4, <2>1, <2>3, <2>4
  <2> QED BY <2>5, <2>6, <2>7
<1> QED BY <1>1, <1>2, <1>5, <1>6 DEF Linked

\* The ranges of such a list while U is in use.  What lies below Entries belongs
\* to the kernel and is given back by every process that exits, so that it may
\* be on the list more than once.
Ranges(l, U) ==
  /\ \A n \in Used(l) :
       /\ From(l, n) <= To(l, n)
       /\ After(l, n) # NULL => To(l, n) < Pages - 1
       /\ After(l, n) = NULL => /\ To(l, n) = Pages - 1 /\ Entries < From(l, n)
                                /\ \A p \in U : p < From(l, n)
                                /\ \A m \in Used(l) \ {n} : To(l, m) < From(l, n)
       /\ \A p \in U : p >= Entries => ~(From(l, n) <= p /\ p <= To(l, n))
       /\ \A m \in Used(l) \ {n} : \A p \in Page :
            p >= Entries /\ From(l, n) <= p /\ p <= To(l, n) => ~(From(l, m) <= p /\ p <= To(l, m))

Calm(l, U) == Linked(l) /\ Ranges(l, U)

\* What pager_fill does to a calm list: never the wrong thing.
LEMMA FillCalm ==
  ASSUME NEW l \in Lists, NEW U \in SUBSET Page, Calm(l, U),
         NEW p \in U, p # Entries, NEW V \in SUBSET U, p >= Entries => p \notin V
  PROVE  /\ FillFault(l, p) \in {"none", "empty", "exit"}
         /\ FillFault(l, p) = "none" => Calm(Fill(l, p), V)
<1> DEFINE after == Behind(l, p)
           before == Before(l, after)
           m == Fill(l, p)
<1>0. /\ Entries \in Nat /\ Pages \in Nat /\ Page \subseteq Nat /\ p \in Page
      /\ \A n \in Used(l) : /\ From(l, n) \in Nat /\ To(l, n) \in Nat
                            /\ From(l, n) \in Page /\ To(l, n) \in Page
  BY ListType, SizesAssumption DEF Page
<1>1. l.first # NULL => /\ after \in Used(l) /\ From(l, after) >= p
                        /\ before # NULL => From(l, before) < p
  <2>1. \A n \in Used(l) : After(l, n) = NULL => p <= From(l, n)
    BY <1>0 DEF Calm, Ranges
  <2> QED BY <2>1, SearchStops DEF Calm
<1>2. l.first # NULL => after # NULL /\ before \in Used(l) \cup {NULL} /\ ~(From(l, after) < p)
  <2>1. NULL \notin Used(l) BY ListType, SizesAssumption DEF NULL
  <2> HIDE DEF after
  <2> QED BY <1>0, <1>1, <2>1 DEF Calm, Linked
<1>3. FillFault(l, p) \in {"none", "empty", "exit"}
  BY <1>1, <1>2 DEF FillFault, From, Before
<1>4. ASSUME FillFault(l, p) = "none" PROVE Calm(m, V)
  <2>1. /\ l.first # NULL /\ after \in Used(l) /\ From(l, after) >= p
        /\ before \in Used(l) \cup {NULL} /\ (before # NULL => From(l, before) < p)
        /\ \/ JoinsFront(m, l, p, before)
           \/ JoinsBehind(m, l, p, after)
           \/ \E f : Stands(m, l, p, before, after, f)
    BY <1>1, <1>4, FillShape
  <2>2. before # NULL => After(l, before) = after BY <2>1 DEF Calm, Linked
  <2>3. Stands(m, l, p, before, after, CHOOSE f : Stands(m, l, p, before, after, f))
        \/ JoinsFront(m, l, p, before) \/ JoinsBehind(m, l, p, after)
    BY <2>1
  <2>4. Linked(m)
    BY <2>1, EditedLinked, StandsLinked DEF Calm, JoinsFront, JoinsBehind
  <2> HIDE DEF m, after, before
  <2>5. /\ \A n \in Used(l) :
             /\ From(l, n) <= To(l, n)
             /\ After(l, n) # NULL => To(l, n) < Pages - 1
             /\ After(l, n) = NULL => /\ To(l, n) = Pages - 1 /\ Entries < From(l, n)
                                      /\ \A q \in U : q < From(l, n)
                                      /\ \A k \in Used(l) \ {n} : To(l, k) < From(l, n)
             /\ \A q \in U : q >= Entries => ~(From(l, n) <= q /\ q <= To(l, n))
             /\ \A k \in Used(l) \ {n} : \A q \in Page :
                  q >= Entries /\ From(l, n) <= q /\ q <= To(l, n)
                    => ~(From(l, k) <= q /\ q <= To(l, k))
    BY DEF Calm, Ranges
  <2>6. CASE JoinsFront(m, l, p, before)
    <3>1. /\ before \in Used(l) /\ Up(To(l, before)) = p /\ Used(m) = Used(l)
          /\ From(m, before) = From(l, before) /\ To(m, before) = p
          /\ After(m, before) = After(l, before)
          /\ \A a \in Used(l) \ {before} : /\ From(m, a) = From(l, a) /\ To(m, a) = To(l, a)
                                           /\ After(m, a) = After(l, a)
      BY <2>6 DEF JoinsFront, Edited, From, To, After
    <3>2. before # NULL /\ after # NULL
      BY <2>1, <3>1, ListType, SizesAssumption DEF NULL
    <3>3. To(l, before) < Pages - 1 /\ p = To(l, before) + 1
      BY <1>0, <2>2, <2>5, <3>1, <3>2, UpIs
    <3>4. \A n \in Used(l) : After(l, n) = NULL => p < From(l, n)
      BY <2>5
    <3>5. \A n \in Used(l) : After(m, n) = After(l, n) BY <3>1
    <3>6. \A n \in Used(l) : n # before => From(m, n) = From(l, n) /\ To(m, n) = To(l, n)
      BY <3>1
    <3>7. \A n \in Used(l) : p >= Entries => ~(From(l, n) <= p /\ p <= To(l, n))
      BY <2>5
    <3>8. ASSUME NEW n \in Used(m)
          PROVE  /\ From(m, n) <= To(m, n)
                 /\ After(m, n) # NULL => To(m, n) < Pages - 1
      <4>1. CASE n = before BY <1>0, <2>1, <2>2, <2>5, <3>1, <3>2, <3>3, <4>1
      <4>2. CASE n # before BY <2>5, <3>1, <3>5, <3>6, <4>2
      <4> QED BY <4>1, <4>2
    <3>9. ASSUME NEW n \in Used(m), After(m, n) = NULL
          PROVE  /\ To(m, n) = Pages - 1 /\ Entries < From(m, n)
                 /\ \A q \in V : q < From(m, n)
                 /\ \A k \in Used(m) \ {n} : To(m, k) < From(m, n)
      <4>1. n # before /\ After(l, n) = NULL BY <2>2, <3>1, <3>2, <3>5, <3>9
      <4> QED BY <2>5, <3>1, <3>4, <3>6, <3>9, <4>1
    <3>10. ASSUME NEW n \in Used(m), NEW q \in V, q >= Entries
           PROVE  ~(From(m, n) <= q /\ q <= To(m, n))
      <4>1. q \in U /\ q # p /\ q \in Nat BY <1>0, <3>10
      <4>2. ~(From(l, n) <= q /\ q <= To(l, n)) BY <2>5, <3>1, <3>10, <4>1
      <4> QED BY <1>0, <3>1, <3>3, <3>6, <4>1, <4>2
    <3>11. ASSUME NEW n \in Used(m), NEW k \in Used(m) \ {n}, NEW q \in Page,
                  q >= Entries /\ From(m, n) <= q /\ q <= To(m, n)
           PROVE  ~(From(m, k) <= q /\ q <= To(m, k))
      <4>1. \A j \in Used(l) : From(m, j) <= q /\ q <= To(m, j)
                              => q = p \/ (From(l, j) <= q /\ q <= To(l, j))
        BY <1>0, <3>1, <3>3, <3>6
      <4>2. CASE q = p
        <5>1. \A j \in Used(l) : j # before => ~(From(m, j) <= q /\ q <= To(m, j))
          BY <3>6, <3>7, <3>11, <4>2
        <5> QED BY <3>1, <3>11, <5>1
      <4>3. CASE q # p BY <2>5, <3>1, <3>11, <4>1, <4>3
      <4> QED BY <4>2, <4>3
    <3>12. Ranges(m, V) BY <3>8, <3>9, <3>10, <3>11 DEF Ranges
    <3> QED BY <2>4, <3>12 DEF Calm
  <2>7. CASE JoinsBehind(m, l, p, after)
    <3>1. /\ Down(From(l, after)) = p /\ Used(m) = Used(l)
          /\ From(m, after) = p /\ To(m, after) = To(l, after)
          /\ After(m, after) = After(l, after)
          /\ \A a \in Used(l) \ {after} : /\ From(m, a) = From(l, a) /\ To(m, a) = To(l, a)
                                          /\ After(m, a) = After(l, a)
      BY <2>7 DEF JoinsBehind, Edited, From, To, After
    <3>2. p = From(l, after) - 1
      <4>1. From(l, after) # 0 BY <1>0, <2>1, <2>5, <3>1, DownIs
      <4> QED BY <1>0, <2>1, <3>1, <4>1, DownIs
    <3>3. Ranges(m, V) BY <1>0, <2>1, <2>5, <3>1, <3>2 DEF Ranges
    <3> QED BY <2>4, <3>3 DEF Calm
  <2>8. CASE \E f : Stands(m, l, p, before, after, f)
    <3>1. PICK f : Stands(m, l, p, before, after, f) BY <2>8
    <3>2. /\ f \notin Used(l) /\ Used(m) = Used(l) \cup {f}
          /\ From(m, f) = p /\ To(m, f) = p /\ After(m, f) = after
          /\ \A a \in Used(l) : /\ From(m, a) = From(l, a) /\ To(m, a) = To(l, a)
                                /\ After(m, a) = IF a = before THEN f ELSE After(l, a)
      BY <3>1 DEF Stands
    <3>3. after # NULL /\ f # NULL /\ NULL \notin Used(l)
      BY <2>1, <3>1, ListType, SizesAssumption DEF NULL, Stands
    <3>4. p < Pages - 1 /\ \A n \in Used(l) : After(l, n) = NULL => p < From(l, n)
      BY <1>0, <2>1, <2>5
    <3>6. f \notin Used(l) /\ \A n \in Used(m) : n # f => n \in Used(l) BY <3>2
    <3>7. \A n \in Used(l) : After(m, n) = NULL <=> After(l, n) = NULL
      BY <2>2, <3>2, <3>3
    <3>8. \A n \in Used(l) : p >= Entries => ~(From(l, n) <= p /\ p <= To(l, n))
      BY <2>5
    <3>9. ASSUME NEW n \in Used(m)
          PROVE  /\ From(m, n) <= To(m, n)
                 /\ After(m, n) # NULL => To(m, n) < Pages - 1
      BY <1>0, <2>5, <3>2, <3>3, <3>4, <3>6, <3>7
    <3>10. ASSUME NEW n \in Used(m), After(m, n) = NULL
           PROVE  /\ To(m, n) = Pages - 1 /\ Entries < From(m, n)
                  /\ \A q \in V : q < From(m, n)
                  /\ \A k \in Used(m) \ {n} : To(m, k) < From(m, n)
      <4>1. n \in Used(l) /\ After(l, n) = NULL BY <3>2, <3>3, <3>6, <3>7, <3>10
      <4> QED BY <2>5, <3>2, <3>4, <3>6, <4>1
    <3>11. ASSUME NEW n \in Used(m), NEW q \in V, q >= Entries
           PROVE  ~(From(m, n) <= q /\ q <= To(m, n))
      <4>1. CASE n = f BY <1>0, <3>2, <3>11, <4>1
      <4>2. CASE n # f BY <2>5, <3>2, <3>6, <3>11, <4>2
      <4> QED BY <4>1, <4>2
    <3>12. ASSUME NEW n \in Used(m), NEW k \in Used(m) \ {n}, NEW q \in Page,
                  q >= Entries /\ From(m, n) <= q /\ q <= To(m, n)
           PROVE  ~(From(m, k) <= q /\ q <= To(m, k))
      <4>1. CASE n = f BY <1>0, <3>2, <3>6, <3>8, <3>12, <4>1
      <4>2. CASE k = f BY <1>0, <3>2, <3>6, <3>8, <3>12, <4>2
      <4>3. CASE n # f /\ k # f BY <2>5, <3>2, <3>6, <3>12, <4>3
      <4> QED BY <4>1, <4>2, <4>3
    <3>5. Ranges(m, V) BY <3>9, <3>10, <3>11, <3>12 DEF Ranges
    <3> QED BY <2>4, <3>5 DEF Calm
  <2> QED BY <2>1, <2>6, <2>7, <2>8
<1> QED BY <1>3, <1>4

\* A request for any page leaves it calm, and gets no page in use but, after an
\* exit, one of the kernel's.
LEMMA RemoveCalm ==
  ASSUME NEW l \in Lists, NEW U \in SUBSET Page, Calm(l, U), l.first # NULL,
         NEW V \in SUBSET Page, V \subseteq U \cup {From(l, l.first)}
  PROVE  LET p == From(l, l.first) IN
         /\ l.first \in Used(l) /\ p \in Page /\ ~RemoveFails(l, l.first, p)
         /\ p >= Entries => p \notin U
         /\ Calm(Remove(l, l.first, p), V)
<1> DEFINE n == l.first
           p == From(l, n)
           m == Remove(l, n, p)
<1>0. /\ Entries \in Nat /\ Pages \in Nat /\ Page \subseteq Nat
      /\ \A k \in Used(l) : From(l, k) \in Nat /\ To(l, k) \in Nat /\ To(l, k) \in Page
      /\ n \in Used(l) /\ p \in Page /\ NULL \notin Used(l)
  BY ListType, SizesAssumption DEF Page, NULL, Calm, Linked
<1>1. ~RemoveFails(l, n, p) BY DEF RemoveFails, From
<1>2. /\ \A k \in Used(l) :
             /\ From(l, k) <= To(l, k)
             /\ After(l, k) # NULL => To(l, k) < Pages - 1
             /\ After(l, k) = NULL => /\ To(l, k) = Pages - 1 /\ Entries < From(l, k)
                                      /\ \A q \in U : q < From(l, k)
                                      /\ \A j \in Used(l) \ {k} : To(l, j) < From(l, k)
             /\ \A q \in U : q >= Entries => ~(From(l, k) <= q /\ q <= To(l, k))
             /\ \A j \in Used(l) \ {k} : \A q \in Page :
                  q >= Entries /\ From(l, k) <= q /\ q <= To(l, k)
                    => ~(From(l, j) <= q /\ q <= To(l, j))
  BY DEF Calm, Ranges
<1>3. p >= Entries => p \notin U BY <1>0, <1>2
<1>4. \/ From(l, n) = p /\ To(l, n) = p /\ WholeGone(m, l, n)
      \/ /\ To(l, n) # p
         /\ Edited(m, l, n, Up(p), To(l, n), After(l, n), Before(l, n))
  BY <1>0, <1>1, RemoveShape
<1> HIDE DEF m
<1>5. Linked(m)
  BY <1>0, <1>4, WholeLinked, EditedLinked DEF Calm
<1> HIDE DEF n
<1>6. \A k \in Used(l) : After(l, k) = NULL /\ k # n => p < From(l, k)
  BY <1>0, <1>2 DEF n
<1> HIDE DEF p
<1>7. p = From(l, n) /\ V \subseteq U \cup {p} BY DEF p, n
<1>8. ASSUME To(l, n) = p /\ WholeGone(m, l, n) PROVE Calm(m, V)
  <2>1. /\ Used(m) = Used(l) \ {n}
        /\ \A k \in Used(m) : /\ From(m, k) = From(l, k) /\ To(m, k) = To(l, k)
                              /\ After(m, k) = After(l, k)
    BY <1>8 DEF WholeGone
  <2>2. \A k \in Used(m) : p >= Entries => ~(From(l, k) <= p /\ p <= To(l, k))
    BY <1>0, <1>2, <1>7, <1>8, <2>1
  <2>3. Ranges(m, V) BY <1>2, <1>6, <1>7, <2>1, <2>2 DEF Ranges
  <2> QED BY <1>5, <2>3 DEF Calm
<1>9. ASSUME To(l, n) # p, Edited(m, l, n, Up(p), To(l, n), After(l, n), Before(l, n))
      PROVE  Calm(m, V)
  <2>1. p < To(l, n) /\ p \in Nat BY <1>0, <1>2, <1>7, <1>9
  <2>2. Up(p) = p + 1 BY <1>0, <2>1, UpIs DEF Page
  <2>3. /\ Used(m) = Used(l) /\ From(m, n) = p + 1 /\ To(m, n) = To(l, n)
        /\ After(m, n) = After(l, n)
        /\ \A k \in Used(l) \ {n} : /\ From(m, k) = From(l, k) /\ To(m, k) = To(l, k)
                                    /\ After(m, k) = After(l, k)
    BY <1>9, <2>2 DEF Edited, From, To, After
  <2>4. \A k \in Used(l) : /\ To(m, k) = To(l, k) /\ After(m, k) = After(l, k)
                           /\ From(m, k) = IF k = n THEN p + 1 ELSE From(l, k)
    BY <2>3
  <2>5. ASSUME NEW k \in Used(m)
        PROVE  /\ From(m, k) <= To(m, k)
               /\ After(m, k) # NULL => To(m, k) < Pages - 1
    BY <1>0, <1>2, <2>1, <2>3, <2>4
  <2>6. ASSUME NEW k \in Used(m), After(m, k) = NULL
        PROVE  /\ To(m, k) = Pages - 1 /\ Entries < From(m, k)
               /\ \A q \in V : q < From(m, k)
               /\ \A j \in Used(m) \ {k} : To(m, j) < From(m, k)
    <3>1. /\ To(l, k) = Pages - 1 /\ Entries < From(l, k)
          /\ \A q \in U : q \in Nat /\ q < From(l, k)
          /\ \A j \in Used(l) \ {k} : To(l, j) < From(l, k)
      BY <1>0, <1>2, <2>3, <2>4, <2>6
    <3>2. From(l, k) <= From(m, k) /\ p < From(m, k) /\ From(m, k) \in Nat
      BY <1>0, <1>6, <1>7, <2>1, <2>3, <2>4, <2>6
    <3> QED BY <1>0, <1>7, <2>1, <2>3, <2>4, <3>1, <3>2
  <2>7. ASSUME NEW k \in Used(m), NEW q \in Page, From(m, k) <= q /\ q <= To(m, k)
        PROVE  From(l, k) <= q /\ q <= To(l, k) /\ (k = n => q # p)
    BY <1>0, <1>7, <2>1, <2>3, <2>4, <2>7
  <2>8. ASSUME NEW k \in Used(m), NEW q \in V, q >= Entries, From(m, k) <= q /\ q <= To(m, k)
        PROVE  FALSE
    <3>1. From(l, k) <= q /\ q <= To(l, k) /\ (k = n => q # p) BY <2>7, <2>8
    <3>2. q = p BY <1>2, <1>7, <2>3, <2>8, <3>1
    <3>3. k # n /\ From(l, n) <= q /\ q <= To(l, n) BY <1>0, <1>2, <1>7, <3>1, <3>2
    <3> QED BY <1>0, <1>2, <2>3, <2>8, <3>1, <3>3
  <2>9. ASSUME NEW k \in Used(m), NEW j \in Used(m) \ {k}, NEW q \in Page,
               q >= Entries /\ From(m, k) <= q /\ q <= To(m, k)
        PROVE  ~(From(m, j) <= q /\ q <= To(m, j))
    BY <1>2, <2>3, <2>7, <2>9
  <2>10. Ranges(m, V) BY <2>5, <2>6, <2>8, <2>9 DEF Ranges
  <2> QED BY <1>5, <2>10 DEF Calm
<1>10. Calm(m, V) BY <1>4, <1>7, <1>8, <1>9
<1> QED BY <1>0, <1>1, <1>3, <1>10 DEF m, p, n

-----------------------------------------------------------------------------
(* Page tables.  A process shares the kernel's first table and owns every  *)
(* other table it uses.                                                    *)

Tables ==
  /\ DOMAIN table = 0..(NextTable - 1) /\ NextTable \in 4..MaxTables
  /\ \A n \in DOMAIN table : table[n] \in [Index -> Page \cup Table \cup {Absent}]
  /\ live \subseteq DOMAIN table /\ 0 \in live /\ 1 \notin live
  /\ table[1] = [i \in Index |-> i]
  /\ \A dir \in live : table[dir][0] = 1
  /\ \A dir \in live, i \in Index \ {0} : table[dir][i] # Absent =>
       /\ table[dir][i] \in DOMAIN table \ live /\ table[dir][i] # 1
       /\ table[table[dir][i]] \in [Index -> Page \cup {Absent}]
  /\ \A dir, other \in live : \A i, j \in Index \ {0} :
       table[dir][i] # Absent /\ table[dir][i] = table[other][j] => dir = other /\ i = j

LEMMA PhysIs ==
  ASSUME Tables, NEW dir \in live, NEW v \in Virtual
  PROVE  /\ Phys(dir, v) \in Page \cup {Absent}
         /\ v < Entries => Phys(dir, v) = v
         /\ v >= Entries =>
              /\ table[dir][v \div Entries] = Absent => Phys(dir, v) = Absent
              /\ table[dir][v \div Entries] # Absent =>
                   Phys(dir, v) = table[table[dir][v \div Entries]][v % Entries]
<1> DEFINE i == v \div Entries
           j == v % Entries
<1>1. /\ v \in Nat /\ i \in Index /\ j \in Index
      /\ v < Entries => i = 0 /\ j = v
      /\ v >= Entries => i # 0
  BY FlatIndex
<1>2. Phys(dir, v) = IF table[dir][i] = Absent THEN Absent ELSE table[table[dir][i]][j]
  BY DEF Phys
<1> HIDE DEF i, j
<1>3. CASE v < Entries
  <2>1. table[dir][i] = 1 /\ 1 # Absent /\ table[1][j] = v /\ v \in Page
    BY <1>1, <1>3, SizesAssumption DEF Tables, Absent, Page
  <2> QED BY <1>2, <1>3, <2>1, <1>1, SizesAssumption
<1>4. CASE v >= Entries
  <2>1. i \in Index \ {0} BY <1>1, <1>4
  <2>2. table[dir][i] # Absent => table[table[dir][i]] \in [Index -> Page \cup {Absent}]
    BY <2>1 DEF Tables
  <2>3. Phys(dir, v) \in Page \cup {Absent} BY <1>1, <1>2, <2>2
  <2>4. /\ table[dir][i] = Absent => Phys(dir, v) = Absent
        /\ table[dir][i] # Absent => Phys(dir, v) = table[table[dir][i]][j]
    BY <1>2
  <2> QED BY <1>1, <1>4, <2>3, <2>4, SizesAssumption DEF i, j
<1> QED BY <1>1, <1>3, <1>4, SizesAssumption

\* get_free_page_index finds an index that is free, and never one of those that
\* the processes share.
LEMMA FreePageIndexIs ==
  ASSUME Tables, NEW dir \in live
  PROVE  LET v == FreePageIndex(dir) IN
         v # Absent => v \in Virtual /\ v >= Entries /\ Phys(dir, v) = Absent
<1> DEFINE unmapped == {v \in Virtual : Phys(dir, v) = Absent}
<1>1. CASE unmapped = {} BY <1>1 DEF FreePageIndex
<1>2. CASE unmapped # {}
  <2>1. unmapped \subseteq Nat BY SizesAssumption DEF Virtual
  <2>2. \E v \in unmapped : \A w \in unmapped : v <= w
    <3> HIDE DEF unmapped
    <3> QED BY <1>2, <2>1, LeastNumber
  <2> DEFINE v == CHOOSE v \in unmapped : \A w \in unmapped : v <= w
  <2>3. v \in unmapped BY <2>2
  <2>4. FreePageIndex(dir) = v BY <1>2 DEF FreePageIndex
  <2> HIDE DEF v
  <2>5. v \in Virtual /\ Phys(dir, v) = Absent /\ v \in Nat BY <2>1, <2>3
  <2>6. ~(v < Entries) BY <2>5, PhysIs, SizesAssumption DEF Absent
  <2> QED BY <2>4, <2>5, <2>6, SizesAssumption
<1> QED BY <1>1, <1>2

\* The flat index is the pair of places.
LEMMA FlatIndexUnique ==
  ASSUME NEW v \in Virtual, NEW w \in Virtual,
         v \div Entries = w \div Entries, v % Entries = w % Entries
  PROVE  v = w
<1> DEFINE i == v \div Entries
           j == v % Entries
<1>1. v = Entries * i + j BY FlatIndex
<1>2. w = Entries * i + j BY FlatIndex
<1> QED BY <1>1, <1>2

\* The only mapping that a step changes is that of v, which becomes x.
OneMapping(dir, v, x) ==
  \A other \in live : \A w \in Virtual :
    Phys(other, w)' = IF other = dir /\ w = v THEN x ELSE Phys(other, w)

\* So it is when an entry below a process's table is written.
Written(dir, v, x) ==
  table' = [table EXCEPT ![table[dir][v \div Entries]][v % Entries] = x]

LEMMA EntryWritten ==
  ASSUME Tables, NEW dir \in live, NEW v \in Virtual, v >= Entries,
         table[dir][v \div Entries] # Absent, NEW x \in Page \cup {Absent},
         live' = live, Written(dir, v, x)
  PROVE  Tables' /\ OneMapping(dir, v, x)
<1> DEFINE i == v \div Entries
           j == v % Entries
           sub == table[dir][i]
<1>1. i \in Index \ {0} /\ j \in Index BY FlatIndex
<1>2. /\ sub \in DOMAIN table \ live /\ sub # 1
      /\ table[sub] \in [Index -> Page \cup {Absent}]
  BY <1>1 DEF Tables
<1>3. /\ DOMAIN table' = DOMAIN table
      /\ table'[sub] = [table[sub] EXCEPT ![j] = x]
      /\ \A n \in DOMAIN table \ {sub} : table'[n] = table[n]
  BY <1>2 DEF Written
<1>4. table'[sub] \in [Index -> Page \cup {Absent}] /\ table'[sub][j] = x
      /\ \A k \in Index \ {j} : table'[sub][k] = table[sub][k]
  BY <1>1, <1>2, <1>3
<1> HIDE DEF sub, i, j
<1>5. live \subseteq DOMAIN table /\ \A e \in live : table'[e] = table[e]
  BY <1>2, <1>3 DEF Tables
<1>6. Tables'
  <2>1. (DOMAIN table = 0..(NextTable - 1) /\ NextTable \in 4..MaxTables)'
    BY <1>3 DEF Tables, NextTable
  <2>2. \A n \in DOMAIN table' : table'[n] \in [Index -> Page \cup Table \cup {Absent}]
    <3>1. [Index -> Page \cup {Absent}] \subseteq [Index -> Page \cup Table \cup {Absent}]
      OBVIOUS
    <3> QED BY <1>3, <1>4, <3>1 DEF Tables
  <2>3. (live \subseteq DOMAIN table /\ 0 \in live /\ 1 \notin live)'
    BY <1>3, <1>5 DEF Tables
  <2>4. (table[1] = [k \in Index |-> k])'
    <3>1. 1 \in DOMAIN table BY DEF Tables
    <3> QED BY <1>2, <1>3, <3>1 DEF Tables
  <2>5. (\A e \in live : table[e][0] = 1)' BY <1>5 DEF Tables
  <2>6. (\A e \in live, k \in Index \ {0} : table[e][k] # Absent =>
           /\ table[e][k] \in DOMAIN table \ live /\ table[e][k] # 1
           /\ table[table[e][k]] \in [Index -> Page \cup {Absent}])'
    <3> SUFFICES ASSUME NEW e \in live, NEW k \in Index \ {0}, table[e][k] # Absent
                 PROVE  /\ table[e][k] \in DOMAIN table' \ live /\ table[e][k] # 1
                        /\ table'[table[e][k]] \in [Index -> Page \cup {Absent}]
      BY <1>5
    <3>1. /\ table[e][k] \in DOMAIN table \ live /\ table[e][k] # 1
          /\ table[table[e][k]] \in [Index -> Page \cup {Absent}]
      BY DEF Tables
    <3> QED BY <1>3, <1>4, <3>1
  <2>7. (\A e, other \in live : \A k, h \in Index \ {0} :
          table[e][k] # Absent /\ table[e][k] = table[other][h] => e = other /\ k = h)'
    BY <1>5 DEF Tables
  <2> QED BY <2>1, <2>2, <2>3, <2>4, <2>5, <2>6, <2>7 DEF Tables
<1>7. ASSUME NEW other \in live, NEW w \in Virtual
      PROVE  Phys(other, w)' = IF other = dir /\ w = v THEN x ELSE Phys(other, w)
  <2> DEFINE k == w \div Entries
             h == w % Entries
             s == table[other][k]
  <2>1. k \in Index /\ h \in Index BY FlatIndex
  <2>2. Phys(other, w) = IF s = Absent THEN Absent ELSE table[s][h]
    BY DEF Phys
  <2>3. Phys(other, w)' = IF s = Absent THEN Absent ELSE table'[s][h]
    BY <1>5 DEF Phys
  <2>4. other = dir /\ w = v => s = sub /\ h = j BY DEF sub, i, j
  <2>5. k = i /\ h = j => w = v BY FlatIndexUnique DEF i, j
  <2>6. sub = table[dir][i] /\ sub # Absent BY DEF sub, i
  <2> HIDE DEF k, h
  <2>7. s = sub => other = dir /\ k = i
    <3>1. CASE k = 0 BY <1>2, <3>1 DEF Tables
    <3>2. CASE k # 0 BY <1>1, <2>1, <2>6, <3>2 DEF Tables
    <3> QED BY <3>1, <3>2
  <2>8. s # Absent => s \in DOMAIN table
    <3>1. CASE k = 0 BY <3>1 DEF Tables
    <3>2. CASE k # 0 BY <2>1, <3>2 DEF Tables
    <3> QED BY <3>1, <3>2
  <2> HIDE DEF s
  <2>9. CASE s = Absent BY <2>2, <2>3, <2>4, <2>6, <2>9
  <2>10. CASE s # Absent /\ s # sub BY <1>3, <2>2, <2>3, <2>4, <2>8, <2>10
  <2>11. CASE s = sub /\ h # j
    <3>1. s # Absent /\ ~(other = dir /\ w = v) BY <2>4, <2>6, <2>11
    <3>2. table'[s][h] = table[s][h] BY <1>4, <2>1, <2>11
    <3> QED BY <2>2, <2>3, <3>1, <3>2
  <2>12. CASE s = sub /\ h = j
    <3>1. s # Absent /\ other = dir /\ w = v BY <2>5, <2>6, <2>7, <2>12
    <3>2. table'[s][h] = x BY <1>4, <2>12
    <3> QED BY <2>3, <3>1, <3>2
  <2> QED BY <2>9, <2>10, <2>11, <2>12
<1> QED BY <1>6, <1>7 DEF OneMapping

LEMMA MapIs ==
  ASSUME Tables, NEW dir \in live, NEW v \in Virtual, v >= Entries,
         table[dir][v \div Entries] = Absent => CanAllocate, NEW page \in Page,
         live' = live, table' = Map(dir, v, page)
  PROVE  Tables' /\ OneMapping(dir, v, page)
<1> DEFINE i == v \div Entries
           j == v % Entries
           N == NextTable
<1>0. i \in Index \ {0} /\ j \in Index BY FlatIndex
<1>1. CASE table[dir][i] # Absent
  <2>1. Written(dir, v, page) /\ table[dir][v \div Entries] # Absent
    BY <1>1 DEF Map, Written
  <2>2. page \in Page \cup {Absent} OBVIOUS
  <2> HIDE DEF i, j, N
  <2> QED BY <2>1, <2>2, EntryWritten
<1>2. CASE table[dir][i] = Absent
  <2>1. N \in Nat /\ N >= 4 /\ N + 1 <= MaxTables /\ DOMAIN table = 0..(N - 1)
    BY <1>2, SizesAssumption DEF Tables, CanAllocate
  <2>2. live \subseteq DOMAIN table /\ dir \in DOMAIN table /\ N \notin DOMAIN table
        /\ table[dir] \in [Index -> Page \cup Table \cup {Absent}]
    BY <2>1 DEF Tables
  <2> DEFINE a == [table EXCEPT ![dir][i] = N]
             t == WithTable(a, Zeroed)
  <2>3. /\ DOMAIN a = DOMAIN table /\ a[dir] = [table[dir] EXCEPT ![i] = N]
        /\ \A n \in DOMAIN table \ {dir} : a[n] = table[n]
    BY <2>2
  <2>4. Cardinality(DOMAIN a) = N BY <2>3 DEF NextTable
  <2> HIDE DEF a, N
  <2>5. /\ DOMAIN t = 0..N /\ t[N] = Zeroed
        /\ \A n \in DOMAIN table : t[n] = a[n]
    BY <2>1, <2>2, <2>3, <2>4 DEF WithTable
  <2>6. table' = [t EXCEPT ![t[dir][i]][j] = page]
    BY <1>2 DEF Map, a, N
  <2> HIDE DEF t, i, j
  <2>7. a[dir][i] = N /\ t[dir][i] = N BY <1>0, <2>2, <2>3, <2>5
  <2>8. table' = [t EXCEPT ![N][j] = page] BY <2>6, <2>7
  <2>9. /\ DOMAIN table' = 0..N
        /\ table'[N] = [Zeroed EXCEPT ![j] = page]
        /\ \A n \in 0..N : n # N => table'[n] = t[n]
    BY <2>1, <2>5, <2>8
  <2>10. /\ table'[dir] = [table[dir] EXCEPT ![i] = N]
         /\ \A n \in DOMAIN table \ {dir} : table'[n] = table[n]
    <3>1. \A n \in DOMAIN table : n \in 0..N /\ n # N BY <2>1
    <3>2. \A n \in DOMAIN table : table'[n] = a[n] BY <2>5, <2>9, <3>1
    <3> QED BY <2>2, <2>3, <3>2
  <2>11. /\ table'[N] \in [Index -> Page \cup {Absent}] /\ table'[N][j] = page
         /\ \A k \in Index \ {j} : table'[N][k] = Absent
    BY <1>0, <2>9 DEF Zeroed
  <2>12. /\ table'[dir][i] = N /\ table'[dir] \in [Index -> Page \cup Table \cup {Absent}]
         /\ \A k \in Index \ {i} : table'[dir][k] = table[dir][k]
    BY <1>0, <2>1, <2>2, <2>10, SizesAssumption DEF Table
  <2>13. \A e \in live : \A k \in Index : e # dir \/ k # i => table'[e][k] = table[e][k]
    BY <2>2, <2>10, <2>12
  <2>14. \A e \in live : \A k \in Index :
           table[e][k] # Absent => table[e][k] \in DOMAIN table /\ table[e][k] # N
    <3> SUFFICES ASSUME NEW e \in live, NEW k \in Index, table[e][k] # Absent
                 PROVE  table[e][k] \in DOMAIN table
      BY <2>2
    <3>1. CASE k = 0 BY <2>1, <3>1 DEF Tables
    <3>2. CASE k # 0 BY <3>2 DEF Tables
    <3> QED BY <3>1, <3>2
  <2>15. \A e \in live : \A k \in Index \ {0} :
           table[e][k] # Absent => table[e][k] \notin live /\ table[e][k] # 1
    BY DEF Tables
  <2>16. Tables'
    <3>1. (DOMAIN table = 0..(NextTable - 1) /\ NextTable \in 4..MaxTables)'
      <4>1. Cardinality(0..N) = N + 1
        BY <2>1, FS_Interval, SizesAssumption
      <4> QED BY <2>1, <2>9, <4>1, SizesAssumption DEF NextTable
    <3>2. \A n \in DOMAIN table' : table'[n] \in [Index -> Page \cup Table \cup {Absent}]
      <4>1. [Index -> Page \cup {Absent}] \subseteq [Index -> Page \cup Table \cup {Absent}]
        OBVIOUS
      <4>2. \A n \in DOMAIN table \ {dir} :
              table'[n] \in [Index -> Page \cup Table \cup {Absent}]
        BY <2>10 DEF Tables
      <4>3. \A n \in 0..N : n = N \/ n \in DOMAIN table BY <2>1
      <4>4. table'[N] \in [Index -> Page \cup Table \cup {Absent}] BY <2>11, <4>1
      <4> HIDE DEF j
      <4> QED BY <2>9, <2>12, <4>2, <4>3, <4>4
    <3>3. (live \subseteq DOMAIN table /\ 0 \in live /\ 1 \notin live)'
      BY <2>1, <2>2, <2>9 DEF Tables
    <3>4. (table[1] = [k \in Index |-> k])'
      BY <2>1, <2>10 DEF Tables
    <3>5. (\A e \in live : table[e][0] = 1)'
      <4>1. 0 \in Index /\ 0 # i BY <1>0, SizesAssumption DEF Index
      <4> QED BY <2>13, <4>1 DEF Tables
    <3>6. (\A e \in live, k \in Index \ {0} : table[e][k] # Absent =>
             /\ table[e][k] \in DOMAIN table \ live /\ table[e][k] # 1
             /\ table[table[e][k]] \in [Index -> Page \cup {Absent}])'
      <4> SUFFICES ASSUME NEW e \in live, NEW k \in Index \ {0}, table'[e][k] # Absent
                   PROVE  /\ table'[e][k] \in DOMAIN table' \ live /\ table'[e][k] # 1
                          /\ table'[table'[e][k]] \in [Index -> Page \cup {Absent}]
        OBVIOUS
      <4>1. CASE e = dir /\ k = i
        <5>1. table'[e][k] = N BY <2>12, <4>1
        <5>2. N \in DOMAIN table' /\ N \notin live /\ N # 1 BY <2>1, <2>2, <2>9
        <5>3. table'[N] \in [Index -> Page \cup {Absent}] BY <2>11
        <5> QED BY <5>1, <5>2, <5>3
      <4>2. CASE e # dir \/ k # i
        <5>1. table'[e][k] = table[e][k] /\ table[e][k] # Absent BY <2>13, <4>2
        <5>2. table[e][k] # dir BY <2>15, <5>1
        <5>3. /\ table[e][k] \in DOMAIN table \ live /\ table[e][k] # 1
              /\ table[table[e][k]] \in [Index -> Page \cup {Absent}]
          BY <5>1 DEF Tables
        <5> QED BY <2>1, <2>9, <2>10, <5>1, <5>2, <5>3
      <4> QED BY <4>1, <4>2
    <3>7. (\A e, other \in live : \A k, h \in Index \ {0} :
            table[e][k] # Absent /\ table[e][k] = table[other][h] => e = other /\ k = h)'
      <4> SUFFICES ASSUME NEW e \in live, NEW other \in live,
                          NEW k \in Index \ {0}, NEW h \in Index \ {0},
                          table'[e][k] # Absent, table'[e][k] = table'[other][h]
                   PROVE  e = other /\ k = h
        OBVIOUS
      <4>1. CASE e = dir /\ k = i BY <2>12, <2>13, <2>14, <4>1, <2>1 DEF Absent
      <4>2. CASE other = dir /\ h = i BY <2>12, <2>13, <2>14, <4>2, <2>1 DEF Absent
      <4>3. CASE (e # dir \/ k # i) /\ (other # dir \/ h # i)
        BY <2>13, <4>3 DEF Tables
      <4> QED BY <4>1, <4>2, <4>3
    <3> QED BY <3>1, <3>2, <3>3, <3>4, <3>5, <3>6, <3>7 DEF Tables
  <2>17. ASSUME NEW other \in live, NEW w \in Virtual
         PROVE  Phys(other, w)' = IF other = dir /\ w = v THEN page ELSE Phys(other, w)
    <3> DEFINE k == w \div Entries
               h == w % Entries
               s == table[other][k]
    <3>1. k \in Index /\ h \in Index BY FlatIndex
    <3>2. Phys(other, w) = IF s = Absent THEN Absent ELSE table[s][h]
      BY DEF Phys
    <3>3. Phys(other, w)' = IF table'[other][k] = Absent THEN Absent
                            ELSE table'[table'[other][k]][h]
      BY DEF Phys
    <3>4. other = dir /\ w = v => k = i /\ h = j BY DEF i, j
    <3>5. k = i /\ h = j => w = v BY FlatIndexUnique DEF i, j
    <3> HIDE DEF k, h
    <3>6. CASE other = dir /\ k = i
      <4>1. Phys(other, w)' = table'[N][h] BY <2>1, <2>12, <3>3, <3>6 DEF Absent
      <4>2. Phys(other, w) = Absent BY <1>2, <3>2, <3>6 DEF i
      <4> QED BY <2>11, <3>1, <3>4, <3>5, <3>6, <4>1, <4>2
    <3>7. CASE other # dir \/ k # i
      <4>1. table'[other][k] = s BY <2>13, <3>1, <3>7
      <4>2. s # Absent => s \in DOMAIN table BY <2>14, <3>1
      <4>3. s # Absent => s # dir
        <5>1. CASE k = 0
          <6>1. s = 1 /\ dir # 1 BY <5>1 DEF Tables
          <6> QED BY <6>1
        <5>2. CASE k # 0 BY <2>15, <3>1, <5>2
        <5> QED BY <5>1, <5>2
      <4>4. s # Absent => table'[s] = table[s] BY <2>10, <4>2, <4>3
      <4> QED BY <3>2, <3>3, <3>4, <3>7, <4>1, <4>4
    <3> QED BY <3>6, <3>7
  <2> QED BY <2>16, <2>17 DEF OneMapping
<1> QED BY <1>1, <1>2

\* A copied table shares the kernel's first entry and maps nothing else.
LEMMA CopyIs ==
  ASSUME Tables, SoftCopyTable
  PROVE  /\ Tables'
         /\ \E new : /\ new \notin live /\ live' = live \cup {new}
                     /\ \A w \in Virtual : Phys(new, w)' = IF w < Entries THEN w ELSE Absent
         /\ \A dir \in live : \A w \in Virtual : Phys(dir, w)' = Phys(dir, w)
<1> DEFINE N == NextTable
           copy == [i \in Index |-> IF i = 0 THEN table[0][0] ELSE Absent]
<1>1. N \in Nat /\ N >= 4 /\ N + 1 <= MaxTables /\ DOMAIN table = 0..(N - 1)
  BY SizesAssumption DEF SoftCopyTable, CanAllocate, Tables
<1>2. /\ live \subseteq DOMAIN table /\ N \notin DOMAIN table /\ table[0][0] = 1
      /\ 0 \in live /\ 1 \notin live
  BY <1>1 DEF Tables
<1>3. live' = live \cup {N} BY DEF SoftCopyTable
<1>4. DOMAIN table' = 0..N /\ table'[N] = copy /\ \A n \in DOMAIN table : table'[n] = table[n]
  <2>1. table' = WithTable(table, copy) /\ Cardinality(DOMAIN table) = N
    BY DEF SoftCopyTable, NextTable
  <2> HIDE DEF N, copy
  <2>2. table' = [n \in 0..N |-> IF n \in DOMAIN table THEN table[n] ELSE copy]
    BY <2>1 DEF WithTable
  <2> QED BY <1>1, <1>2, <2>2
<1>5. /\ copy \in [Index -> Page \cup Table \cup {Absent}] /\ copy[0] = 1
      /\ \A i \in Index \ {0} : copy[i] = Absent
  BY <1>2, SizesAssumption DEF Index, Table
<1> HIDE DEF N, copy
<1>6. Tables'
  <2>1. (DOMAIN table = 0..(NextTable - 1) /\ NextTable \in 4..MaxTables)'
    <3>1. Cardinality(0..N) = N + 1
      BY <1>1, FS_Interval, SizesAssumption
    <3> QED BY <1>1, <1>4, <3>1, SizesAssumption DEF NextTable
  <2>2. \A n \in DOMAIN table' : table'[n] \in [Index -> Page \cup Table \cup {Absent}]
    <3>1. \A n \in DOMAIN table' : n = N \/ n \in DOMAIN table BY <1>1, <1>4
    <3> QED BY <1>4, <1>5, <3>1 DEF Tables
  <2>3. (live \subseteq DOMAIN table /\ 0 \in live /\ 1 \notin live)'
    BY <1>1, <1>2, <1>3, <1>4
  <2>4. (table[1] = [k \in Index |-> k])'
    BY <1>1, <1>4 DEF Tables
  <2>5. (\A e \in live : table[e][0] = 1)' BY <1>2, <1>3, <1>4, <1>5 DEF Tables
  <2>6. ASSUME NEW e \in live', NEW k \in Index \ {0}, table'[e][k] # Absent
        PROVE  e \in live /\ table'[e] = table[e]
    BY <1>2, <1>3, <1>4, <1>5, <2>6
  <2>7. (\A e \in live, k \in Index \ {0} : table[e][k] # Absent =>
           /\ table[e][k] \in DOMAIN table \ live /\ table[e][k] # 1
           /\ table[table[e][k]] \in [Index -> Page \cup {Absent}])'
    <3> SUFFICES ASSUME NEW e \in live', NEW k \in Index \ {0}, table'[e][k] # Absent
                 PROVE  /\ table'[e][k] \in DOMAIN table' \ live' /\ table'[e][k] # 1
                        /\ table'[table'[e][k]] \in [Index -> Page \cup {Absent}]
      OBVIOUS
    <3>1. e \in live /\ table'[e] = table[e] BY <2>6
    <3>2. /\ table[e][k] \in DOMAIN table \ live /\ table[e][k] # 1
          /\ table[table[e][k]] \in [Index -> Page \cup {Absent}]
      BY <3>1 DEF Tables
    <3>3. table[e][k] \in DOMAIN table' BY <1>1, <1>4, <3>2
    <3> QED BY <1>2, <1>3, <1>4, <3>1, <3>2, <3>3
  <2>8. (\A e, other \in live : \A k, h \in Index \ {0} :
          table[e][k] # Absent /\ table[e][k] = table[other][h] => e = other /\ k = h)'
    <3> SUFFICES ASSUME NEW e \in live', NEW other \in live',
                        NEW k \in Index \ {0}, NEW h \in Index \ {0},
                        table'[e][k] # Absent, table'[e][k] = table'[other][h]
                 PROVE  e = other /\ k = h
      OBVIOUS
    <3>1. e \in live /\ table'[e] = table[e] BY <2>6
    <3>2. other \in live /\ table'[other] = table[other] BY <2>6
    <3> QED BY <3>1, <3>2 DEF Tables
  <2> QED BY <2>1, <2>2, <2>3, <2>4, <2>5, <2>7, <2>8 DEF Tables
<1>7. ASSUME NEW w \in Virtual
      PROVE  /\ (w < Entries => w \div Entries = 0 /\ w % Entries = w /\ w \in Index)
             /\ (~(w < Entries) => w \div Entries \in Index \ {0})
  BY FlatIndex, SizesAssumption
<1>8. ASSUME NEW w \in Virtual, NEW x, x = N
      PROVE  Phys(x, w)' = IF w < Entries THEN w ELSE Absent
  <2>1. table'[x] = copy BY <1>4, <1>8
  <2>2. Phys(x, w)' = IF copy[w \div Entries] = Absent THEN Absent
                      ELSE table'[copy[w \div Entries]][w % Entries]
    BY <2>1 DEF Phys
  <2>3. CASE w < Entries
    <3>1. copy[w \div Entries] = 1 /\ 1 # Absent /\ w % Entries = w /\ w \in Index
      BY <1>5, <1>7, <2>3 DEF Absent
    <3>2. table'[1][w] = w
      <4>1. table'[1] = [k \in Index |-> k] BY <1>6 DEF Tables
      <4> QED BY <3>1, <4>1
    <3> QED BY <2>2, <2>3, <3>1, <3>2
  <2>4. CASE ~(w < Entries) BY <1>5, <1>7, <2>2, <2>4
  <2> QED BY <2>3, <2>4
<1>9. ASSUME NEW e \in live, NEW w \in Virtual PROVE Phys(e, w)' = Phys(e, w)
  <2> DEFINE k == w \div Entries
             s == table[e][k]
  <2>1. k \in Index BY FlatIndex
  <2>2. table'[e] = table[e] BY <1>2, <1>4
  <2>3. s # Absent => s \in DOMAIN table
    <3> HIDE DEF k
    <3>1. CASE k = 0 BY <1>1, <3>1 DEF Tables
    <3>2. CASE k # 0 BY <2>1, <3>2 DEF Tables
    <3> QED BY <3>1, <3>2
  <2>4. s # Absent => table'[s] = table[s] BY <1>4, <2>3
  <2> QED BY <2>2, <2>4 DEF Phys
<1>10. \E new : /\ new \notin live /\ live' = live \cup {new}
                /\ \A w \in Virtual : Phys(new, w)' = IF w < Entries THEN w ELSE Absent
  <2>1. \E new : new = N OBVIOUS
  <2>2. PICK new : new = N BY <2>1
  <2>3. new \notin live /\ live' = live \cup {new} BY <1>2, <1>3, <2>2
  <2>4. \A w \in Virtual : Phys(new, w)' = IF w < Entries THEN w ELSE Absent
    BY <1>8, <2>2
  <2> QED BY <2>3, <2>4
<1> QED BY <1>6, <1>9, <1>10

\* When a process exits, the tables stay.
LEMMA ExitIs ==
  ASSUME Tables, NEW gone \in Processes, live' = live \ {gone}, table' = table
  PROVE  Tables' /\ \A dir \in live' : \A w \in Virtual : Phys(dir, w)' = Phys(dir, w)
<1>1. Tables' BY DEF Tables, Processes, NextTable
<1>2. \A dir \in live' : \A w \in Virtual : Phys(dir, w)' = Phys(dir, w) BY DEF Phys
<1> QED BY <1>1, <1>2

\* A step that leaves the tables alone.
LEMMA NoChangeIs ==
  ASSUME Tables, live' = live, table' = table
  PROVE  Tables' /\ \A dir \in live : \A w \in Virtual : Phys(dir, w)' = Phys(dir, w)
<1>1. Tables' BY DEF Tables, NextTable
<1>2. \A dir \in live : \A w \in Virtual : Phys(dir, w)' = Phys(dir, w) BY DEF Phys
<1> QED BY <1>1, <1>2

\* What new_page does to the tables and the list.
LEMMA NewPageIs ==
  ASSUME Tables, NEW dir \in live, NEW page \in Page, MayMap(dir), NewPage(page, dir),
         live' = live
  PROVE  /\ Tables'
         /\ \/ /\ RemoveFails(free, free.first, page) /\ fault' = "exit" /\ free' = free
               /\ \A d \in live : \A w \in Virtual : Phys(d, w)' = Phys(d, w)
            \/ /\ ~RemoveFails(free, free.first, page)
               /\ free' = Remove(free, free.first, page)
               /\ \/ /\ fault' = "full"
                     /\ \A d \in live : \A w \in Virtual : Phys(d, w)' = Phys(d, w)
                  \/ /\ fault' = fault
                     /\ \E v \in Virtual : v >= Entries /\ Phys(dir, v) = Absent
                                           /\ OneMapping(dir, v, page)
<1> DEFINE v == FreePageIndex(dir)
<1>1. v # Absent => v \in Virtual /\ v >= Entries /\ Phys(dir, v) = Absent
  BY FreePageIndexIs
<1>2. v # Absent /\ table[dir][v \div Entries] = Absent => CanAllocate BY DEF MayMap
<1>3. \/ /\ RemoveFails(free, free.first, page) /\ fault' = "exit"
         /\ free' = free /\ table' = table
      \/ /\ ~RemoveFails(free, free.first, page)
         /\ free' = Remove(free, free.first, page)
         /\ \/ v = Absent /\ fault' = "full" /\ table' = table
            \/ v # Absent /\ table' = Map(dir, v, page) /\ fault' = fault
  BY DEF NewPage
<1> HIDE DEF v
<1>4. CASE table' = table
  <2>1. Tables' /\ \A d \in live : \A w \in Virtual : Phys(d, w)' = Phys(d, w)
    BY <1>4, NoChangeIs
  <2>2. v # Absent /\ table' = Map(dir, v, page) => OneMapping(dir, v, page)
    BY <1>1, <1>2, MapIs
  <2> QED BY <1>1, <1>3, <2>1, <2>2
<1>5. CASE v # Absent /\ table' = Map(dir, v, page)
  <2>1. Tables' /\ OneMapping(dir, v, page) BY <1>1, <1>2, <1>5, MapIs
  <2>2. CASE table' = table BY <2>2, <1>4
  <2>3. CASE table' # table BY <1>1, <1>3, <2>1, <2>3
  <2> QED BY <2>2, <2>3
<1> QED BY <1>3, <1>4, <1>5

\* What free_page does when it does come back.
LEMMA FreePageIs ==
  ASSUME Tables, NEW dir \in live, NEW v \in Virtual, v >= Entries, FreePage(v, dir)
  PROVE  /\ Tables' /\ live' = live /\ Phys(dir, v) \in Page
         /\ \/ /\ FillFault(free, Phys(dir, v)) # "none"
               /\ Stop(FillFault(free, Phys(dir, v)))
               /\ \A d \in live : \A w \in Virtual : Phys(d, w)' = Phys(d, w)
            \/ /\ FillFault(free, Phys(dir, v)) = "none"
               /\ free' = Fill(free, Phys(dir, v)) /\ returned'
               /\ UNCHANGED <<asked, buried, ended, clash, fault>>
               /\ OneMapping(dir, v, Absent)
<1>1. Phys(dir, v) # Absent BY DEF FreePage
<1>2. Phys(dir, v) \in Page /\ table[dir][v \div Entries] # Absent BY <1>1, PhysIs
<1>3. CASE FillFault(free, Phys(dir, v)) # "none"
  <2>1. Stop(FillFault(free, Phys(dir, v))) BY <1>3 DEF FreePage
  <2>2. live' = live /\ table' = table BY <2>1 DEF Stop
  <2> QED BY <1>2, <1>3, <2>1, <2>2, NoChangeIs
<1>4. CASE FillFault(free, Phys(dir, v)) = "none"
  <2>1. /\ free' = Fill(free, Phys(dir, v)) /\ returned' /\ live' = live
        /\ UNCHANGED <<asked, buried, ended, clash, fault>>
        /\ Written(dir, v, Absent)
    BY <1>4 DEF FreePage, Written
  <2>2. Tables' /\ OneMapping(dir, v, Absent) BY <1>2, <2>1, EntryWritten
  <2> QED BY <1>2, <1>4, <2>1, <2>2
<1> QED BY <1>3, <1>4

\* free_pde_table, page by page.
Gives(given, dir) ==
  /\ given \in [0..(Entries * Entries) -> [list : Lists, fault : Faults]]
  /\ given[0].list = free /\ given[0].fault = "none"
  /\ \A k \in Virtual :
       LET l == given[k].list
           page == Phys(dir, k)
       IN  \/ (given[k].fault # "none" \/ page = Absent) /\ given[k + 1] = given[k]
           \/ /\ given[k].fault = "none" /\ page # Absent /\ FillFault(l, page) # "none"
              /\ given[k + 1].list = l /\ given[k + 1].fault = FillFault(l, page)
           \/ /\ given[k].fault = "none" /\ page # Absent /\ FillFault(l, page) = "none"
              /\ given[k + 1].list = Fill(l, page) /\ given[k + 1].fault = "none"

LEMMA FreeTableIs ==
  ASSUME Tables, free \in Lists, NEW dir \in live, FreeTable(dir)
  PROVE  /\ \E given : /\ Gives(given, dir)
                       /\ free' = given[Entries * Entries].list
                       /\ fault' = given[Entries * Entries].fault
         /\ live' = live \ {dir} /\ buried'
         /\ UNCHANGED <<table, asked, returned, ended, clash>>
<1> DEFINE N == Entries * Entries
           X == [list : Lists, fault : Faults]
           step(s, page) ==
             IF s.fault # "none" \/ page = Absent THEN s
             ELSE IF FillFault(s.list, page) # "none"
                  THEN [list |-> s.list, fault |-> FillFault(s.list, page)]
                  ELSE [list |-> Fill(s.list, page), fault |-> "none"]
           start == [list |-> free, fault |-> "none"]
           body(f) == [n \in 0..N |-> IF n = 0 THEN start ELSE step(f[n - 1], Phys(dir, n - 1))]
           given == CHOOSE f : f = body(f)
           G == [n \in 1..N |-> [s \in X |-> step(s, Phys(dir, n - 1))]]
<1>1. N \in Nat /\ Virtual = 0..(N - 1) BY SizesAssumption DEF Virtual
<1>2. /\ free' = given[N].list /\ fault' = given[N].fault
      /\ live' = live \ {dir} /\ buried'
      /\ UNCHANGED <<table, asked, returned, ended, clash>>
  BY DEF FreeTable
<1>3. start \in X BY DEF Faults
<1>4. ASSUME NEW s \in X, NEW page \in Page \cup {Absent} PROVE step(s, page) \in X
  <2>1. FillFault(s.list, page) \in Faults BY DEF FillFault, Faults
  <2>2. page # Absent /\ FillFault(s.list, page) = "none" => Fill(s.list, page) \in Lists
    BY FillType
  <2> QED BY <2>1, <2>2 DEF Faults
<1>5. ASSUME NEW n \in 1..N PROVE n - 1 \in Virtual /\ Phys(dir, n - 1) \in Page \cup {Absent}
  <2>1. n - 1 \in Virtual BY <1>1
  <2> QED BY <2>1, PhysIs
<1> HIDE DEF step, X, start
<1>6. G \in [1..N -> [X -> X]] BY <1>4, <1>5
<1> HIDE DEF N
<1>7. \E f \in [0..N -> X] : f = body(f)
  <2>1. PICK f \in [0..N -> X] : Turns(f, N, start, G)
    <3> HIDE DEF G
    <3> QED BY <1>1, <1>3, <1>6, TurnsExist
  <2>2. ASSUME NEW n \in 0..N, n # 0 PROVE G[n][f[n - 1]] = step(f[n - 1], Phys(dir, n - 1))
    <3>1. n - 1 \in 0..N /\ n \in 1..N BY <1>1, <2>2
    <3>2. f[n - 1] \in X BY <3>1
    <3> QED BY <3>1, <3>2
  <2> HIDE DEF G
  <2>3. f = body(f) BY <2>1, <2>2 DEF Turns
  <2> QED BY <2>3
<1>8. given = body(given)
  <2> HIDE DEF body
  <2> QED BY <1>7
<1> HIDE DEF given
<1>9. given[0] = start /\ \A k \in Virtual : given[k + 1] = step(given[k], Phys(dir, k))
  <2>1. \A n \in 0..N : given[n] = body(given)[n] BY <1>8
  <2>2. \A k \in Virtual : k + 1 \in 0..N /\ k + 1 # 0 /\ (k + 1) - 1 = k BY <1>1
  <2>3. given[0] = start BY <1>1, <2>1
  <2>4. ASSUME NEW k \in Virtual PROVE given[k + 1] = step(given[k], Phys(dir, k))
    <3>1. given[k + 1] = body(given)[k + 1] BY <2>1, <2>2
    <3> QED BY <2>2, <3>1
  <2> QED BY <2>3, <2>4
<1>10. given \in [0..N -> X]
  <2> DEFINE P == {k \in Nat : k <= N => given[k] \in X}
  <2>1. 0 \in P BY <1>3, <1>9
  <2>2. ASSUME NEW k \in P, k < N PROVE k + 1 \in P
    <3>1. k \in Virtual /\ given[k] \in X /\ k + 1 \in 1..N /\ (k + 1) - 1 = k
      BY <1>1, <2>2
    <3>2. Phys(dir, k) \in Page \cup {Absent} BY <3>1, PhysIs
    <3> QED BY <1>4, <1>9, <3>1, <3>2
  <2>3. P \in SUBSET Nat OBVIOUS
  <2>4. 0..N \subseteq P
    <3> HIDE DEF P
    <3> QED BY <1>1, <2>1, <2>2, <2>3, CountingUp
  <2>5. \A k \in 0..N : given[k] \in X BY <2>4
  <2>6. given = [k \in 0..N |-> given[k]] BY <1>8
  <2> QED BY <2>5, <2>6
<1>11. Gives(given, dir)
  <2>1. given[0].list = free /\ given[0].fault = "none" BY <1>9 DEF start
  <2>2. ASSUME NEW k \in Virtual
        PROVE  LET l == given[k].list
                   page == Phys(dir, k)
               IN  \/ (given[k].fault # "none" \/ page = Absent) /\ given[k + 1] = given[k]
                   \/ /\ given[k].fault = "none" /\ page # Absent /\ FillFault(l, page) # "none"
                      /\ given[k + 1].list = l /\ given[k + 1].fault = FillFault(l, page)
                   \/ /\ given[k].fault = "none" /\ page # Absent /\ FillFault(l, page) = "none"
                      /\ given[k + 1].list = Fill(l, page) /\ given[k + 1].fault = "none"
    <3>1. given[k + 1] = step(given[k], Phys(dir, k)) BY <1>9
    <3> DEFINE s == given[k]
               page == Phys(dir, k)
    <3> HIDE DEF s, page
    <3>2. \/ (s.fault # "none" \/ page = Absent) /\ step(s, page) = s
          \/ /\ s.fault = "none" /\ page # Absent /\ FillFault(s.list, page) # "none"
             /\ step(s, page).list = s.list /\ step(s, page).fault = FillFault(s.list, page)
          \/ /\ s.fault = "none" /\ page # Absent /\ FillFault(s.list, page) = "none"
             /\ step(s, page).list = Fill(s.list, page) /\ step(s, page).fault = "none"
      BY DEF step
    <3> QED BY <3>1, <3>2 DEF s, page
  <2> QED BY <1>10, <2>1, <2>2 DEF Gives, N, X
<1> QED BY <1>2, <1>11 DEF N

-----------------------------------------------------------------------------
(* Types, and mappings that stay.                                          *)

TypeInv ==
  /\ Tables /\ free \in Lists
  /\ {asked, returned, buried, ended, clash} \subseteq BOOLEAN
  /\ fault \in Faults

LEMMA TypeInvInit == Init => TypeInv
<1> SUFFICES ASSUME Init PROVE TypeInv OBVIOUS
<1>0. /\ Entries \in Nat /\ Entries >= 2 /\ Pages \in Nat /\ Pages > Entries + 1
      /\ MaxBlocks \in Nat /\ MaxTables \in Nat /\ MaxTables >= 4
  BY SizesAssumption
<1>1. free \in Lists
  <2> DEFINE b == [n \in {0} |-> [start |-> Entries + 1, end |-> Pages - 1,
                                  next |-> NULL, prev |-> NULL]]
  <2>1. {0} \in SUBSET (0..MaxBlocks) /\ 0 \in Link BY <1>0 DEF Link
  <2>2. b \in [{0} -> FreeMemoryBlock] BY <1>0 DEF FreeMemoryBlock, Page
  <2>3. free = [first |-> 0, block |-> b] BY DEF Init
  <2> HIDE DEF b
  <2> QED BY <2>1, <2>2, <2>3, ListMade
<1>2. /\ DOMAIN table = 0..3 /\ live = {0, 3}
      /\ table[0] = [i \in Index |-> IF i = 0 THEN 1 ELSE IF i = 1 THEN 2 ELSE Absent]
      /\ table[1] = [i \in Index |-> i]
      /\ table[2] = [i \in Index |-> IF i = 0 THEN Entries ELSE Absent]
      /\ table[3] = [i \in Index |-> IF i = 0 THEN 1 ELSE Absent]
  BY DEF Init
<1>3. Index \subseteq Page /\ Entries \in Page /\ {1, 2} \subseteq Table /\ 0 \in Index /\ 1 \in Index
  BY <1>0 DEF Index, Page, Table
<1>4. /\ \A n \in 0..3 : table[n] \in [Index -> Page \cup Table \cup {Absent}]
      /\ table[2] \in [Index -> Page \cup {Absent}]
  <2>1. \A n \in 0..3 : n \in {0, 1, 2, 3} OBVIOUS
  <2> QED BY <1>2, <1>3, <2>1
<1>5. /\ \A i \in Index \ {0} : /\ table[0][i] # Absent => i = 1 /\ table[0][i] = 2
                                /\ table[3][i] = Absent
      /\ table[0][0] = 1 /\ table[3][0] = 1
  BY <1>2, <1>3
<1>6. Tables
  <2>0. Cardinality(0..3) = 4
    <3>1. ASSUME NEW b \in Nat PROVE Cardinality(0..b) = b + 1 BY FS_Interval
    <3>2. 3 \in Nat /\ 3 + 1 = 4 OBVIOUS
    <3> QED BY <3>1, <3>2, Zenon
  <2>1. NextTable = 4 BY <1>2, <2>0 DEF NextTable
  <2>2. DOMAIN table = 0..(NextTable - 1) /\ NextTable \in 4..MaxTables BY <1>0, <1>2, <2>1
  <2>3. live \subseteq DOMAIN table /\ 0 \in live /\ 1 \notin live BY <1>2
  <2>4. \A dir \in live, i \in Index \ {0} : table[dir][i] # Absent =>
          /\ table[dir][i] \in DOMAIN table \ live /\ table[dir][i] # 1
          /\ table[table[dir][i]] \in [Index -> Page \cup {Absent}]
    BY <1>2, <1>4, <1>5
  <2>5. \A dir, other \in live : \A i, j \in Index \ {0} :
          table[dir][i] # Absent /\ table[dir][i] = table[other][j] => dir = other /\ i = j
    BY <1>2, <1>5
  <2> QED BY <1>2, <1>4, <1>5, <2>2, <2>3, <2>4, <2>5 DEF Tables
<1> QED BY <1>1, <1>6 DEF TypeInv, Init, Faults

LEMMA TypeInvStep == TypeInv /\ [Next]_vars => TypeInv'
<1> SUFFICES ASSUME TypeInv, [Next]_vars PROVE TypeInv' OBVIOUS
<1> USE DEF TypeInv
<1>1. ASSUME NEW dir \in Processes, NewPageAny(dir) PROVE TypeInv'
  <2>1. dir \in live BY DEF Processes
  <2>2. CASE free.first = NULL \/ free.first \notin Used(free)
    <3>1. \E why \in Faults : Stop(why) BY <1>1, <2>2 DEF NewPageAny, Faults
    <3> QED BY <3>1, NoChangeIs DEF Stop
  <2>3. CASE free.first # NULL /\ free.first \in Used(free)
    <3> DEFINE page == AnyPage(free)
    <3>1. /\ MayMap(dir) /\ NewPage(page, dir) /\ live' = live /\ fault = "none"
          /\ clash' = (clash \/ page \in InUse) /\ ended' = (ended \/ page = Pages - 1)
          /\ UNCHANGED <<asked, returned, buried>>
      BY <1>1, <2>3 DEF NewPageAny
    <3>2. page \in Page BY <2>3, ListType DEF AnyPage, From
    <3> HIDE DEF page
    <3>3. Tables' /\ fault' \in Faults
          /\ (free' = free \/ /\ ~RemoveFails(free, free.first, page)
                              /\ free' = Remove(free, free.first, page))
      BY <2>1, <3>1, <3>2, NewPageIs DEF Faults
    <3>4. free' \in Lists BY <2>3, <3>2, <3>3, RemoveType
    <3> QED BY <3>1, <3>3, <3>4
  <2> QED BY <2>2, <2>3
<1>2. ASSUME NEW page \in Page, NEW dir \in Processes, NewPageAt(page, dir) PROVE TypeInv'
  <2>1. dir \in live BY DEF Processes
  <2>2. CASE free.first = NULL \/ free.first \notin Used(free)
    <3>1. \E why \in Faults : Stop(why) BY <1>2, <2>2 DEF NewPageAt, Faults
    <3> QED BY <3>1, NoChangeIs DEF Stop
  <2>3. CASE free.first # NULL /\ free.first \in Used(free)
    <3>1. /\ MayMap(dir) /\ NewPage(page, dir) /\ live' = live /\ fault = "none"
          /\ asked' = TRUE /\ UNCHANGED <<returned, buried, ended, clash>>
      BY <1>2, <2>3 DEF NewPageAt
    <3>2. Tables' /\ fault' \in Faults
          /\ (free' = free \/ /\ ~RemoveFails(free, free.first, page)
                              /\ free' = Remove(free, free.first, page))
      BY <2>1, <3>1, NewPageIs DEF Faults
    <3>3. free' \in Lists BY <2>3, <3>2, RemoveType
    <3> QED BY <3>1, <3>2, <3>3
  <2> QED BY <2>2, <2>3
<1>3. ASSUME NEW dir \in Processes, NEW v \in Virtual, v >= Entries, FreePage(v, dir)
      PROVE  TypeInv'
  <2>1. dir \in live BY DEF Processes
  <2> DEFINE page == Phys(dir, v)
  <2>2. /\ Tables' /\ page \in Page
        /\ \/ Stop(FillFault(free, page))
           \/ /\ FillFault(free, page) = "none" /\ free' = Fill(free, page) /\ returned'
              /\ UNCHANGED <<asked, buried, ended, clash, fault>>
    BY <1>3, <2>1, FreePageIs
  <2>3. FillFault(free, page) \in Faults BY DEF FillFault, Faults
  <2> HIDE DEF page
  <2>4. CASE Stop(FillFault(free, page)) BY <2>2, <2>3, <2>4 DEF Stop
  <2>5. CASE /\ FillFault(free, page) = "none" /\ free' = Fill(free, page) /\ returned'
             /\ UNCHANGED <<asked, buried, ended, clash, fault>>
    <3>1. free' \in Lists BY <2>2, <2>5, FillType
    <3>2. returned' = TRUE BY <1>3, <2>5 DEF FreePage, Stop
    <3> QED BY <2>2, <2>5, <3>1, <3>2
  <2> QED BY <2>2, <2>4, <2>5
<1>4. CASE SoftCopyTable
  <2>1. Tables' BY <1>4, CopyIs
  <2> QED BY <1>4, <2>1 DEF SoftCopyTable
<1>5. ASSUME NEW dir \in Processes, FreeTable(dir) PROVE TypeInv'
  <2>1. dir \in live BY DEF Processes
  <2>2. PICK given : /\ Gives(given, dir)
                     /\ free' = given[Entries * Entries].list
                     /\ fault' = given[Entries * Entries].fault
    BY <1>5, <2>1, FreeTableIs
  <2>3. /\ live' = live \ {dir} /\ buried' = TRUE
        /\ UNCHANGED <<table, asked, returned, ended, clash>>
    BY <1>5 DEF FreeTable
  <2>4. Entries * Entries \in 0..(Entries * Entries) BY SizesAssumption
  <2> DEFINE last == given[Entries * Entries]
  <2>5. last \in [list : Lists, fault : Faults] BY <2>2, <2>4 DEF Gives
  <2> HIDE DEF last
  <2>6. last.list \in Lists /\ last.fault \in Faults BY <2>5
  <2>7. free' = last.list /\ fault' = last.fault BY <2>2 DEF last
  <2> QED BY <2>3, <2>6, <2>7, ExitIs
<1>6. CASE UNCHANGED vars BY <1>6, NoChangeIs DEF vars
<1>7. CASE AskAny BY <1>1, <1>7 DEF AskAny
<1>8. CASE AskMine
  <2>1. PICK mine \in Processes, child \in Processes, v \in Virtual :
          Phys(mine, v) # Absent /\ NewPageAt(Phys(mine, v), child)
    BY <1>8 DEF AskMine
  <2>2. Phys(mine, v) \in Page BY <2>1, PhysIs DEF Processes
  <2> QED BY <1>2, <2>1, <2>2
<1>9. CASE GiveBack BY <1>3, <1>9 DEF GiveBack
<1>10. CASE Exited BY <1>5, <1>10 DEF Exited
<1> QED BY <1>4, <1>6, <1>7, <1>8, <1>9, <1>10 DEF Next

\* Whatever the processes ask for, give back, launch and leave behind: the list
\* and the tables keep their types, and no table points to one that does not
\* exist.
THEOREM TypeCorrect == Spec => []TypeOK
<1>1. TypeInv => TypeOK
  <2> SUFFICES ASSUME TypeInv PROVE TypeOK OBVIOUS
  <2>1. /\ free.first \in Nat \cup {NULL} /\ Used(free) \subseteq 0..MaxBlocks
        /\ free.block \in [Used(free) -> FreeMemoryBlock]
    BY ListType DEF TypeInv, Link
  <2>2. ASSUME NEW dir \in live, NEW i \in Index
        PROVE  table[dir][i] \in DOMAIN table \cup {Absent}
    <3>1. CASE i = 0 BY <3>1, SizesAssumption DEF TypeInv, Tables
    <3>2. CASE i # 0 BY <3>2 DEF TypeInv, Tables
    <3> QED BY <3>1, <3>2
  <2>3. NextTable <= MaxTables BY SizesAssumption DEF TypeInv, Tables
  <2> QED BY <2>1, <2>2, <2>3 DEF TypeInv, Tables, TypeOK
<1> QED BY <1>1, TypeInvInit, TypeInvStep, PTL DEF Spec

LEMMA StaysStep ==
  ASSUME TypeInv, [Next]_vars, NEW dir \in live \cap live', NEW v \in Virtual,
         Phys(dir, v) # Absent, Phys(dir, v)' # Phys(dir, v)
  PROVE  Phys(dir, v)' = Absent /\ returned'
<1> USE DEF TypeInv
<1>1. ASSUME NEW page \in Page, NEW mine \in Processes, MayMap(mine), NewPage(page, mine),
             live' = live
      PROVE  FALSE
  <2>1. mine \in live BY DEF Processes
  <2>2. \/ \A d \in live : \A w \in Virtual : Phys(d, w)' = Phys(d, w)
        \/ \E x \in Virtual : Phys(mine, x) = Absent /\ OneMapping(mine, x, page)
    BY <1>1, <2>1, NewPageIs
  <2> QED BY <2>2 DEF OneMapping
<1>2. ASSUME NEW page \in Page, NEW mine \in Processes,
             NewPageAny(mine) \/ NewPageAt(page, mine)
      PROVE  FALSE
  <2>1. CASE table' = table /\ live' = live BY <2>1, NoChangeIs
  <2>2. CASE ~(table' = table /\ live' = live)
    <3>1. free.first \in Used(free) /\ MayMap(mine) /\ live' = live
          /\ (NewPage(AnyPage(free), mine) \/ NewPage(page, mine))
      BY <1>2, <2>2 DEF NewPageAny, NewPageAt, Stop
    <3>2. AnyPage(free) \in Page BY <3>1, ListType DEF AnyPage, From
    <3> QED BY <1>1, <3>1, <3>2
  <2> QED BY <2>1, <2>2
<1>3. 0 \in Page BY SizesAssumption DEF Page
<1>4. CASE AskAny BY <1>2, <1>3, <1>4 DEF AskAny
<1>5. CASE AskMine
  <2>1. PICK mine \in Processes, child \in Processes, w \in Virtual :
          Phys(mine, w) # Absent /\ NewPageAt(Phys(mine, w), child)
    BY <1>5 DEF AskMine
  <2>2. Phys(mine, w) \in Page BY <2>1, PhysIs DEF Processes
  <2> QED BY <1>2, <2>1, <2>2
<1>6. CASE GiveBack
  <2>1. PICK mine \in Processes, w \in Virtual : w >= Entries /\ FreePage(w, mine)
    BY <1>6 DEF GiveBack
  <2>2. mine \in live BY DEF Processes
  <2>3. \/ \A d \in live : \A x \in Virtual : Phys(d, x)' = Phys(d, x)
        \/ returned' /\ OneMapping(mine, w, Absent)
    BY <2>1, <2>2, FreePageIs
  <2> QED BY <2>3 DEF OneMapping
<1>7. CASE SoftCopyTable BY <1>7, CopyIs
<1>8. CASE Exited
  <2>1. PICK gone \in Processes : FreeTable(gone) BY <1>8 DEF Exited
  <2>2. live' = live \ {gone} /\ table' = table BY <2>1 DEF FreeTable
  <2> QED BY <2>1, <2>2, ExitIs
<1>9. CASE UNCHANGED vars BY <1>9, NoChangeIs DEF vars
<1> QED BY <1>4, <1>5, <1>6, <1>7, <1>8, <1>9 DEF Next

\* No call takes away a mapping of a process that goes on, or lets it lead
\* elsewhere, but the process's own free_page.
THEOREM MappingsOnlyGoByReturn == Spec => MappingsStay
<1> DEFINE Stay == \A dir \in live \cap live', v \in Virtual :
                     Phys(dir, v) # Absent /\ Phys(dir, v)' # Phys(dir, v)
                       => Phys(dir, v)' = Absent /\ returned'
<1>1. TypeInv /\ [Next]_vars => [Stay]_vars
  <2>1. TypeInv /\ [Next]_vars => Stay BY StaysStep
  <2> HIDE DEF Stay
  <2> QED BY <2>1
<1> QED BY <1>1, TypeInvInit, TypeInvStep, PTL DEF Spec, MappingsStay

-----------------------------------------------------------------------------
(* The pages in use.                                                       *)

LEMMA InUseIs ==
  /\ \A p : p \in InUse <=> \E d \in live : \E v \in Virtual : Phys(d, v) = p /\ p # Absent
  /\ Tables => InUse \subseteq Page
<1>1. \A p : p \in InUse <=> \E d \in live : \E v \in Virtual : Phys(d, v) = p /\ p # Absent
  BY DEF InUse, Mapped
<1>2. ASSUME Tables, NEW p \in InUse PROVE p \in Page
  <2>1. PICK d \in live, v \in Virtual : Phys(d, v) = p /\ p # Absent BY <1>1
  <2> QED BY <1>2, <2>1, PhysIs
<1> QED BY <1>1, <1>2

\* A step that changes no mapping of a process that goes on.
Keep == \A d \in live' : \A v \in Virtual : Phys(d, v)' = Phys(d, v)

LEMMA UseKept ==
  ASSUME Tables
  PROVE  /\ live' \subseteq live /\ Keep => InUse' \subseteq InUse
         /\ live' = live /\ Keep => InUse' = InUse
         /\ SoftCopyTable => InUse' = InUse
<1>1. ASSUME live' \subseteq live, Keep PROVE InUse' \subseteq InUse
  <2>1. \A d \in live' : Mapped(d)' = Mapped(d) BY <1>1 DEF Mapped, Keep
  <2> QED BY <1>1, <2>1 DEF InUse
<1>2. ASSUME live' = live, Keep PROVE InUse' = InUse
  <2>1. \A d \in live : Mapped(d)' = Mapped(d) BY <1>2 DEF Mapped, Keep
  <2> QED BY <1>2, <2>1 DEF InUse
<1>3. ASSUME SoftCopyTable PROVE InUse' = InUse
  <2>1. PICK new : /\ new \notin live /\ live' = live \cup {new}
                   /\ \A w \in Virtual : Phys(new, w)' = IF w < Entries THEN w ELSE Absent
    BY <1>3, CopyIs
  <2>2. \A d \in live : Mapped(d)' = Mapped(d)
    <3>1. \A d \in live : \A w \in Virtual : Phys(d, w)' = Phys(d, w) BY <1>3, CopyIs
    <3> QED BY <3>1 DEF Mapped
  <2>3. 0 \in live /\ \A w \in Virtual : w < Entries => Phys(0, w) = w /\ w # Absent
    <3>1. 0 \in live BY DEF Tables
    <3>2. \A w \in Virtual : w \in Nat BY SizesAssumption DEF Virtual
    <3> QED BY <3>1, <3>2, PhysIs DEF Absent
  <2>4. Mapped(new)' \subseteq Mapped(0) BY <2>1, <2>3 DEF Mapped
  <2> QED BY <2>1, <2>2, <2>3, <2>4 DEF InUse
<1> QED BY <1>1, <1>2, <1>3

LEMMA UseGrows ==
  ASSUME Tables, NEW dir \in live, NEW v \in Virtual, NEW p \in Page,
         Phys(dir, v) = Absent, live' = live, OneMapping(dir, v, p)
  PROVE  InUse' = InUse \cup {p}
<1>1. p # Absent BY SizesAssumption DEF Page, Absent
<1>2. \A d \in live \ {dir} : Mapped(d)' = Mapped(d) BY DEF OneMapping, Mapped
<1>3. Mapped(dir)' = Mapped(dir) \cup {p} BY <1>1 DEF OneMapping, Mapped
<1> QED BY <1>2, <1>3 DEF InUse

LEMMA UseShrinks ==
  ASSUME Tables, NEW dir \in live, NEW v \in Virtual, Phys(dir, v) # Absent,
         live' = live, OneMapping(dir, v, Absent)
  PROVE  InUse' \subseteq InUse /\ InUse \ {Phys(dir, v)} \subseteq InUse'
<1>1. \A d \in live \ {dir} : Mapped(d)' = Mapped(d) BY DEF OneMapping, Mapped
<1>2. Mapped(dir)' \subseteq Mapped(dir) /\ Mapped(dir) \ {Phys(dir, v)} \subseteq Mapped(dir)'
  BY DEF OneMapping, Mapped
<1> QED BY <1>1, <1>2 DEF InUse

\* No page above the kernel's has two owners, as long as none is asked for.
Apart ==
  \A d, e \in live : \A v, w \in Virtual :
    v >= Entries /\ w >= Entries /\ Phys(d, v) >= Entries /\ Phys(d, v) = Phys(e, w)
      => d = e /\ v = w

\* The stack of "dummy" is nobody else's, and "dummy" never runs.
Dummy == Phys(0, Entries) = Entries

LEMMA EntriesIs == Entries \in Virtual /\ Entries \in Page /\ Entries # Absent
<1>1. Entries * Entries > Entries
  <2>1. Entries \in Nat /\ Entries >= 2 BY SizesAssumption
  <2>2. Entries * Entries >= 2 * Entries BY <2>1, SMTT(30)
  <2> QED BY <2>1, <2>2
<1> QED BY <1>1, SizesAssumption DEF Virtual, Page, Absent

LEMMA ApartKept ==
  ASSUME Tables, Apart
  PROVE  /\ live' \subseteq live /\ Keep => Apart'
         /\ SoftCopyTable => Apart'
<1>1. live' \subseteq live /\ Keep => Apart' BY DEF Apart, Keep
<1>2. ASSUME SoftCopyTable PROVE Apart'
  <2>1. PICK new : /\ new \notin live /\ live' = live \cup {new}
                   /\ \A w \in Virtual : Phys(new, w)' = IF w < Entries THEN w ELSE Absent
    BY <1>2, CopyIs
  <2>2. \A d \in live : \A w \in Virtual : Phys(d, w)' = Phys(d, w) BY <1>2, CopyIs
  <2>3. \A w \in Virtual : w >= Entries => ~(Phys(new, w)' >= Entries)
    <3>1. \A w \in Virtual : w \in Nat BY SizesAssumption DEF Virtual
    <3> QED BY <2>1, <3>1, SizesAssumption DEF Absent
  <2>4. ASSUME NEW d \in live', NEW e \in live', NEW v \in Virtual, NEW w \in Virtual,
               v >= Entries, w >= Entries, Phys(d, v)' >= Entries, Phys(d, v)' = Phys(e, w)'
        PROVE  d = e /\ v = w
    <3>1. d \in live /\ e \in live BY <2>1, <2>3, <2>4
    <3> QED BY <2>2, <2>4, <3>1 DEF Apart
  <2> QED BY <2>4 DEF Apart
<1> QED BY <1>1, <1>2

LEMMA ApartGrows ==
  ASSUME Tables, Apart, NEW dir \in live, NEW v \in Virtual, NEW p \in Page,
         p >= Entries => p \notin InUse, live' = live, OneMapping(dir, v, p)
  PROVE  Apart'
<1>1. p # Absent BY SizesAssumption DEF Page, Absent
<1>2. \A d \in live : \A w \in Virtual : p >= Entries => Phys(d, w) # p
  BY <1>1, InUseIs
<1>3. ASSUME NEW d \in live, NEW e \in live, NEW x \in Virtual, NEW w \in Virtual,
             x >= Entries, w >= Entries, Phys(d, x)' >= Entries, Phys(d, x)' = Phys(e, w)'
      PROVE  d = e /\ x = w
  BY <1>2, <1>3 DEF Apart, OneMapping
<1> QED BY <1>3 DEF Apart

LEMMA ApartShrinks ==
  ASSUME Tables, Apart, NEW dir \in live, NEW v \in Virtual, v >= Entries,
         Phys(dir, v) # Absent, live' = live, OneMapping(dir, v, Absent)
  PROVE  /\ Apart'
         /\ Phys(dir, v) >= Entries => Phys(dir, v) \notin InUse'
<1>1. Apart'
  <2>1. \A d \in live : \A w \in Virtual :
          Phys(d, w)' = Phys(d, w) \/ Phys(d, w)' = Absent
    BY DEF OneMapping
  <2>2. ~(Absent >= Entries) BY SizesAssumption DEF Absent
  <2> QED BY <2>1, <2>2 DEF Apart
<1>2. ASSUME Phys(dir, v) >= Entries, Phys(dir, v) \in InUse' PROVE FALSE
  <2> DEFINE p == Phys(dir, v)
  <2>1. PICK d \in live, w \in Virtual : Phys(d, w)' = p
    BY <1>2 DEF InUse, Mapped
  <2>2. Phys(d, w) = p /\ ~(d = dir /\ w = v) BY <2>1 DEF OneMapping
  <2>3. w >= Entries
    <3>1. w < Entries => Phys(d, w) = w BY PhysIs
    <3>2. w \in Nat BY SizesAssumption DEF Virtual
    <3> QED BY <1>2, <2>2, <3>1, <3>2, SizesAssumption
  <2> QED BY <1>2, <2>2, <2>3 DEF Apart
<1> QED BY <1>1, <1>2

LEMMA CalmLess ==
  ASSUME NEW l, NEW U, Calm(l, U), NEW V \in SUBSET U
  PROVE  Calm(l, V)
<1>1. Ranges(l, V) BY DEF Calm, Ranges
<1> QED BY <1>1 DEF Calm

\* The page that belongs to "dummy" and the pages of others.
LEMMA OwnPage ==
  ASSUME Tables, Apart, Dummy, NEW dir \in Processes, NEW v \in Virtual,
         Phys(dir, v) >= Entries
  PROVE  /\ v >= Entries /\ Phys(dir, v) # Entries
         /\ \A d \in live : \A w \in Virtual : Phys(d, w) = Phys(dir, v) => d = dir /\ w = v
<1>1. dir \in live /\ dir # 0 /\ 0 \in live BY DEF Processes, Tables
<1>2. \A d \in live : \A w \in Virtual :
        w \in Nat /\ (Phys(d, w) >= Entries => w >= Entries)
  <2>1. \A w \in Virtual : w \in Nat BY SizesAssumption DEF Virtual
  <2> QED BY <2>1, PhysIs, SizesAssumption
<1>3. Phys(dir, v) # Entries
  BY <1>1, <1>2, EntriesIs, SizesAssumption DEF Apart, Dummy
<1> QED BY <1>1, <1>2, <1>3 DEF Apart

\* free_pde_table never runs off the list.
LEMMA GivesCalm ==
  ASSUME Tables, free \in Lists, Calm(free, InUse), Apart, Dummy, NEW dir \in Processes,
         NEW given, Gives(given, dir), table' = table, live' = live \ {dir}
  PROVE  LET last == given[Entries * Entries] IN
         /\ last.fault \in {"none", "empty", "exit"}
         /\ last.fault = "none" => Calm(last.list, InUse')
<1> DEFINE N == Entries * Entries
           Rest(k) == InUse' \cup ({Phys(dir, w) : w \in {x \in Virtual : x >= k}} \ {Absent})
           Good(k) == /\ given[k].fault \in {"none", "empty", "exit"}
                      /\ given[k].fault = "none" => Calm(given[k].list, Rest(k))
           P == {k \in Nat : k <= N => Good(k)}
<1>1. N \in Nat /\ Virtual = 0..(N - 1) BY SizesAssumption DEF Virtual
<1>2. dir \in live /\ dir # 0 BY DEF Processes
<1>3. InUse' \subseteq InUse /\ InUse \subseteq Page
  <2>1. live' \subseteq live /\ Keep BY ExitIs DEF Keep
  <2> QED BY <2>1, UseKept, InUseIs
<1>4. \A k : Rest(k) \subseteq InUse
  <2>1. \A w \in Virtual : Phys(dir, w) # Absent => Phys(dir, w) \in InUse BY <1>2, InUseIs
  <2> QED BY <1>3, <2>1
<1>5. \A p \in InUse' : \E d \in live \ {dir} : \E w \in Virtual : Phys(d, w) = p
  <2>1. \A d \in live' : \A w \in Virtual : Phys(d, w)' = Phys(d, w) BY ExitIs
  <2> QED BY <2>1 DEF InUse, Mapped
<1> HIDE DEF N
<1>6. 0 \in P
  <2>1. Calm(free, Rest(0)) BY <1>4, CalmLess
  <2> QED BY <2>1 DEF Gives
<1>7. ASSUME NEW k \in P, k < N PROVE k + 1 \in P
  <2>1. k \in Virtual /\ k \in Nat /\ Good(k) BY <1>1, <1>7
  <2> DEFINE l == given[k].list
             p == Phys(dir, k)
  <2>2. Rest(k + 1) \subseteq Rest(k)
    <3>1. \A x \in Virtual : x >= k + 1 => x >= k BY <1>1, <2>1
    <3> QED BY <3>1
  <2>3. l \in Lists
    <3>1. k \in 0..(Entries * Entries) BY <1>1, <2>1 DEF N
    <3> QED BY <3>1 DEF Gives
  <2>4. \/ (given[k].fault # "none" \/ p = Absent) /\ given[k + 1] = given[k]
        \/ /\ given[k].fault = "none" /\ p # Absent /\ FillFault(l, p) # "none"
           /\ given[k + 1].list = l /\ given[k + 1].fault = FillFault(l, p)
        \/ /\ given[k].fault = "none" /\ p # Absent /\ FillFault(l, p) = "none"
           /\ given[k + 1].list = Fill(l, p) /\ given[k + 1].fault = "none"
    BY <2>1 DEF Gives
  <2>5. p # Absent =>
          /\ p \in Page /\ p \in Rest(k) /\ p # Entries
          /\ p >= Entries => p \notin Rest(k + 1)
    <3> SUFFICES ASSUME p # Absent
                 PROVE  /\ p \in Page /\ p \in Rest(k) /\ p # Entries
                        /\ p >= Entries => p \notin Rest(k + 1)
      OBVIOUS
    <3>1. p \in Page BY <1>2, <2>1, PhysIs
    <3>2. p \in Rest(k)
      <4>1. k \in {x \in Virtual : x >= k} BY <2>1
      <4> QED BY <4>1
    <3>3. p # Entries BY <2>1, OwnPage, SizesAssumption
    <3>4. ASSUME p >= Entries, p \in Rest(k + 1) PROVE FALSE
      <4>1. \A d \in live : \A w \in Virtual : Phys(d, w) = p => d = dir /\ w = k
        BY <2>1, <3>4, OwnPage
      <4>2. p \notin InUse' BY <1>5, <4>1
      <4>3. \E w \in Virtual : w >= k + 1 /\ Phys(dir, w) = p BY <3>4, <4>2
      <4> QED BY <1>2, <2>1, <4>1, <4>3
    <3> QED BY <3>1, <3>2, <3>3, <3>4
  <2>6. given[k].fault = "none" => Calm(l, Rest(k)) BY <2>1
  <2>7. given[k].fault \in {"none", "empty", "exit"} BY <2>1
  <2>8. Rest(k) \in SUBSET Page /\ Rest(k + 1) \in SUBSET Rest(k) BY <1>3, <1>4, <2>2
  <2> HIDE DEF Rest, l, p
  <2>9. given[k].fault = "none" /\ p # Absent =>
          /\ FillFault(l, p) \in {"none", "empty", "exit"}
          /\ FillFault(l, p) = "none" => Calm(Fill(l, p), Rest(k + 1))
    BY <2>3, <2>5, <2>6, <2>8, FillCalm
  <2>10. given[k].fault = "none" => Calm(l, Rest(k + 1)) BY <2>6, <2>8, CalmLess
  <2>11. Good(k + 1) BY <2>4, <2>7, <2>9, <2>10 DEF l
  <2> QED BY <2>1, <2>11
<1>8. 0..N \subseteq P
  <2>1. P \in SUBSET Nat OBVIOUS
  <2> HIDE DEF P
  <2> QED BY <1>1, <1>6, <1>7, <2>1, CountingUp
<1>9. Good(N)
  <2>1. N \in 0..N /\ N <= N BY <1>1
  <2>2. N \in P
    <3> HIDE DEF P
    <3> QED BY <1>8, <2>1
  <2> HIDE DEF Good
  <2> QED BY <2>1, <2>2
<1>10. InUse' \subseteq Rest(N) OBVIOUS
<1> HIDE DEF Rest
<1>11. given[N].fault = "none" => Calm(given[N].list, InUse') BY <1>9, <1>10, CalmLess
<1> QED BY <1>9, <1>11 DEF N

-----------------------------------------------------------------------------
(* What harms the list, and what does not.                                 *)

\* While no page is asked for by its address the list is calm.
CalmInv == fault = "none" /\ ~asked => Calm(free, InUse) /\ Apart

\* Until a process exits, too, nothing of the kernel's is on it or handed out.
HighInv ==
  fault = "none" /\ ~asked /\ ~buried =>
    /\ \A n \in Used(free) : Entries < From(free, n)
    /\ \A d \in live : \A v \in Virtual :
         v >= Entries /\ Phys(d, v) # Absent => Phys(d, v) >= Entries

\* The first range, if requests by address did cut it, ends before its start.
Cut(l) ==
  /\ l.first \in Used(l) /\ Before(l, l.first) = NULL
  /\ To(l, l.first) = Pages - 1 \/ To(l, l.first) < From(l, l.first)

\* While nothing is given back, the first range starts behind all pages in use.
Head == Cut(free) /\ \A p \in InUse : p < From(free, free.first)

HeadInv == fault = "none" /\ ~returned /\ ~ended /\ ~buried => Head

HarmInv == TypeInv /\ Dummy /\ CalmInv /\ HighInv /\ HeadInv
             /\ SearchEnds /\ LaunchesAloneAreSafe

\* An explicit request cuts the first range and leaves its start.
LEMMA RemoveBelow ==
  ASSUME NEW l \in Lists, Cut(l), NEW p \in Page, p < From(l, l.first),
         ~RemoveFails(l, l.first, p)
  PROVE  LET m == Remove(l, l.first, p) IN
         Cut(m) /\ From(m, m.first) = From(l, l.first)
<1> DEFINE n == l.first
           m == Remove(l, n, p)
<1>0. /\ n \in Used(l) /\ Before(l, n) = NULL /\ From(l, n) \in Page
      /\ To(l, n) = Pages - 1 \/ To(l, n) < From(l, n)
  BY ListType DEF Cut
<1>1. From(l, n) # p BY <1>0 DEF Page
<1>2. \/ To(l, n) = p /\ Edited(m, l, n, From(l, n), Down(p), After(l, n), Before(l, n))
      \/ \E f : CutInside(m, l, n, p, f)
  BY <1>0, <1>1, RemoveShape
<1> HIDE DEF m
<1>3. /\ m.first = n /\ n \in Used(m) /\ From(m, n) = From(l, n) /\ To(m, n) = Down(p)
      /\ Before(m, n) = NULL
  BY <1>0, <1>2 DEF Edited, CutInside
<1>4. Down(p) = Pages - 1 \/ Down(p) < From(l, n)
  BY <1>0, DownIs, SizesAssumption DEF Page
<1> QED BY <1>3, <1>4 DEF Cut, m

\* A request for any page takes the first page of the range.
LEMMA RemoveStart ==
  ASSUME NEW l \in Lists, Cut(l), From(l, l.first) # Pages - 1,
         ~RemoveFails(l, l.first, From(l, l.first))
  PROVE  LET m == Remove(l, l.first, From(l, l.first)) IN
         Cut(m) /\ From(m, m.first) = From(l, l.first) + 1
<1> DEFINE n == l.first
           p == From(l, n)
           m == Remove(l, n, p)
<1>0. /\ n \in Used(l) /\ Before(l, n) = NULL /\ p \in Page
      /\ To(l, n) = Pages - 1 \/ To(l, n) < From(l, n)
  BY ListType DEF Cut
<1>1. To(l, n) # p /\ Up(p) = p + 1 BY <1>0, UpIs, SizesAssumption DEF Page
<1>2. Edited(m, l, n, Up(p), To(l, n), After(l, n), Before(l, n))
  BY <1>0, <1>1, RemoveShape
<1> HIDE DEF m
<1>3. /\ m.first = n /\ n \in Used(m) /\ From(m, n) = p + 1 /\ To(m, n) = To(l, n)
      /\ Before(m, n) = NULL
  BY <1>0, <1>1, <1>2 DEF Edited
<1> HIDE DEF p, n
<1>4. To(m, n) = Pages - 1 \/ To(m, n) < From(m, n)
  <2>1. To(l, n) \in Int /\ p \in Int BY <1>0, ListType, SizesAssumption DEF Page
  <2>2. To(l, n) < p => To(l, n) < p + 1 BY <2>1
  <2>3. To(l, n) = Pages - 1 \/ To(l, n) < p BY <1>0 DEF p
  <2> QED BY <1>3, <2>2, <2>3
<1> QED BY <1>3, <1>4 DEF Cut, m, p, n

\* A page below the first range stops the search at once.
LEMMA FillBelow ==
  ASSUME NEW l \in Lists, Cut(l), NEW p \in Page, p < From(l, l.first)
  PROVE  FillFault(l, p) \in {"none", "exit"}
<1>1. PICK at : Search(at, l, p) /\ Behind(l, p) = at[MaxBlocks] BY BehindIs
<1>2. /\ l.first \in Used(l) /\ From(l, l.first) \in Page /\ Before(l, l.first) = NULL
      /\ l.first # NULL
  BY ListType, SizesAssumption DEF Cut, NULL
<1>3. From(l, l.first) >= p /\ ~(From(l, l.first) < p)
  BY <1>2, SizesAssumption DEF Page
<1>4. at[MaxBlocks] = l.first
  <2> DEFINE P == {k \in Nat : k <= MaxBlocks => at[k] = l.first}
  <2>1. 0 \in P BY <1>1 DEF Search
  <2>2. ASSUME NEW k \in P, k < MaxBlocks PROVE k + 1 \in P
    <3>1. k \in 0..(MaxBlocks - 1) /\ at[k] = l.first BY <2>2, SizesAssumption
    <3> QED BY <1>1, <1>3, <3>1 DEF Search
  <2>3. P \in SUBSET Nat OBVIOUS
  <2>4. MaxBlocks \in P
    <3> HIDE DEF P
    <3> QED BY <2>1, <2>2, <2>3, CountingUp, SizesAssumption
  <2> QED BY <2>4, SizesAssumption
<1> QED BY <1>1, <1>2, <1>3, <1>4 DEF FillFault, From, Before

\* Pages of the kernel stay off the list as long as none is given back.
LEMMA FillHigh ==
  ASSUME NEW l \in Lists, \A n \in Used(l) : Entries < From(l, n),
         NEW p \in Page, Entries < p, FillFault(l, p) = "none"
  PROVE  \A n \in Used(Fill(l, p)) : Entries < From(Fill(l, p), n)
<1> DEFINE m == Fill(l, p)
           after == Behind(l, p)
           before == Before(l, after)
<1>1. \/ JoinsFront(m, l, p, before)
      \/ JoinsBehind(m, l, p, after)
      \/ \E f : Stands(m, l, p, before, after, f)
  BY FillShape
<1> HIDE DEF m, after, before
<1>2. ASSUME NEW n, n \in Used(m) PROVE Entries < From(m, n)
  <2>1. CASE JoinsFront(m, l, p, before) BY <1>2, <2>1 DEF JoinsFront, Edited, From
  <2>2. CASE JoinsBehind(m, l, p, after) BY <1>2, <2>2 DEF JoinsBehind, Edited, From
  <2>3. CASE \E f : Stands(m, l, p, before, after, f) BY <1>2, <2>3 DEF Stands
  <2> QED BY <1>1, <2>1, <2>2, <2>3
<1> QED BY <1>2 DEF m

LEMMA RemoveHigh ==
  ASSUME NEW l \in Lists, \A n \in Used(l) : Entries < From(l, n), l.first \in Used(l),
         From(l, l.first) <= To(l, l.first)
  PROVE  LET m == Remove(l, l.first, From(l, l.first)) IN
         \A n \in Used(m) : Entries < From(m, n)
<1> DEFINE k == l.first
           p == From(l, k)
           m == Remove(l, k, p)
<1>0. k \in Used(l) /\ p \in Page /\ To(l, k) \in Page /\ Entries < p BY ListType
<1>1. ~RemoveFails(l, k, p) BY DEF RemoveFails, From
<1>2. \/ WholeGone(m, l, k)
      \/ To(l, k) # p /\ Edited(m, l, k, Up(p), To(l, k), After(l, k), Before(l, k))
  BY <1>0, <1>1, RemoveShape
<1>3. To(l, k) # p => Up(p) = p + 1 /\ Entries < p + 1
  BY <1>0, UpIs, SizesAssumption DEF Page
<1> HIDE DEF m, p
<1>4. ASSUME NEW n, n \in Used(m) PROVE Entries < From(m, n)
  BY <1>2, <1>3, <1>4 DEF WholeGone, Edited, From
<1> QED BY <1>4 DEF m, p

LEMMA HarmInit == Init => HarmInv
<1> SUFFICES ASSUME Init PROVE HarmInv OBVIOUS
<1>0. /\ Entries \in Nat /\ Entries >= 2 /\ Pages \in Nat /\ Pages > Entries + 1
      /\ MaxBlocks \in Nat /\ MaxBlocks >= 1
  BY SizesAssumption
<1>1. TypeInv BY TypeInvInit
<1>2. /\ free.first = 0 /\ Used(free) = {0} /\ From(free, 0) = Entries + 1
      /\ To(free, 0) = Pages - 1 /\ After(free, 0) = NULL /\ Before(free, 0) = NULL
  BY DEF Init, Used, From, To, After, Before
<1>3. /\ live = {0, 3}
      /\ table[0] = [i \in Index |-> IF i = 0 THEN 1 ELSE IF i = 1 THEN 2 ELSE Absent]
      /\ table[2] = [i \in Index |-> IF i = 0 THEN Entries ELSE Absent]
      /\ table[3] = [i \in Index |-> IF i = 0 THEN 1 ELSE Absent]
  BY DEF Init
<1>4. \A v \in Virtual : v >= Entries =>
        /\ Phys(3, v) = Absent
        /\ Phys(0, v) = IF v = Entries THEN Entries ELSE Absent
  <2> SUFFICES ASSUME NEW v \in Virtual, v >= Entries
               PROVE  /\ Phys(3, v) = Absent
                      /\ Phys(0, v) = IF v = Entries THEN Entries ELSE Absent
    OBVIOUS
  <2> DEFINE i == v \div Entries
             j == v % Entries
  <2>1. i \in Index /\ j \in Index /\ i # 0 /\ v = Entries * i + j BY FlatIndex
  <2>2. Phys(3, v) = IF table[3][i] = Absent THEN Absent ELSE table[table[3][i]][j]
    BY DEF Phys
  <2>3. Phys(0, v) = IF table[0][i] = Absent THEN Absent ELSE table[table[0][i]][j]
    BY DEF Phys
  <2> HIDE DEF i, j
  <2>4. Phys(3, v) = Absent BY <1>3, <2>1, <2>2
  <2>5. Phys(0, v) = IF i = 1 THEN table[2][j] ELSE Absent
    BY <1>3, <2>1, <2>3 DEF Absent
  <2>6. table[2][j] = IF j = 0 THEN Entries ELSE Absent BY <1>3, <2>1
  <2>7. v = Entries <=> i = 1 /\ j = 0
    <3>1. v = Entries => i = 1 /\ j = 0
      <4>1. SUFFICES ASSUME v = Entries PROVE i = 1 /\ j = 0 OBVIOUS
      <4>2. i \in Nat /\ i >= 1 /\ j \in Nat BY <2>1 DEF Index
      <4>3. i >= 2 => Entries * i >= Entries * 2 BY <1>0, <4>2, SMTT(30)
      <4>4. Entries * i \in Nat BY <1>0, <4>2
      <4>5. ~(i >= 2) BY <1>0, <2>1, <4>1, <4>2, <4>3, <4>4
      <4>6. i = 1 BY <4>2, <4>5
      <4> QED BY <1>0, <2>1, <4>1, <4>2, <4>6
    <3>2. i = 1 /\ j = 0 => v = Entries BY <1>0, <2>1
    <3> QED BY <3>1, <3>2
  <2> QED BY <2>4, <2>5, <2>6, <2>7
<1>5. Dummy BY <1>4, EntriesIs, <1>0 DEF Dummy
<1>6. \A v \in Virtual : v \in Nat /\ (v < Entries => Phys(0, v) = v /\ Phys(3, v) = v)
  <2>1. \A v \in Virtual : v \in Nat BY <1>0 DEF Virtual
  <2> QED BY <1>1, <1>3, <2>1, PhysIs DEF TypeInv
<1>7. \A d \in live : \A v \in Virtual : Phys(d, v) # Absent => Phys(d, v) \in Nat /\ Phys(d, v) <= Entries
  <2> SUFFICES ASSUME NEW d \in live, NEW v \in Virtual, Phys(d, v) # Absent
               PROVE  Phys(d, v) \in Nat /\ Phys(d, v) <= Entries
    OBVIOUS
  <2>1. CASE v < Entries BY <1>0, <1>3, <1>6, <2>1
  <2>2. CASE v >= Entries BY <1>0, <1>3, <1>4, <2>2
  <2> QED BY <1>0, <1>6, <2>1, <2>2
<1>8. \A p \in InUse : p \in Nat /\ p <= Entries BY <1>7, InUseIs
<1>9. Apart BY <1>0, <1>3, <1>4 DEF Apart, Absent
<1>10. Linked(free)
  <2>1. Cardinality(Used(free)) = 1 BY <1>2, FS_Singleton
  <2> QED BY <1>0, <1>2, <2>1 DEF Linked
<1>11. Ranges(free, InUse) BY <1>0, <1>2, <1>8 DEF Ranges
<1>12. Cut(free) BY <1>2 DEF Cut
<1>13. Head BY <1>0, <1>2, <1>8, <1>12 DEF Head
<1>14. HighInv BY <1>0, <1>2, <1>3, <1>4 DEF HighInv
<1>15. SearchEnds /\ LaunchesAloneAreSafe BY DEF Init, SearchEnds, LaunchesAloneAreSafe
<1> QED BY <1>1, <1>5, <1>9, <1>10, <1>11, <1>13, <1>14, <1>15 DEF HarmInv, CalmInv, HeadInv, Calm

\* The first block of the list is there when new_page is called; only after a
\* request by address and a return, an exit or the end of memory it may not be.
LEMMA FirstIsThere ==
  ASSUME HarmInv, fault = "none", free.first # NULL, free.first \notin Used(free)
  PROVE  asked /\ (returned \/ buried \/ ended)
<1>1. asked
  <2> SUFFICES ASSUME ~asked PROVE FALSE BY DEF HarmInv, TypeInv
  <2> QED BY DEF HarmInv, CalmInv, Calm, Linked
<1>2. ASSUME ~returned, ~buried, ~ended PROVE FALSE
  BY <1>2 DEF HarmInv, HeadInv, Head, Cut
<1> QED BY <1>1, <1>2

LEMMA HarmStop ==
  ASSUME HarmInv, fault = "none", NEW why \in Faults \ {"none"}, Stop(why),
         why \in {"off", "loop", "dangling"} => asked /\ (returned \/ buried \/ ended)
  PROVE  HarmInv'
<1>1. /\ fault' = why
      /\ UNCHANGED <<free, table, live, asked, returned, buried, ended, clash>>
  BY DEF Stop
<1>2. Tables' /\ \A d \in live : \A w \in Virtual : Phys(d, w)' = Phys(d, w)
  BY <1>1, NoChangeIs DEF HarmInv, TypeInv
<1>3. TypeInv' BY <1>1, <1>2 DEF HarmInv, TypeInv
<1>4. Dummy' BY <1>2, EntriesIs DEF HarmInv, TypeInv, Tables, Dummy
<1>5. CalmInv' /\ HighInv' /\ HeadInv' BY <1>1 DEF CalmInv, HighInv, HeadInv
<1>6. SearchEnds' /\ LaunchesAloneAreSafe'
  BY <1>1 DEF HarmInv, SearchEnds, LaunchesAloneAreSafe
<1> QED BY <1>3, <1>4, <1>5, <1>6 DEF HarmInv

LEMMA DummyKept ==
  ASSUME TypeInv, Dummy, NEW dir \in Processes, NEW v \in Virtual, NEW x,
         live' = live, Keep \/ OneMapping(dir, v, x)
  PROVE  Dummy'
<1>1. 0 \in live /\ dir # 0 /\ Entries \in Virtual
  BY EntriesIs DEF TypeInv, Tables, Processes
<1> QED BY <1>1 DEF Dummy, Keep, OneMapping

LEMMA HarmAny ==
  ASSUME HarmInv, NEW dir \in Processes, NewPageAny(dir)
  PROVE  HarmInv'
<1>0. /\ fault = "none" /\ dir \in live /\ TypeInv /\ Tables /\ free \in Lists /\ Dummy
      /\ CalmInv /\ HighInv /\ HeadInv /\ SearchEnds /\ LaunchesAloneAreSafe
      /\ {asked, returned, buried, ended, clash} \subseteq BOOLEAN
  BY DEF NewPageAny, HarmInv, TypeInv, Processes
<1>1. CASE free.first = NULL
  <2>1. Stop("empty") BY <1>1 DEF NewPageAny
  <2> QED BY <1>0, <2>1, HarmStop DEF Faults
<1>2. CASE free.first # NULL /\ free.first \notin Used(free)
  <2>1. Stop("dangling") BY <1>2 DEF NewPageAny
  <2> QED BY <1>0, <1>2, <2>1, HarmStop, FirstIsThere DEF Faults
<1>3. CASE free.first # NULL /\ free.first \in Used(free)
  <2> DEFINE page == From(free, free.first)
  <2>1. /\ MayMap(dir) /\ NewPage(page, dir) /\ live' = live
        /\ clash' = (clash \/ page \in InUse) /\ ended' = (ended \/ page = Pages - 1)
        /\ UNCHANGED <<asked, returned, buried>>
    BY <1>3 DEF NewPageAny, AnyPage, From
  <2>2. page \in Page BY <1>0, <1>3, ListType
  <2>3. TypeInv'
    <3>1. AskAny BY DEF AskAny
    <3> QED BY <1>0, <3>1, TypeInvStep DEF Next
  <2>4. \/ /\ fault' \in {"exit", "full"} /\ Keep
        \/ /\ ~RemoveFails(free, free.first, page)
           /\ free' = Remove(free, free.first, page) /\ fault' = "none"
           /\ \E v \in Virtual : /\ v >= Entries /\ Phys(dir, v) = Absent
                                 /\ OneMapping(dir, v, page)
    BY <1>0, <2>1, <2>2, NewPageIs DEF Keep
  <2>5. InUse \subseteq Page BY <1>0, InUseIs
  <2>6. SearchEnds' BY <1>0, <2>4 DEF SearchEnds
  <2>7. LaunchesAloneAreSafe'
    <3>1. ASSUME page \in InUse, ~buried, ~(asked /\ (returned \/ ended')) PROVE FALSE
      <4>1. CASE ~asked
        <5>1. Calm(free, InUse) /\ \A n \in Used(free) : Entries < From(free, n)
          BY <1>0, <3>1, <4>1 DEF CalmInv, HighInv
        <5>2. page >= Entries => page \notin InUse
          BY <1>0, <1>3, <2>5, <5>1, RemoveCalm
        <5>3. page >= Entries BY <1>3, <2>2, <5>1, SizesAssumption DEF Page
        <5> QED BY <3>1, <5>2, <5>3
      <4>2. CASE asked
        <5>1. ~returned /\ ~ended /\ ~buried BY <2>1, <3>1, <4>2
        <5>2. page < page BY <1>0, <3>1, <5>1 DEF HeadInv, Head
        <5> QED BY <2>2, <5>2, SizesAssumption DEF Page
      <4> QED BY <4>1, <4>2
    <3> HIDE DEF page
    <3> QED BY <1>0, <2>1, <3>1 DEF LaunchesAloneAreSafe
  <2>8. CASE fault' \in {"exit", "full"} /\ Keep
    <3>1. CalmInv' /\ HighInv' /\ HeadInv' BY <2>8 DEF CalmInv, HighInv, HeadInv
    <3>2. Dummy' BY <1>0, <2>1, <2>8, EntriesIs, DummyKept
    <3> QED BY <2>3, <2>6, <2>7, <3>1, <3>2 DEF HarmInv
  <2>9. ASSUME ~RemoveFails(free, free.first, page),
               free' = Remove(free, free.first, page), fault' = "none",
               NEW v \in Virtual, v >= Entries, Phys(dir, v) = Absent,
               OneMapping(dir, v, page)
        PROVE  HarmInv'
    <3>1. InUse' = InUse \cup {page} BY <1>0, <2>1, <2>2, <2>9, UseGrows
    <3>2. Dummy' BY <1>0, <2>1, <2>9, DummyKept
    <3>3. ASSUME ~asked' PROVE Calm(free, InUse)' /\ Apart'
      <4>1. Calm(free, InUse) /\ Apart BY <1>0, <2>1, <3>3 DEF CalmInv
      <4>2. InUse' \in SUBSET Page /\ InUse' \subseteq InUse \cup {page} BY <2>2, <2>5, <3>1
      <4>3. /\ page >= Entries => page \notin InUse
            /\ Calm(Remove(free, free.first, page), InUse')
        BY <1>0, <1>3, <2>5, <4>1, <4>2, RemoveCalm
      <4>4. Apart' BY <1>0, <2>1, <2>2, <2>9, <4>1, <4>3, ApartGrows
      <4> QED BY <2>9, <4>3, <4>4
    <3>4. CalmInv' BY <3>3 DEF CalmInv
    <3>5. ASSUME ~asked', ~buried'
          PROVE  (/\ \A n \in Used(free) : Entries < From(free, n)
                  /\ \A d \in live : \A w \in Virtual :
                       w >= Entries /\ Phys(d, w) # Absent => Phys(d, w) >= Entries)'
      <4>1. /\ \A n \in Used(free) : Entries < From(free, n)
            /\ \A d \in live : \A w \in Virtual :
                 w >= Entries /\ Phys(d, w) # Absent => Phys(d, w) >= Entries
        BY <1>0, <2>1, <3>5 DEF HighInv
      <4>2. From(free, free.first) <= To(free, free.first)
        BY <1>0, <1>3, <2>1, <3>5 DEF CalmInv, Calm, Ranges
      <4>3. \A n \in Used(free') : Entries < From(free', n)
        BY <1>0, <1>3, <2>9, <4>1, <4>2, RemoveHigh
      <4>4. page >= Entries BY <1>3, <2>2, <4>1, SizesAssumption DEF Page
      <4>5. \A d \in live : \A w \in Virtual :
              w >= Entries /\ Phys(d, w)' # Absent => Phys(d, w)' >= Entries
        <5> HIDE DEF page
        <5> QED BY <2>9, <4>1, <4>4 DEF OneMapping
      <4> QED BY <2>1, <4>3, <4>5
    <3>6. HighInv' BY <3>5 DEF HighInv
    <3>7. ASSUME ~returned', ~ended', ~buried' PROVE Head'
      <4>1. Cut(free) /\ (\A p \in InUse : p < page) /\ page # Pages - 1
        BY <1>0, <2>1, <3>7 DEF HeadInv, Head
      <4>2. Cut(free') /\ From(free', free'.first) = page + 1
        BY <1>0, <2>9, <4>1, RemoveStart
      <4>3. \A p \in InUse' : p < page + 1
        BY <2>2, <2>5, <3>1, <4>1, SizesAssumption DEF Page
      <4> QED BY <4>2, <4>3 DEF Head
    <3>8. HeadInv' BY <3>7 DEF HeadInv
    <3> QED BY <2>3, <2>6, <2>7, <3>2, <3>4, <3>6, <3>8 DEF HarmInv
  <2> QED BY <2>4, <2>8, <2>9
<1> QED BY <1>1, <1>2, <1>3

LEMMA HarmAt ==
  ASSUME HarmInv, NEW mine \in Processes, NEW dir \in Processes, NEW x \in Virtual,
         mine # dir, x >= Entries, Phys(mine, x) # Absent, NewPageAt(Phys(mine, x), dir)
  PROVE  HarmInv'
<1> DEFINE page == Phys(mine, x)
<1>0. /\ fault = "none" /\ dir \in live /\ mine \in live /\ TypeInv /\ Tables /\ free \in Lists
      /\ Dummy /\ HeadInv /\ SearchEnds /\ LaunchesAloneAreSafe
      /\ {asked, returned, buried, ended, clash} \subseteq BOOLEAN
  BY DEF NewPageAt, HarmInv, TypeInv, Processes
<1>1. page \in Page /\ page \in InUse BY <1>0, PhysIs, InUseIs
<1>2. AskMine BY DEF AskMine
<1> HIDE DEF page
<1>3. NewPageAt(page, dir) BY DEF page
<1>4. CASE free.first = NULL
  <2>1. Stop("empty") BY <1>3, <1>4 DEF NewPageAt
  <2> QED BY <1>0, <2>1, HarmStop DEF Faults
<1>5. CASE free.first # NULL /\ free.first \notin Used(free)
  <2>1. Stop("dangling") BY <1>3, <1>5 DEF NewPageAt
  <2> QED BY <1>0, <1>5, <2>1, HarmStop, FirstIsThere DEF Faults
<1>6. CASE free.first # NULL /\ free.first \in Used(free)
  <2>1. /\ MayMap(dir) /\ NewPage(page, dir) /\ live' = live /\ asked' = TRUE
        /\ UNCHANGED <<returned, buried, ended, clash>>
    BY <1>3, <1>6 DEF NewPageAt
  <2>2. TypeInv' BY <1>0, <1>2, TypeInvStep DEF Next
  <2>3. \/ /\ fault' \in {"exit", "full"} /\ Keep
        \/ /\ ~RemoveFails(free, free.first, page)
           /\ free' = Remove(free, free.first, page) /\ fault' = "none"
           /\ \E v \in Virtual : Phys(dir, v) = Absent /\ OneMapping(dir, v, page)
    BY <1>0, <1>1, <2>1, NewPageIs DEF Keep
  <2>4. SearchEnds' BY <1>0, <2>3 DEF SearchEnds
  <2>5. LaunchesAloneAreSafe' BY <1>0, <2>1 DEF LaunchesAloneAreSafe
  <2>6. CalmInv' /\ HighInv' BY <2>1 DEF CalmInv, HighInv
  <2>7. Dummy' BY <1>0, <2>1, <2>3, EntriesIs, DummyKept
  <2>8. CASE fault' \in {"exit", "full"}
    <3>1. HeadInv' BY <2>8 DEF HeadInv
    <3> QED BY <2>2, <2>4, <2>5, <2>6, <2>7, <3>1 DEF HarmInv
  <2>9. ASSUME ~RemoveFails(free, free.first, page),
               free' = Remove(free, free.first, page),
               NEW v \in Virtual, Phys(dir, v) = Absent, OneMapping(dir, v, page)
        PROVE  HarmInv'
    <3>1. InUse' = InUse BY <1>0, <1>1, <2>1, <2>9, UseGrows
    <3>2. ASSUME ~returned', ~ended', ~buried' PROVE Head'
      <4>1. Cut(free) /\ \A p \in InUse : p < From(free, free.first)
        BY <1>0, <2>1, <3>2 DEF HeadInv, Head
      <4>2. Cut(free') /\ From(free', free'.first) = From(free, free.first)
        BY <1>0, <1>1, <2>9, <4>1, RemoveBelow
      <4> QED BY <3>1, <4>1, <4>2 DEF Head
    <3>3. HeadInv' BY <3>2 DEF HeadInv
    <3> QED BY <2>2, <2>4, <2>5, <2>6, <2>7, <3>3 DEF HarmInv
  <2> QED BY <2>3, <2>8, <2>9
<1> QED BY <1>4, <1>5, <1>6

LEMMA HarmReturn ==
  ASSUME HarmInv, NEW dir \in Processes, NEW v \in Virtual, v >= Entries, FreePage(v, dir)
  PROVE  HarmInv'
<1> DEFINE page == Phys(dir, v)
           why == FillFault(free, page)
<1>0. /\ fault = "none" /\ dir \in live /\ TypeInv /\ Tables /\ free \in Lists
      /\ Dummy /\ CalmInv /\ HighInv /\ HeadInv /\ SearchEnds /\ LaunchesAloneAreSafe
      /\ page # Absent /\ GiveBack
      /\ {asked, returned, buried, ended, clash} \subseteq BOOLEAN
  BY DEF FreePage, HarmInv, TypeInv, Processes, GiveBack
<1>1. page \in Page /\ page \in InUse /\ InUse \in SUBSET Page BY <1>0, PhysIs, InUseIs
<1>2. why \in Faults BY DEF FillFault, Faults
<1>3. ~asked => /\ Calm(free, InUse) /\ Apart /\ page # Entries
                /\ (page >= Entries => v >= Entries)
  <2> SUFFICES ASSUME ~asked PROVE Calm(free, InUse) /\ Apart /\ page # Entries OBVIOUS
  <2>1. Calm(free, InUse) /\ Apart BY <1>0 DEF CalmInv
  <2>2. page # Entries BY <1>0, <2>1, OwnPage, SizesAssumption
  <2> QED BY <2>1, <2>2
<1>4. ~asked => why \in {"none", "empty", "exit"}
  <2> SUFFICES ASSUME ~asked PROVE why \in {"none", "empty", "exit"} OBVIOUS
  <2>1. {} \in SUBSET InUse /\ page \notin {} OBVIOUS
  <2> HIDE DEF page
  <2> QED BY <1>0, <1>1, <1>3, <2>1, FillCalm
<1>5. ~returned /\ ~ended /\ ~buried => why \in {"none", "exit"}
  BY <1>0, <1>1, FillBelow DEF HeadInv, Head
<1>6. \/ why # "none" /\ Stop(why)
      \/ /\ why = "none" /\ free' = Fill(free, page) /\ returned' /\ live' = live
         /\ UNCHANGED <<asked, buried, ended, clash, fault>> /\ OneMapping(dir, v, Absent)
  BY <1>0, FreePageIs
<1>7. CASE why # "none" /\ Stop(why)
  <2>1. why \in {"off", "loop", "dangling"} => asked /\ (returned \/ buried \/ ended)
    BY <1>0, <1>4, <1>5
  <2> HIDE DEF why
  <2> QED BY <1>0, <1>2, <1>7, <2>1, HarmStop
<1>8. CASE /\ why = "none" /\ free' = Fill(free, page) /\ returned' /\ live' = live
           /\ UNCHANGED <<asked, buried, ended, clash, fault>> /\ OneMapping(dir, v, Absent)
  <2>1. TypeInv' BY <1>0, TypeInvStep DEF Next
  <2>2. Dummy' BY <1>0, <1>8, DummyKept
  <2>3. InUse' \subseteq InUse BY <1>0, <1>8, UseShrinks
  <2>4. ASSUME ~asked' PROVE Calm(free, InUse)' /\ Apart'
    <3>1. ~asked BY <1>8, <2>4
    <3>2. Apart' /\ (page >= Entries => page \notin InUse')
      BY <1>0, <1>3, <1>8, <3>1, ApartShrinks
    <3>3. Calm(Fill(free, page), InUse')
      <4> HIDE DEF page
      <4> QED BY <1>0, <1>1, <1>3, <1>8, <2>3, <3>1, <3>2, FillCalm
    <3> QED BY <1>8, <3>2, <3>3
  <2>5. CalmInv' BY <2>4 DEF CalmInv
  <2>6. ASSUME ~asked', ~buried'
        PROVE  (/\ \A n \in Used(free) : Entries < From(free, n)
                /\ \A d \in live : \A w \in Virtual :
                     w >= Entries /\ Phys(d, w) # Absent => Phys(d, w) >= Entries)'
    <3>1. /\ \A n \in Used(free) : Entries < From(free, n)
          /\ \A d \in live : \A w \in Virtual :
               w >= Entries /\ Phys(d, w) # Absent => Phys(d, w) >= Entries
      BY <1>0, <1>8, <2>6 DEF HighInv
    <3>2. Entries < page
      <4>1. page >= Entries /\ page # Entries BY <1>0, <1>3, <1>8, <2>6, <3>1
      <4> HIDE DEF page
      <4> QED BY <1>1, <4>1, SizesAssumption DEF Page
    <3>3. \A n \in Used(free') : Entries < From(free', n)
      <4> HIDE DEF page
      <4> QED BY <1>0, <1>1, <1>8, <3>1, <3>2, FillHigh
    <3>4. \A d \in live : \A w \in Virtual :
            w >= Entries /\ Phys(d, w)' # Absent => Phys(d, w)' >= Entries
      BY <1>8, <3>1 DEF OneMapping
    <3> QED BY <1>8, <3>3, <3>4
  <2>7. HighInv' BY <2>6 DEF HighInv
  <2>8. HeadInv' /\ SearchEnds' BY <1>0, <1>8 DEF HeadInv, SearchEnds
  <2>9. LaunchesAloneAreSafe' BY <1>0, <1>8 DEF LaunchesAloneAreSafe
  <2> QED BY <2>1, <2>2, <2>5, <2>7, <2>8, <2>9 DEF HarmInv
<1> QED BY <1>6, <1>7, <1>8

LEMMA HarmCopy == HarmInv /\ SoftCopyTable => HarmInv'
<1> SUFFICES ASSUME HarmInv, SoftCopyTable PROVE HarmInv' OBVIOUS
<1>0. /\ TypeInv /\ Tables /\ Dummy /\ CalmInv /\ HighInv /\ HeadInv /\ SearchEnds
      /\ LaunchesAloneAreSafe /\ 0 \in live
      /\ UNCHANGED <<free, asked, returned, buried, ended, clash, fault>>
  BY DEF HarmInv, TypeInv, SoftCopyTable, Tables
<1>1. TypeInv' BY <1>0, TypeInvStep DEF Next
<1>2. PICK new : /\ new \notin live /\ live' = live \cup {new}
                 /\ \A w \in Virtual : Phys(new, w)' = IF w < Entries THEN w ELSE Absent
  BY <1>0, CopyIs
<1>3. \A d \in live : \A w \in Virtual : Phys(d, w)' = Phys(d, w) BY <1>0, CopyIs
<1>4. InUse' = InUse BY <1>0, UseKept
<1>5. Dummy' BY <1>0, <1>3, EntriesIs DEF Dummy
<1>6. CalmInv' BY <1>0, <1>4, ApartKept DEF CalmInv
<1>7. ASSUME fault' = "none", ~asked', ~buried'
      PROVE  (/\ \A n \in Used(free) : Entries < From(free, n)
              /\ \A d \in live : \A w \in Virtual :
                   w >= Entries /\ Phys(d, w) # Absent => Phys(d, w) >= Entries)'
  <2>1. /\ \A n \in Used(free) : Entries < From(free, n)
        /\ \A d \in live : \A w \in Virtual :
             w >= Entries /\ Phys(d, w) # Absent => Phys(d, w) >= Entries
    BY <1>0, <1>7 DEF HighInv
  <2>2. \A w \in Virtual : w >= Entries => ~(w < Entries)
    BY SizesAssumption DEF Virtual
  <2> QED BY <1>0, <1>2, <1>3, <2>1, <2>2
<1>8. HighInv' BY <1>7 DEF HighInv
<1>9. HeadInv' BY <1>0, <1>4 DEF HeadInv, Head
<1>10. SearchEnds' /\ LaunchesAloneAreSafe' BY <1>0 DEF SearchEnds, LaunchesAloneAreSafe
<1> QED BY <1>1, <1>5, <1>6, <1>8, <1>9, <1>10 DEF HarmInv

LEMMA HarmExit ==
  ASSUME HarmInv, NEW dir \in Processes \ {3}, FreeTable(dir)
  PROVE  HarmInv'
<1>0. /\ TypeInv /\ Tables /\ Dummy /\ CalmInv /\ free \in Lists /\ dir \in live /\ dir # 0
      /\ 0 \in live /\ fault = "none" /\ buried' = TRUE
      /\ table' = table /\ live' = live \ {dir} /\ asked' = asked /\ clash' = clash
      /\ {asked, returned, buried, ended, clash} \subseteq BOOLEAN
  BY DEF HarmInv, TypeInv, FreeTable, Processes, Tables
<1>1. TypeInv'
  <2>1. Exited BY DEF Exited
  <2> QED BY <1>0, <2>1, TypeInvStep DEF Next
<1>2. PICK given : /\ Gives(given, dir)
                   /\ free' = given[Entries * Entries].list
                   /\ fault' = given[Entries * Entries].fault
  BY <1>0, FreeTableIs
<1>3. \A d \in live' : \A w \in Virtual : Phys(d, w)' = Phys(d, w)
  BY <1>0, ExitIs
<1>4. Dummy' BY <1>0, <1>3, EntriesIs DEF Dummy
<1>5. ASSUME ~asked
      PROVE  /\ fault' \in {"none", "empty", "exit"}
             /\ fault' = "none" => Calm(free, InUse)' /\ Apart'
  <2>1. Calm(free, InUse) /\ Apart BY <1>0, <1>5 DEF CalmInv
  <2>2. Apart' BY <1>0, <1>3, <2>1, ApartKept DEF Keep
  <2>3. /\ fault' \in {"none", "empty", "exit"}
        /\ fault' = "none" => Calm(free', InUse')
    BY <1>0, <1>2, <2>1, GivesCalm
  <2> QED BY <2>2, <2>3
<1>6. CalmInv' BY <1>0, <1>5 DEF CalmInv
<1>7. HighInv' /\ HeadInv' BY <1>0 DEF HighInv, HeadInv
<1>8. SearchEnds' BY <1>0, <1>5 DEF SearchEnds
<1>9. LaunchesAloneAreSafe' BY <1>0 DEF LaunchesAloneAreSafe
<1> QED BY <1>1, <1>4, <1>6, <1>7, <1>8, <1>9 DEF HarmInv

LEMMA HarmStep == HarmInv /\ [Next]_vars => HarmInv'
<1> SUFFICES ASSUME HarmInv, [Next]_vars PROVE HarmInv' OBVIOUS
<1>1. CASE AskAny BY <1>1, HarmAny DEF AskAny
<1>2. CASE AskMine BY <1>2, HarmAt DEF AskMine
<1>3. CASE GiveBack BY <1>3, HarmReturn DEF GiveBack
<1>4. CASE SoftCopyTable BY <1>4, HarmCopy
<1>5. CASE Exited BY <1>5, HarmExit DEF Exited
<1>6. CASE UNCHANGED vars
  <2>1. /\ TypeInv /\ Tables /\ 0 \in live
        /\ UNCHANGED <<free, table, live, asked, returned, buried, ended, clash, fault>>
    BY <1>6 DEF HarmInv, TypeInv, Tables, vars
  <2>2. TypeInv' BY <2>1, TypeInvStep
  <2>3. \A d \in live : \A w \in Virtual : Phys(d, w)' = Phys(d, w) BY <2>1, NoChangeIs
  <2>4. InUse' = InUse /\ (Apart => Apart') BY <2>1, <2>3, UseKept, ApartKept DEF Keep
  <2>5. Dummy' BY <2>1, <2>3, EntriesIs DEF HarmInv, Dummy
  <2>6. CalmInv' /\ HeadInv' BY <2>1, <2>4 DEF HarmInv, CalmInv, HeadInv, Head
  <2>7. HighInv' BY <2>1, <2>3 DEF HarmInv, HighInv
  <2>8. SearchEnds' /\ LaunchesAloneAreSafe'
    BY <2>1 DEF HarmInv, SearchEnds, LaunchesAloneAreSafe
  <2> QED BY <2>2, <2>5, <2>6, <2>7, <2>8 DEF HarmInv
<1> QED BY <1>1, <1>2, <1>3, <1>4, <1>5, <1>6 DEF Next

\* The search of pager_fill does not leave the list, and does not go round in
\* it, without a request by address and, in addition, a return, an exit or the
\* end of memory.
THEOREM SearchesEnd == Spec => []SearchEnds
<1>1. HarmInv => SearchEnds BY DEF HarmInv
<1> QED BY <1>1, HarmInit, HarmStep, PTL DEF Spec

\* A launch alone never makes new_page hand out a page that is in use.
THEOREM LaunchesDoNoHarm == Spec => []LaunchesAloneAreSafe
<1>1. HarmInv => LaunchesAloneAreSafe BY DEF HarmInv
<1> QED BY <1>1, HarmInit, HarmStep, PTL DEF Spec

-----------------------------------------------------------------------------
(* The list and the tables.                                                *)

Sorted(l) == \A n \in Used(l) : After(l, n) # NULL => To(l, n) < From(l, After(l, n))
On(l) == {p \in Page : \E n \in Used(l) : From(l, n) <= p /\ p <= To(l, n)}

LEMMA RemoveExact ==
  ASSUME NEW l \in Lists, NEW U \in SUBSET Page, Calm(l, U), l.first # NULL, Sorted(l),
         \A n \in Used(l) : Entries < From(l, n)
  PROVE  LET p == From(l, l.first)
             m == Remove(l, l.first, p)
         IN  Sorted(m) /\ On(m) = On(l) \ {p}
<1> DEFINE n == l.first
           p == From(l, n)
           m == Remove(l, n, p)
<1>0. /\ Entries \in Nat /\ Pages \in Nat /\ Page \subseteq Nat
      /\ \A k \in Used(l) : /\ From(l, k) \in Nat /\ To(l, k) \in Nat /\ To(l, k) \in Page
                            /\ From(l, k) <= To(l, k)
      /\ n \in Used(l) /\ p \in Page /\ NULL \notin Used(l)
  BY ListType, SizesAssumption DEF Page, NULL, Calm, Linked, Ranges
<1>1. ~RemoveFails(l, n, p) BY DEF RemoveFails, From
<1>2. \A k \in Used(l) \ {n} : ~(From(l, k) <= p /\ p <= To(l, k))
  BY <1>0 DEF Calm, Ranges
<1>3. \A k \in Used(l) : After(l, k) # NULL => After(l, k) \in Used(l) /\ After(l, k) # n
  BY <1>0 DEF Calm, Linked
<1>4. \/ To(l, n) = p /\ WholeGone(m, l, n)
      \/ /\ To(l, n) # p
         /\ Edited(m, l, n, Up(p), To(l, n), After(l, n), Before(l, n))
  BY <1>0, <1>1, RemoveShape
<1> HIDE DEF m, n
<1>5. p = From(l, n) OBVIOUS
<1> HIDE DEF p
<1>6. ASSUME To(l, n) = p, WholeGone(m, l, n)
      PROVE  Sorted(m) /\ On(m) = On(l) \ {p}
  <2>1. /\ Used(m) = Used(l) \ {n}
        /\ \A k \in Used(m) : /\ From(m, k) = From(l, k) /\ To(m, k) = To(l, k)
                              /\ After(m, k) = After(l, k)
    BY <1>6 DEF WholeGone
  <2>2. Sorted(m) BY <1>3, <2>1 DEF Sorted
  <2>3. On(m) = On(l) \ {p}
    <3>1. ASSUME NEW q \in Page PROVE q \in On(m) <=> q \in On(l) /\ q # p
      <4>1. q \in On(m) <=> \E k \in Used(l) \ {n} : From(l, k) <= q /\ q <= To(l, k)
        BY <2>1 DEF On
      <4>2. From(l, n) <= q /\ q <= To(l, n) <=> q = p BY <1>0, <1>5, <1>6
      <4> QED BY <1>0, <1>2, <4>1, <4>2 DEF On
    <3> QED BY <3>1 DEF On
  <2> QED BY <2>2, <2>3
<1>7. ASSUME To(l, n) # p, Edited(m, l, n, Up(p), To(l, n), After(l, n), Before(l, n))
      PROVE  Sorted(m) /\ On(m) = On(l) \ {p}
  <2>1. p < To(l, n) /\ p \in Nat BY <1>0, <1>5, <1>7
  <2>2. Up(p) = p + 1 BY <1>0, <2>1, UpIs DEF Page
  <2>3. /\ Used(m) = Used(l)
        /\ \A k \in Used(l) : /\ From(m, k) = IF k = n THEN p + 1 ELSE From(l, k)
                              /\ To(m, k) = To(l, k) /\ After(m, k) = After(l, k)
    BY <1>7, <2>2 DEF Edited, From, To, After
  <2>4. Sorted(m) BY <1>3, <2>3 DEF Sorted
  <2>5. On(m) = On(l) \ {p}
    <3>1. ASSUME NEW q \in Page PROVE q \in On(m) <=> q \in On(l) /\ q # p
      <4>1. From(m, n) <= q /\ q <= To(m, n) <=> From(l, n) <= q /\ q <= To(l, n) /\ q # p
        BY <1>0, <1>5, <2>1, <2>3
      <4>2. \A k \in Used(l) \ {n} :
              From(m, k) <= q /\ q <= To(m, k) <=> From(l, k) <= q /\ q <= To(l, k) /\ q # p
        BY <1>2, <2>3
      <4> QED BY <1>0, <2>3, <4>1, <4>2 DEF On
    <3> QED BY <3>1 DEF On
  <2> QED BY <2>4, <2>5
<1>8. Sorted(m) /\ On(m) = On(l) \ {p} BY <1>4, <1>6, <1>7
<1> QED BY <1>8 DEF m, n, p

LEMMA FillExact ==
  ASSUME NEW l \in Lists, NEW U \in SUBSET Page, Calm(l, U), Sorted(l),
         NEW p \in U, Entries < p, FillFault(l, p) = "none"
  PROVE  LET m == Fill(l, p) IN Sorted(m) /\ On(m) = On(l) \cup {p}
<1> DEFINE after == Behind(l, p)
           before == Before(l, after)
           m == Fill(l, p)
<1>0. /\ Entries \in Nat /\ Pages \in Nat /\ Page \subseteq Nat /\ p \in Page /\ p \in Nat
      /\ \A n \in Used(l) : /\ From(l, n) \in Nat /\ To(l, n) \in Nat
                            /\ From(l, n) \in Page /\ To(l, n) \in Page
                            /\ From(l, n) <= To(l, n)
  BY ListType, SizesAssumption DEF Page, Calm, Ranges
<1>1. /\ l.first # NULL /\ after \in Used(l) /\ From(l, after) >= p
      /\ before \in Used(l) \cup {NULL} /\ (before # NULL => From(l, before) < p)
      /\ \/ JoinsFront(m, l, p, before)
         \/ JoinsBehind(m, l, p, after)
         \/ \E f : Stands(m, l, p, before, after, f)
  <2>1. \A n \in Used(l) : After(l, n) = NULL => p <= From(l, n)
    BY <1>0 DEF Calm, Ranges
  <2>2. l.first # NULL => (before # NULL => From(l, before) < p)
    BY <1>0, <2>1, SearchStops DEF Calm
  <2> QED BY <2>2, FillShape
<1>2. \A n \in Used(l) : ~(From(l, n) <= p /\ p <= To(l, n))
  BY <1>0 DEF Calm, Ranges
<1>3. /\ NULL \notin Used(l)
      /\ before # NULL => After(l, before) = after
      /\ \A n \in Used(l) :
           /\ After(l, n) # NULL => After(l, n) \in Used(l)
           /\ After(l, n) = after => n = before
           /\ before # NULL /\ After(l, n) = before => n # before /\ n # after
  <2>1. NULL \notin Used(l) BY ListType, SizesAssumption DEF NULL
  <2> HIDE DEF after
  <2>2. /\ before # NULL => After(l, before) = after
        /\ \A n \in Used(l) :
             /\ After(l, n) # NULL => After(l, n) \in Used(l)
             /\ After(l, n) = after => n = before
    BY <1>1, <2>1 DEF Calm, Linked
  <2> HIDE DEF before
  <2>3. \A n \in Used(l) : After(l, n) # NULL => To(l, n) < From(l, After(l, n))
    BY DEF Sorted
  <2>4. ASSUME before # NULL, NEW n \in Used(l), After(l, n) = before
        PROVE  n # before /\ n # after
    <3>1. From(l, n) < From(l, before) BY <1>0, <1>1, <2>1, <2>3, <2>4
    <3>2. From(l, before) < From(l, after) BY <1>0, <1>1, <2>1, <2>4
    <3> QED BY <1>0, <1>1, <2>4, <3>1, <3>2
  <2> QED BY <2>1, <2>2, <2>4
<1> HIDE DEF m, after, before
<1>4. From(l, after) > p BY <1>0, <1>1, <1>2
<1>5. before # NULL => To(l, before) < p BY <1>0, <1>1, <1>2
<1>6. ASSUME JoinsFront(m, l, p, before) PROVE Sorted(m) /\ On(m) = On(l) \cup {p}
  <2>1. /\ before \in Used(l) /\ Up(To(l, before)) = p /\ Used(m) = Used(l)
        /\ \A a \in Used(l) : /\ From(m, a) = From(l, a) /\ After(m, a) = After(l, a)
                              /\ To(m, a) = IF a = before THEN p ELSE To(l, a)
    BY <1>6 DEF JoinsFront, Edited, From, To, After
  <2>2. before # NULL BY <1>3, <2>1
  <2>3. p = To(l, before) + 1
    BY <1>0, <1>5, <2>1, <2>2, UpIs DEF Page
  <2>4. Sorted(m)
    <3> SUFFICES ASSUME NEW n \in Used(m), After(m, n) # NULL
                 PROVE  To(m, n) < From(m, After(m, n))
      BY DEF Sorted
    <3>1. After(l, n) # NULL /\ After(l, n) \in Used(l) /\ To(l, n) < From(l, After(l, n))
      BY <1>3, <2>1 DEF Sorted
    <3>2. CASE n = before BY <1>3, <1>4, <2>1, <2>2, <3>1, <3>2
    <3>3. CASE n # before BY <2>1, <3>1, <3>3
    <3> QED BY <3>2, <3>3
  <2>5. ASSUME NEW q \in Page PROVE q \in On(m) <=> q \in On(l) \/ q = p
    <3>1. From(m, before) <= q /\ q <= To(m, before)
            <=> (From(l, before) <= q /\ q <= To(l, before)) \/ q = p
      BY <1>0, <2>1, <2>3
    <3>2. \A k \in Used(l) : k # before =>
            (From(m, k) <= q /\ q <= To(m, k) <=> From(l, k) <= q /\ q <= To(l, k))
      BY <2>1
    <3> QED BY <2>1, <3>1, <3>2 DEF On
  <2>6. On(m) = On(l) \cup {p} BY <1>0, <2>5 DEF On
  <2> QED BY <2>4, <2>6
<1>7. ASSUME JoinsBehind(m, l, p, after) PROVE Sorted(m) /\ On(m) = On(l) \cup {p}
  <2>1. /\ Down(From(l, after)) = p /\ Used(m) = Used(l)
        /\ \A a \in Used(l) : /\ To(m, a) = To(l, a) /\ After(m, a) = After(l, a)
                              /\ From(m, a) = IF a = after THEN p ELSE From(l, a)
    BY <1>7 DEF JoinsBehind, Edited, From, To, After
  <2>2. p = From(l, after) - 1 BY <1>0, <1>1, <1>4, <2>1, DownIs
  <2>3. Sorted(m)
    <3> SUFFICES ASSUME NEW n \in Used(m), After(m, n) # NULL
                 PROVE  To(m, n) < From(m, After(m, n))
      BY DEF Sorted
    <3>1. After(l, n) # NULL /\ After(l, n) \in Used(l) /\ To(l, n) < From(l, After(l, n))
      BY <1>3, <2>1 DEF Sorted
    <3>2. CASE After(l, n) = after
      <4>1. n = before /\ before # NULL BY <1>3, <2>1, <3>2
      <4> QED BY <1>1, <1>5, <2>1, <3>2, <4>1
    <3>3. CASE After(l, n) # after BY <2>1, <3>1, <3>3
    <3> QED BY <3>2, <3>3
  <2>5. ASSUME NEW q \in Page PROVE q \in On(m) <=> q \in On(l) \/ q = p
    <3>1. From(m, after) <= q /\ q <= To(m, after)
            <=> (From(l, after) <= q /\ q <= To(l, after)) \/ q = p
      BY <1>0, <1>1, <2>1, <2>2
    <3>2. \A k \in Used(l) : k # after =>
            (From(m, k) <= q /\ q <= To(m, k) <=> From(l, k) <= q /\ q <= To(l, k))
      BY <2>1
    <3> QED BY <1>1, <2>1, <3>1, <3>2 DEF On
  <2>6. On(m) = On(l) \cup {p} BY <1>0, <2>5 DEF On
  <2> QED BY <2>3, <2>6
<1>8. ASSUME NEW f, Stands(m, l, p, before, after, f)
      PROVE  Sorted(m) /\ On(m) = On(l) \cup {p}
  <2>1. /\ f \notin Used(l) /\ Used(m) = Used(l) \cup {f}
        /\ From(m, f) = p /\ To(m, f) = p /\ After(m, f) = after
        /\ \A a \in Used(l) : /\ From(m, a) = From(l, a) /\ To(m, a) = To(l, a)
                              /\ After(m, a) = IF a = before THEN f ELSE After(l, a)
    BY <1>8 DEF Stands
  <2>2. Sorted(m)
    <3> SUFFICES ASSUME NEW n \in Used(m), After(m, n) # NULL
                 PROVE  To(m, n) < From(m, After(m, n))
      BY DEF Sorted
    <3>1. CASE n = f BY <1>0, <1>1, <1>4, <2>1, <3>1
    <3>2. CASE n = before /\ n # f BY <1>3, <1>5, <2>1, <3>2
    <3>3. CASE n # f /\ n # before
      <4>1. n \in Used(l) /\ After(l, n) # NULL /\ After(m, n) = After(l, n)
        BY <2>1, <3>3
      <4>2. After(l, n) \in Used(l) /\ To(l, n) < From(l, After(l, n))
        BY <1>3, <4>1 DEF Sorted
      <4> QED BY <2>1, <4>1, <4>2
    <3> QED BY <3>1, <3>2, <3>3
  <2>3. ASSUME NEW q \in Page PROVE q \in On(m) <=> q \in On(l) \/ q = p
    <3>1. From(m, f) <= q /\ q <= To(m, f) <=> q = p BY <1>0, <2>1
    <3> QED BY <2>1, <3>1 DEF On
  <2>4. On(m) = On(l) \cup {p} BY <1>0, <2>3 DEF On
  <2> QED BY <2>2, <2>4
<1>9. Sorted(m) /\ On(m) = On(l) \cup {p} BY <1>1, <1>6, <1>7, <1>8
<1> QED BY <1>9 DEF m

LEMMA ChainIs ==
  ASSUME free \in Lists
  PROVE  /\ Chain[0] = free.first
         /\ \A k \in 0..(MaxBlocks - 1) :
              Chain[k + 1] = IF Chain[k] \in Used(free) THEN After(free, Chain[k]) ELSE NULL
<1> DEFINE body(f) == [k \in 0..MaxBlocks |->
                         IF k = 0 THEN free.first
                         ELSE IF f[k - 1] \in Used(free) THEN free.block[f[k - 1]].next ELSE NULL]
           at == CHOOSE f : f = body(f)
           g == [n \in Link |-> IF n \in Used(free) THEN free.block[n].next ELSE NULL]
           G == [k \in 1..MaxBlocks |-> g]
<1>1. free.first \in Link /\ NULL \in Link /\ \A n \in Used(free) : free.block[n].next \in Link
  BY ListType DEF After, Link
<1>2. MaxBlocks \in Nat \ {0} BY SizesAssumption
<1>3. g \in [Link -> Link] BY <1>1
<1>4. G \in [1..MaxBlocks -> [Link -> Link]] BY <1>3
<1>5. \E f \in [0..MaxBlocks -> Link] : f = body(f)
  <2>1. PICK f \in [0..MaxBlocks -> Link] : Turns(f, MaxBlocks, free.first, G)
    <3> HIDE DEF G
    <3> QED BY <1>1, <1>2, <1>4, TurnsExist
  <2>2. ASSUME NEW k \in 0..MaxBlocks, k # 0
        PROVE  G[k][f[k - 1]] = IF f[k - 1] \in Used(free) THEN free.block[f[k - 1]].next ELSE NULL
    <3>1. k - 1 \in 0..MaxBlocks /\ k \in 1..MaxBlocks BY <1>2, <2>2
    <3>2. f[k - 1] \in Link BY <3>1
    <3> QED BY <3>1, <3>2
  <2> HIDE DEF G
  <2>3. f = body(f) BY <2>1, <2>2 DEF Turns
  <2> QED BY <2>3
<1>6. at = body(at)
  <2> HIDE DEF body
  <2> QED BY <1>5
<1>7. Chain = at BY DEF Chain
<1> HIDE DEF at
<1>8. \A k \in 0..MaxBlocks : at[k] = body(at)[k] BY <1>6
<1>9. at[0] = free.first BY <1>2, <1>8
<1>10. ASSUME NEW k \in 0..(MaxBlocks - 1)
       PROVE  at[k + 1] = IF at[k] \in Used(free) THEN free.block[at[k]].next ELSE NULL
  <2>1. k + 1 \in 0..MaxBlocks /\ k + 1 # 0 /\ (k + 1) - 1 = k BY <1>2
  <2>2. at[k + 1] = body(at)[k + 1] BY <1>8, <2>1
  <2> QED BY <2>1, <2>2
<1> QED BY <1>7, <1>9, <1>10 DEF After

\* Every block of a sorted list is on the way from its first.
LEMMA AllOnChain ==
  ASSUME free \in Lists, Linked(free), Sorted(free),
         \A n \in Used(free) : From(free, n) <= To(free, n)
  PROVE  \A n \in Used(free) : \E k \in 0..MaxBlocks : Chain[k] = n
<1> DEFINE U == Used(free)
           start(n) == From(free, n)
           next(n) == After(free, n)
<1>1. /\ MaxBlocks \in Nat \ {0} /\ U \subseteq 0..MaxBlocks /\ NULL \notin U
      /\ \A n \in U : start(n) \in Nat /\ To(free, n) \in Nat
  BY ListType, SizesAssumption DEF NULL, Page
<1>2. /\ Chain[0] = free.first
      /\ \A k \in 0..(MaxBlocks - 1) : Chain[k + 1] = IF Chain[k] \in U THEN next(Chain[k]) ELSE NULL
  BY ChainIs
<1>3. \A n \in U : next(n) \in U => start(n) < start(next(n))
  BY <1>1 DEF Sorted
<1>4. \A n \in U : n = free.first \/ \E b \in U : next(b) = n
  BY DEF Linked
<1>5. Cardinality(U) <= MaxBlocks BY DEF Linked
<1> HIDE DEF U, start, next
<1>6. ASSUME NEW k \in 0..(MaxBlocks - 1), Chain[k + 1] \in U
      PROVE  Chain[k] \in U /\ start(Chain[k]) < start(Chain[k + 1])
  BY <1>1, <1>2, <1>3, <1>6
\* It does not take MaxBlocks steps.
<1>7. Chain[MaxBlocks] \notin U
  <2> SUFFICES ASSUME Chain[MaxBlocks] \in U PROVE FALSE OBVIOUS
  <2>1. \A k \in 0..MaxBlocks : Chain[k] \in U
    <3> DEFINE P == {k \in Nat : k <= MaxBlocks => Chain[MaxBlocks - k] \in U}
    <3>1. 0 \in P BY <1>1
    <3>2. ASSUME NEW k \in P, k < MaxBlocks PROVE k + 1 \in P
      <4> DEFINE j == MaxBlocks - (k + 1)
      <4>1. j \in 0..(MaxBlocks - 1) /\ j + 1 = MaxBlocks - k /\ k <= MaxBlocks
        BY <1>1, <3>2
      <4> HIDE DEF j
      <4>2. Chain[j + 1] \in U BY <3>2, <4>1
      <4>3. Chain[j] \in U BY <1>6, <4>1, <4>2
      <4> QED BY <4>3 DEF j
    <3>3. P \in SUBSET Nat OBVIOUS
    <3> HIDE DEF P
    <3>4. 0..MaxBlocks \subseteq P BY <1>1, <3>1, <3>2, <3>3, CountingUp
    <3>5. ASSUME NEW k \in 0..MaxBlocks PROVE Chain[k] \in U
      <4>1. MaxBlocks - k \in P /\ MaxBlocks - k <= MaxBlocks /\ MaxBlocks - (MaxBlocks - k) = k
        BY <1>1, <3>4
      <4> QED BY <4>1 DEF P
    <3> QED BY <3>5
  <2>2. \A i, j \in 0..MaxBlocks : i < j => start(Chain[i]) < start(Chain[j])
    <3> DEFINE P == {j \in Nat : j <= MaxBlocks =>
                       \A i \in 0..MaxBlocks : i < j => start(Chain[i]) < start(Chain[j])}
    <3>1. 0 \in P OBVIOUS
    <3>2. ASSUME NEW j \in P, j < MaxBlocks PROVE j + 1 \in P
      <4> SUFFICES ASSUME NEW i \in 0..MaxBlocks, i < j + 1
                   PROVE  start(Chain[i]) < start(Chain[j + 1])
        OBVIOUS
      <4>1. j \in 0..(MaxBlocks - 1) /\ j \in 0..MaxBlocks /\ j + 1 \in 0..MaxBlocks
            /\ (i = j \/ i < j)
        BY <1>1, <3>2
      <4>2. start(Chain[j]) < start(Chain[j + 1]) BY <1>6, <2>1, <4>1
      <4>3. i < j => start(Chain[i]) < start(Chain[j]) BY <4>1
      <4>4. /\ start(Chain[i]) \in Nat /\ start(Chain[j]) \in Nat
            /\ start(Chain[j + 1]) \in Nat
        BY <1>1, <2>1, <4>1
      <4> QED BY <4>1, <4>2, <4>3, <4>4
    <3>3. P \in SUBSET Nat OBVIOUS
    <3> HIDE DEF P
    <3>4. 0..MaxBlocks \subseteq P BY <1>1, <3>1, <3>2, <3>3, CountingUp
    <3> QED BY <3>4 DEF P
  <2>3. IsFiniteSet(0..MaxBlocks) /\ Cardinality(0..MaxBlocks) = MaxBlocks + 1
    BY <1>1, FS_Interval
  <2>4. IsFiniteSet(U) /\ Cardinality(U) \in Nat
    BY <1>1, <2>3, FS_Subset, FS_CardinalityType
  <2>5. Cardinality(U) < Cardinality(0..MaxBlocks)
    BY <1>1, <1>5, <2>3, <2>4
  <2> DEFINE way == [k \in 0..MaxBlocks |-> Chain[k]]
  <2>6. way \in [0..MaxBlocks -> U] BY <2>1
  <2> HIDE DEF way
  <2>7. \E i, j \in 0..MaxBlocks : i # j /\ way[i] = way[j]
    BY <2>3, <2>4, <2>5, <2>6, FS_PigeonHole
  <2>8. PICK i \in 0..MaxBlocks, j \in 0..MaxBlocks : i # j /\ Chain[i] = Chain[j]
    BY <2>7 DEF way
  <2>9. i < j \/ j < i BY <2>8
  <2>10. start(Chain[i]) \in Nat BY <1>1, <2>1
  <2> QED BY <2>2, <2>8, <2>9, <2>10
\* The block with the least start among those it misses has one in front.
<1>8. ASSUME NEW missed, missed \in U, \A k \in 0..MaxBlocks : Chain[k] # missed PROVE FALSE
  <2> DEFINE M == {n \in U : \A k \in 0..MaxBlocks : Chain[k] # n}
             S == {start(n) : n \in M}
  <2>1. S \in SUBSET Nat /\ S # {} BY <1>1, <1>8
  <2>2. PICK s \in S : \A t \in S : s <= t
    <3> HIDE DEF S
    <3> QED BY <2>1, LeastNumber
  <2>3. PICK n \in M : s = start(n) OBVIOUS
  <2>4. n # free.first BY <1>1, <1>2
  <2>5. PICK b \in U : next(b) = n BY <1>4, <2>4
  <2>6. start(b) < start(n) BY <1>3, <2>5
  <2>7. b \notin M
    <3> SUFFICES ASSUME b \in M PROVE FALSE OBVIOUS
    <3>1. start(b) \in S OBVIOUS
    <3>2. s <= start(b) BY <2>2, <3>1
    <3> QED BY <1>1, <2>3, <2>6, <3>2
  <2>8. PICK k \in 0..MaxBlocks : Chain[k] = b BY <2>7
  <2>9. k # MaxBlocks BY <1>7, <2>8
  <2>10. k \in 0..(MaxBlocks - 1) /\ k + 1 \in 0..MaxBlocks BY <1>1, <2>9
  <2>11. Chain[k + 1] = n BY <1>2, <2>5, <2>8, <2>10
  <2> QED BY <2>10, <2>11
<1> QED BY <1>8 DEF U

\* Without requests by address and exits, a page is on the list or in use, and
\* never both.
ExactInv ==
  fault = "none" /\ ~asked /\ ~buried => Sorted(free) /\ On(free) = Page \ InUse

ListInv == HarmInv /\ ExactInv

LEMMA ListInvInit == Init => ListInv
<1> SUFFICES ASSUME Init PROVE ListInv OBVIOUS
<1>0. HarmInv BY HarmInit
<1>1. Calm(free, InUse) BY <1>0 DEF HarmInv, CalmInv, Init
<1>2. /\ Used(free) = {0} /\ From(free, 0) = Entries + 1
      /\ To(free, 0) = Pages - 1 /\ After(free, 0) = NULL
  BY DEF Init, Used, From, To, After
<1>3. /\ Tables /\ Dummy /\ 0 \in live /\ InUse \subseteq Page
  BY <1>0, InUseIs DEF HarmInv, TypeInv, Tables
<1>4. \A p \in Page : p <= Entries => p \in InUse
  <2> SUFFICES ASSUME NEW p \in Page, p <= Entries PROVE p \in InUse OBVIOUS
  <2>1. p \in Virtual /\ p \in Nat /\ p # Absent
    <3>1. Entries \in Virtual BY EntriesIs
    <3> QED BY <3>1, SizesAssumption DEF Virtual, Page, Absent
  <2>2. Phys(0, p) = p
    <3>1. CASE p = Entries BY <1>3, <3>1 DEF Dummy
    <3>2. CASE p # Entries
      <4>1. p < Entries BY <2>1, <3>2, SizesAssumption
      <4> QED BY <1>3, <2>1, <4>1, PhysIs
    <3> QED BY <3>1, <3>2
  <2> QED BY <1>3, <2>1, <2>2, InUseIs
<1>5. \A p \in InUse : p <= Entries
  <2>1. \A p \in InUse : ~(Entries + 1 <= p /\ p <= Pages - 1)
    <3>1. \A p \in InUse : p < From(free, 0) BY <1>1, <1>2 DEF Calm, Ranges
    <3> QED BY <1>2, <1>3, <3>1, SizesAssumption DEF Page
  <2> QED BY <1>3, <2>1, SizesAssumption DEF Page
<1>6. On(free) = Page \ InUse
  <2>1. ASSUME NEW p \in Page PROVE p \in On(free) <=> p \notin InUse
    BY <1>2, <1>4, <1>5, SizesAssumption DEF On, Page
  <2> QED BY <2>1 DEF On
<1>7. Sorted(free) BY <1>2 DEF Sorted
<1> QED BY <1>0, <1>6, <1>7 DEF ListInv, ExactInv

LEMMA ListInvStep == ListInv /\ [Next]_vars => ListInv'
<1> SUFFICES ASSUME ListInv, [Next]_vars, fault' = "none", ~asked', ~buried'
             PROVE  Sorted(free') /\ On(free') = Page \ InUse'
  BY HarmStep DEF ListInv, ExactInv
<1>0. /\ HarmInv /\ ExactInv /\ Tables /\ free \in Lists /\ InUse \in SUBSET Page
      /\ Dummy /\ CalmInv /\ HighInv
  BY InUseIs DEF ListInv, HarmInv, TypeInv
<1> DEFINE Before0 == /\ fault = "none" /\ ~asked /\ ~buried
                      /\ Calm(free, InUse) /\ Apart /\ Sorted(free) /\ On(free) = Page \ InUse
                      /\ \A n \in Used(free) : Entries < From(free, n)
                      /\ \A d \in live : \A w \in Virtual :
                           w >= Entries /\ Phys(d, w) # Absent => Phys(d, w) >= Entries
<1>1. fault = "none" /\ ~asked /\ ~buried => Before0
  BY <1>0 DEF CalmInv, HighInv, ExactInv
<1>2. ASSUME NEW dir \in Processes, NewPageAny(dir)
      PROVE  Sorted(free') /\ On(free') = Page \ InUse'
  <2> DEFINE page == From(free, free.first)
  <2>1. free.first # NULL /\ free.first \in Used(free) /\ dir \in live
    BY <1>2 DEF NewPageAny, Stop, Processes
  <2>2. /\ MayMap(dir) /\ NewPage(page, dir) /\ live' = live
        /\ UNCHANGED <<asked, buried>> /\ fault = "none"
    BY <1>2, <2>1 DEF NewPageAny, AnyPage, From
  <2>3. page \in Page BY <1>0, <2>1, ListType
  <2>4. /\ free' = Remove(free, free.first, page)
        /\ \E v \in Virtual : Phys(dir, v) = Absent /\ OneMapping(dir, v, page)
    BY <1>0, <2>1, <2>2, <2>3, NewPageIs
  <2>5. InUse' = InUse \cup {page} BY <1>0, <2>1, <2>2, <2>3, <2>4, UseGrows
  <2>6. Before0 BY <1>1, <2>2
  <2>7. Sorted(free') /\ On(free') = On(free) \ {page}
    BY <1>0, <2>1, <2>4, <2>6, RemoveExact
  <2> QED BY <2>5, <2>6, <2>7
<1>3. ASSUME NEW dir \in Processes, NEW v \in Virtual, v >= Entries, FreePage(v, dir)
      PROVE  Sorted(free') /\ On(free') = Page \ InUse'
  <2> DEFINE page == Phys(dir, v)
  <2>1. dir \in live /\ fault = "none" /\ page # Absent BY <1>3 DEF FreePage, Processes
  <2>2. /\ FillFault(free, page) = "none" /\ free' = Fill(free, page) /\ live' = live
        /\ UNCHANGED <<asked, buried>> /\ OneMapping(dir, v, Absent) /\ page \in Page
    BY <1>0, <1>3, <2>1, FreePageIs DEF Stop
  <2>3. Before0 BY <1>1, <2>1, <2>2
  <2>4. page >= Entries /\ page # Entries /\ page \in InUse
    <3>1. page >= Entries BY <1>3, <2>1, <2>3
    <3> QED BY <1>0, <2>1, <2>3, <3>1, OwnPage, InUseIs
  <2>5. InUse' = InUse \ {page}
    BY <1>0, <1>3, <2>1, <2>2, <2>3, <2>4, UseShrinks, ApartShrinks
  <2> HIDE DEF page
  <2>6. Entries < page BY <2>2, <2>4, SizesAssumption DEF Page
  <2>7. Sorted(free') /\ On(free') = On(free) \cup {page}
    BY <1>0, <2>2, <2>3, <2>4, <2>6, FillExact
  <2> QED BY <2>2, <2>3, <2>4, <2>5, <2>7
<1>4. CASE AskAny BY <1>2, <1>4 DEF AskAny
<1>5. CASE AskMine
  <2>1. PICK mine \in Processes, child \in Processes, v \in Virtual :
          NewPageAt(Phys(mine, v), child)
    BY <1>5 DEF AskMine
  <2> QED BY <2>1 DEF NewPageAt, Stop
<1>6. CASE GiveBack BY <1>3, <1>6 DEF GiveBack
<1>7. CASE SoftCopyTable
  <2>1. InUse' = InUse BY <1>0, <1>7, UseKept
  <2>2. Before0 /\ free' = free BY <1>1, <1>7 DEF SoftCopyTable
  <2> QED BY <2>1, <2>2
<1>8. CASE Exited BY <1>8 DEF Exited, FreeTable
<1>9. CASE UNCHANGED vars
  <2>1. live' = live /\ table' = table /\ free' = free /\ Before0 BY <1>1, <1>9 DEF vars
  <2>2. InUse' = InUse BY <1>0, <2>1, NoChangeIs, UseKept DEF Keep
  <2> QED BY <2>1, <2>2
<1> QED BY <1>4, <1>5, <1>6, <1>7, <1>8, <1>9 DEF Next

\* The list of free ranges and the page tables are two accounts of the same
\* memory, and they agree: no page is lost or handed out twice as long as
\* nobody asks for a page by its address and no process exits.
THEOREM ListCorrect == Spec => []ListMatchesTables
<1>1. ListInv => ListMatchesTables
  <2> SUFFICES ASSUME ListInv, fault = "none", ~asked, ~buried
               PROVE  /\ Listed = Page \ InUse
                      /\ \A n \in Used(free) :
                           /\ \E k \in 0..MaxBlocks : Chain[k] = n
                           /\ free.block[n].start <= free.block[n].end
                           /\ LET next == free.block[n].next IN
                              next # NULL => /\ free.block[next].prev = n
                                             /\ free.block[n].end < free.block[next].start
                           /\ n = free.first <=> free.block[n].prev = NULL
    BY DEF ListMatchesTables
  <2>1. /\ free \in Lists /\ Linked(free) /\ Ranges(free, InUse) /\ Sorted(free)
        /\ On(free) = Page \ InUse
    BY DEF ListInv, HarmInv, TypeInv, CalmInv, ExactInv, Calm
  <2>2. Listed = Page \ InUse BY <2>1 DEF Listed, On, From, To
  <2>3. \A n \in Used(free) : From(free, n) <= To(free, n) BY <2>1 DEF Ranges
  <2>4. \A n \in Used(free) : \E k \in 0..MaxBlocks : Chain[k] = n
    BY <2>1, <2>3, AllOnChain
  <2>5. \A n \in Used(free) :
          /\ n = free.first <=> Before(free, n) = NULL
          /\ After(free, n) # NULL => /\ Before(free, After(free, n)) = n
                                      /\ To(free, n) < From(free, After(free, n))
    BY <2>1 DEF Linked, Sorted
  <2> QED BY <2>2, <2>3, <2>4, <2>5 DEF From, To, After, Before
<1> QED BY <1>1, ListInvInit, ListInvStep, PTL DEF Spec

=============================================================================
