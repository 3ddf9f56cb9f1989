-------------------------------- MODULE Pager --------------------------------
(***************************************************************************)
(* The pager, kernel/pager.c: a doubly linked list of free ranges of       *)
(* physical memory, and the page tables that map what was handed out.      *)
(* Addresses are counted in pages; a virtual address v is the flat index   *)
(* that get_free_page_index returns.  All calls are system calls or run in *)
(* the timer interrupt, so no call is interrupted.                         *)
(*                                                                         *)
(* Processes use the pager as main() and launch_file() of libestros do:    *)
(* they ask for any page, give back pages of their own, copy the kernel's  *)
(* table for a child and map their own pages into the child's table by     *)
(* asking for their physical addresses.  The timer frees a child's table   *)
(* when the child has exited.                                              *)
(***************************************************************************)
EXTENDS Integers, FiniteSets

CONSTANTS Pages,      \* pages of the physical address space
          Entries,    \* TABLE_ENTRIES_LENGTH
          MaxBlocks,  \* list entries that the kernel heap has room for
          MaxTables   \* bound on the page tables allocated

ASSUME SizesAssumption ==
  /\ Entries \in Nat \ {0, 1} /\ Pages \in Nat /\ Pages > Entries + 1
  /\ MaxBlocks \in Nat \ {0} /\ MaxTables \in Nat /\ MaxTables >= 4

VARIABLES free,     \* the list of free ranges
          table,    \* page tables, in the order alloc_table() places them
          live,     \* top-level tables in use: the kernel's and those of processes
          asked,    \* an explicit physical page was asked for
          returned, \* free_page was called
          buried,   \* a process's table was freed
          ended,    \* the last page of memory was handed out
          clash,    \* a request for any page got a page that is in use
          fault     \* "none", or what stopped the kernel

vars == <<free, table, live, asked, returned, buried, ended, clash, fault>>

NULL == -1
Absent == -1          \* an entry whose present bit is clear
Page == 0..(Pages - 1)
Index == 0..(Entries - 1)
Virtual == 0..(Entries * Entries - 1)
Table == 0..(MaxTables - 1)

FreeMemoryBlock == [start : Page, end : Page, next : Nat \cup {NULL}, prev : Nat \cup {NULL}]

Faults == {"none",
           "empty",     \* first_pager_block is NULL and is followed
           "off",       \* the search of pager_fill ran past the last block
           "loop",      \* the search of pager_fill goes round and round
           "dangling",  \* a link to a block that was freed is followed
           "exit",      \* malloc failed: exit_kernel()
           "full"}      \* no index is free: PAGER_ERROR is used as an index

-----------------------------------------------------------------------------
(* The list of free ranges.                                                *)

Used(l) == DOMAIN l.block
Fresh(l) == CHOOSE n \in 0..MaxBlocks : n \notin Used(l)
HasRoom(l) == Cardinality(Used(l)) < MaxBlocks
Set(l, n, b) == [l EXCEPT !.block = [m \in Used(l) \cup {n} |-> IF m = n THEN b ELSE l.block[m]]]
Drop(l, n) == [l EXCEPT !.block = [m \in Used(l) \ {n} |-> l.block[m]]]

\* Mutant of Up: the addition does not wrap.
UpForever(p) == p + 1
\* end + 1 and start - 1, in 32 bits
Up(p) == (p + 1) % Pages
Down(p) == (p - 1) % Pages

\* Mutant of RemoveFirst: the range keeps the page.
RemoveFirstKeeping(l, n, p) == [l EXCEPT !.block[n].start = p]
\* pager_remove, when the page is the first of the range.
RemoveFirst(l, n, p) == [l EXCEPT !.block[n].start = Up(p)]

\* pager_remove, when the page is the whole range.
RemoveWhole(l, n) ==
  LET next == l.block[n].next
      rest == [Drop(l, n) EXCEPT !.first = next]
  IN  IF next \in Used(rest) THEN [rest EXCEPT !.block[next].prev = NULL] ELSE rest

\* pager_remove, otherwise: the block behind the new one is not told, and
\* nothing checks that the page lies in the range.
RemoveInside(l, n, p) ==
  LET new == [start |-> Up(p), end |-> l.block[n].end, next |-> l.block[n].next, prev |-> n]
      cut == [l EXCEPT !.block[n].next = Fresh(l), !.block[n].end = Down(p)]
  IN  Set(cut, Fresh(l), new)

Remove(l, n, p) ==
  LET b == l.block[n] IN
  CASE b.start = p /\ b.end = p -> RemoveWhole(l, n)
    [] b.start = p /\ b.end # p -> RemoveFirst(l, n, p)
    [] b.start # p /\ b.end = p -> [l EXCEPT !.block[n].end = Down(p)]
    [] OTHER                    -> RemoveInside(l, n, p)

RemoveFails(l, n, p) == l.block[n].start # p /\ l.block[n].end # p /\ ~HasRoom(l)

\* Where pager_fill stops: the first block of the list that does not start
\* below p, NULL if it runs off the list, a block that was freed if it comes to
\* one.  A block that starts below p means that it never stops: the list has no
\* more than MaxBlocks blocks to look at.
Behind(l, p) ==
  LET at[k \in 0..MaxBlocks] ==
        IF k = 0 THEN l.first
        ELSE LET n == at[k - 1] IN
             IF n \notin Used(l) \/ l.block[n].start >= p THEN n ELSE l.block[n].next
  IN  at[MaxBlocks]

\* Mutant of Insert: the block behind is not told.
InsertOneWay(l, p, before, after) ==
  LET new == [start |-> p, end |-> p, next |-> after, prev |-> before]
      m   == IF before = NULL THEN l ELSE [l EXCEPT !.block[before].next = Fresh(l)]
      h   == IF after = l.first THEN [m EXCEPT !.first = Fresh(l)] ELSE m
  IN  Set(h, Fresh(l), new)

Insert(l, p, before, after) ==
  LET new == [start |-> p, end |-> p, next |-> after, prev |-> before]
      m   == IF before = NULL THEN l ELSE [l EXCEPT !.block[before].next = Fresh(l)]
      h   == IF after = l.first THEN [m EXCEPT !.first = Fresh(l)] ELSE m
  IN  Set([h EXCEPT !.block[after].prev = Fresh(l)], Fresh(l), new)

Fill(l, p) ==
  LET after  == Behind(l, p)
      before == l.block[after].prev
  IN
  CASE before # NULL /\ Up(l.block[before].end) = p -> [l EXCEPT !.block[before].end = p]
    [] ~(before # NULL /\ Up(l.block[before].end) = p) /\ Down(l.block[after].start) = p
         -> [l EXCEPT !.block[after].start = p]
    [] OTHER -> Insert(l, p, before, after)

FillFault(l, p) ==
  LET after  == Behind(l, p)
      before == l.block[after].prev
      joins  == \/ before # NULL /\ Up(l.block[before].end) = p
                \/ Down(l.block[after].start) = p
  IN
  IF l.first = NULL                          THEN "empty"
  ELSE IF after = NULL                       THEN "off"
  ELSE IF after \notin Used(l)               THEN "dangling"
  ELSE IF l.block[after].start < p           THEN "loop"
  ELSE IF before \notin Used(l) \cup {NULL}  THEN "dangling"
  ELSE IF ~joins /\ ~HasRoom(l)              THEN "exit"
  ELSE "none"

-----------------------------------------------------------------------------
(* Page tables.  PageTable is a union: a top-level table holds the numbers *)
(* of tables, the tables below hold physical pages.                        *)

Zeroed == [i \in Index |-> Absent]
NextTable == Cardinality(DOMAIN table)
CanAllocate == NextTable < MaxTables
WithTable(t, content) ==
  [n \in 0..Cardinality(DOMAIN t) |-> IF n \in DOMAIN t THEN t[n] ELSE content]

\* virt_to_phys
Phys(dir, v) ==
  LET sub == table[dir][v \div Entries] IN
  IF sub = Absent THEN Absent ELSE table[sub][v % Entries]

Mapped(dir) == {Phys(dir, v) : v \in Virtual} \ {Absent}
InUse == UNION {Mapped(dir) : dir \in live}

\* Mutant of FreePageIndex: j is not added.
FreePageIndexCoarse(dir) ==
  LET unmapped == {v \in Virtual : Phys(dir, v) = Absent} IN
  IF unmapped = {} THEN Absent
  ELSE ((CHOOSE v \in unmapped : \A w \in unmapped : v <= w) \div Entries) * Entries

\* get_free_page_index; Absent stands for its PAGER_ERROR.
FreePageIndex(dir) ==
  LET unmapped == {v \in Virtual : Phys(dir, v) = Absent} IN
  IF unmapped = {} THEN Absent
  ELSE CHOOSE v \in unmapped : \A w \in unmapped : v <= w

\* The second half of new_page: page becomes the mapping of v.
Map(dir, v, page) ==
  LET t == IF table[dir][v \div Entries] # Absent THEN table
           ELSE WithTable([table EXCEPT ![dir][v \div Entries] = NextTable], Zeroed)
  IN  [t EXCEPT ![t[dir][v \div Entries]][v % Entries] = page]

-----------------------------------------------------------------------------
(* new_page, free_page, soft_copy_table, free_pde_table.                   *)

Stop(why) == fault' = why /\ UNCHANGED <<free, table, live, asked, returned, buried, ended, clash>>

\* Bound of the model: there is a table left when new_page needs one.
MayMap(dir) ==
  LET v == FreePageIndex(dir) IN
  v # Absent /\ table[dir][v \div Entries] = Absent => CanAllocate

NewPage(page, dir) ==
  LET v == FreePageIndex(dir) IN
  IF RemoveFails(free, free.first, page) THEN fault' = "exit" /\ UNCHANGED <<free, table>>
  ELSE /\ free' = Remove(free, free.first, page)
       /\ IF v = Absent THEN fault' = "full" /\ UNCHANGED table
          ELSE table' = Map(dir, v, page) /\ UNCHANGED fault

\* Mutant of AnyPage: the last page of the range.
AnyPageFromTop(l) == l.block[l.first].end
\* new_page(PAGER_ERROR, dir) takes the first page of the first range.
AnyPage(l) == l.block[l.first].start

NewPageAny(dir) ==
  /\ fault = "none"
  /\ MayMap(dir)
  /\ IF free.first = NULL THEN Stop("empty")
     ELSE IF free.first \notin Used(free) THEN Stop("dangling")
     ELSE LET page == AnyPage(free) IN
          /\ NewPage(page, dir)
          /\ clash' = (clash \/ page \in InUse)
          /\ ended' = (ended \/ page = Pages - 1)
          /\ UNCHANGED <<live, asked, returned, buried>>

\* new_page(page, dir)
NewPageAt(page, dir) ==
  /\ fault = "none"
  /\ MayMap(dir)
  /\ IF free.first = NULL THEN Stop("empty")
     ELSE IF free.first \notin Used(free) THEN Stop("dangling")
     ELSE /\ NewPage(page, dir)
          /\ asked' = TRUE
          /\ UNCHANGED <<live, returned, buried, ended, clash>>

FreePage(v, dir) ==
  /\ fault = "none"
  /\ Phys(dir, v) # Absent
  /\ LET page == Phys(dir, v)
         why  == FillFault(free, page)
     IN  IF why # "none" THEN Stop(why)
         ELSE /\ free' = Fill(free, page)
              /\ table' = [table EXCEPT ![table[dir][v \div Entries]][v % Entries] = Absent]
              /\ returned' = TRUE
              /\ UNCHANGED <<live, asked, buried, ended, clash, fault>>

\* soft_copy_table(kernel_table, 1): the kernel's first entry is shared.
SoftCopyTable ==
  /\ fault = "none"
  /\ CanAllocate
  /\ table' = WithTable(table, [i \in Index |-> IF i = 0 THEN table[0][0] ELSE Absent])
  /\ live' = live \cup {NextTable}
  /\ UNCHANGED <<free, asked, returned, buried, ended, clash, fault>>

\* free_pde_table and free_pte_table: every page is given back, those of the
\* shared kernel table too; the tables stay as they are.
FreeTable(dir) ==
  LET given[n \in 0..(Entries * Entries)] ==
        IF n = 0 THEN [list |-> free, fault |-> "none"]
        ELSE LET l    == given[n - 1].list
                 page == Phys(dir, n - 1)
             IN  IF given[n - 1].fault # "none" \/ page = Absent THEN given[n - 1]
                 ELSE IF FillFault(l, page) # "none" THEN [list |-> l, fault |-> FillFault(l, page)]
                 ELSE [list |-> Fill(l, page), fault |-> "none"]
      last == given[Entries * Entries]
  IN
  /\ fault = "none"
  /\ free' = last.list
  /\ fault' = last.fault
  /\ live' = live \ {dir}
  /\ buried' = TRUE
  /\ UNCHANGED <<table, asked, returned, ended, clash>>

-----------------------------------------------------------------------------
\* What main() leaves behind: table 0 is the kernel's, 1 maps the kernel's
\* memory one to one, 2 holds the stack of "dummy"; 3 is the first app's.
Init ==
  /\ free = [first |-> 0,
             block |-> [n \in {0} |-> [start |-> Entries + 1, end |-> Pages - 1,
                                       next |-> NULL, prev |-> NULL]]]
  /\ table = [n \in 0..3 |->
                CASE n = 0 -> [i \in Index |-> IF i = 0 THEN 1 ELSE IF i = 1 THEN 2 ELSE Absent]
                  [] n = 1 -> [i \in Index |-> i]
                  [] n = 2 -> [i \in Index |-> IF i = 0 THEN Entries ELSE Absent]
                  [] n = 3 -> [i \in Index |-> IF i = 0 THEN 1 ELSE Absent]]
  /\ live = {0, 3}
  /\ asked = FALSE
  /\ returned = FALSE
  /\ buried = FALSE
  /\ ended = FALSE
  /\ clash = FALSE
  /\ fault = "none"

Processes == live \ {0}

\* A process asks for itself; pages it gives back are its own, not the
\* kernel's that it shares; the pages it maps for a child are its own too.
AskAny == \E dir \in Processes : NewPageAny(dir)
AskMine == \E mine, child \in Processes : \E v \in Virtual :
             /\ mine # child /\ v >= Entries /\ Phys(mine, v) # Absent
             /\ NewPageAt(Phys(mine, v), child)
GiveBack == \E dir \in Processes : \E v \in Virtual : v >= Entries /\ FreePage(v, dir)
\* Only children exit (Scheduler!Exit).
Exited == \E dir \in Processes \ {3} : FreeTable(dir)

Next == AskAny \/ AskMine \/ GiveBack \/ SoftCopyTable \/ Exited

Spec == Init /\ [][Next]_vars

-----------------------------------------------------------------------------
(* Properties.                                                             *)

\* Every variable has its type; no table points to one that does not exist.
TypeOK ==
  /\ free.first \in Nat \cup {NULL}
  /\ Used(free) \subseteq 0..MaxBlocks
  /\ free.block \in [Used(free) -> FreeMemoryBlock]
  /\ DOMAIN table = 0..(NextTable - 1) /\ NextTable <= MaxTables
  /\ \A n \in DOMAIN table : table[n] \in [Index -> Page \cup Table \cup {Absent}]
  /\ live \subseteq DOMAIN table
  /\ \A dir \in live, i \in Index : table[dir][i] \in DOMAIN table \cup {Absent}
  /\ {asked, returned, buried, ended, clash} \subseteq BOOLEAN
  /\ fault \in Faults

\* The ranges in the order of the list, as far as it can be followed.
Chain ==
  LET at[k \in 0..MaxBlocks] ==
        IF k = 0 THEN free.first
        ELSE IF at[k - 1] \in Used(free) THEN free.block[at[k - 1]].next ELSE NULL
  IN  at
Listed == {p \in Page : \E n \in Used(free) : free.block[n].start <= p /\ p <= free.block[n].end}

\* While pages are asked for without an address and given back one by one,
\* the list is sorted, its prev undoes its next, every block is on it, and it
\* holds exactly the pages that no table maps: none is lost, none handed out
\* twice.
ListMatchesTables ==
  fault = "none" /\ ~asked /\ ~buried =>
    /\ Listed = Page \ InUse
    /\ \A n \in Used(free) :
         /\ \E k \in 0..MaxBlocks : Chain[k] = n
         /\ free.block[n].start <= free.block[n].end
         /\ LET next == free.block[n].next IN
            next # NULL => /\ free.block[next].prev = n
                           /\ free.block[n].end < free.block[next].start
         /\ n = free.first <=> free.block[n].prev = NULL

\* A launch damages the list (an explicit request cuts the first range at a
\* page that is not in it) but harms nobody by itself: any page asked for
\* later is still a free one until, in addition, a page is given back, the end
\* of memory is reached (the damaged range has no end, so that it starts over
\* at page 0), or a process exits.
LaunchesAloneAreSafe == clash => buried \/ (asked /\ (returned \/ ended))

\* The search of pager_fill has no test for the end of the list and needs
\* none, and no link leads to a block that was freed, as long as no page is
\* asked for by its address; a launch alone does not change that either.  Only
\* when in addition a page is given back, the end of memory is reached or a
\* process exits can the search follow NULL, a freed block or a circle.
SearchEnds ==
  fault \in {"off", "loop", "dangling"} => asked /\ (returned \/ buried \/ ended)

\* A mapping stays until its own process gives the page back or exits:
\* new_page never takes an index in use, not in a shared table either.
MappingsStay ==
  [][\A dir \in live \cap live', v \in Virtual :
       Phys(dir, v) # Absent /\ Phys(dir, v)' # Phys(dir, v)
         => Phys(dir, v)' = Absent /\ returned']_vars

\* README.md:99 "set to pager error (-1)) for any free page": a request for
\* any page gets a page that is free.
AnyPageIsFree == ~clash

=============================================================================
