----------------------------- MODULE EstrosDirs -----------------------------
(***************************************************************************)
(* The directories of the file-system driver, kernel/filesystem/           *)
(* estros-fs.c, on an image that the tool packed: paths are resolved entry *)
(* by entry, a file is created by writing the super block, the blocks of   *)
(* its directory, the inode of the directory and its own.  Power may fail  *)
(* between any two of those writes.                                        *)
(*                                                                         *)
(* The kernel's copy of the super block equals the one on the disk         *)
(* whenever a system call ends, so the disk is all the state there is.     *)
(* EstrosFs has the data of files.                                         *)
(***************************************************************************)
EXTENDS ImageTool, FiniteSets

CONSTANTS Names,      \* names that applications create
          MaxMounted, \* bound: blocks of an image that is mounted
          MaxInodes,  \* bound: inodes
          MaxFailures \* bound: power failures

VARIABLES disk,    \* the mounted disk, or the image while it is packed
          named,   \* not in the code: path -> the inode it should lead to
          history  \* not in the code: names that no promise holds for

vars == <<toolVars, disk, named, history>>

None == -1
Mounted == disk.mounted
FsInode(d, n) == IF n \in DOMAIN d.inode THEN d.inode[n] ELSE Inode(0, 0, NoBlocks)

-----------------------------------------------------------------------------
(* Resolving a path.                                                       *)

\* Of a block that was packed or written, what a directory has there; the bytes of
\* other blocks mean nothing in a directory.  Blocks that nobody wrote hold zeros.
Other == [part |-> -1]
CellOf(d, b, c) ==
  IF b \notin DOMAIN d.block THEN Zero
  ELSE IF d.block[b].kind # "directory" THEN Other
  ELSE d.block[b].cell[c]

\* The read goes on behind the first block to whatever is there on the disk.
fetch_inode_directory(d, inode) ==
  [c \in 0..((inode.size \div SECTOR + 1) * SECTOR - 1) |->
     CellOf(d, inode.blocks[0] + c \div BLOCK_SIZE, c % BLOCK_SIZE)]

\* One field of an entry: 0, the one that was written for this place of an entry, or
\* whatever else is there, also behind what was read.
Field(cells, c, k) ==
  IF c + k - 1 \notin DOMAIN cells THEN "other"
  ELSE CASE cells[c + k - 1].part = 0 -> "zero"
         [] cells[c + k - 1].part = k -> "field"
         [] OTHER -> "other"
EntryAt(cells, c, k) == cells[c + k - 1].entry

\* The name at c, by the name_length there.  Names are no prefixes of one another.
HasName(cells, c, name) ==
  /\ Field(cells, c, HEADER) = "field"
  /\ EntryAt(cells, c, HEADER).name = name
  /\ \A k \in (HEADER + 1)..(HEADER + NameCells[name]) :
       Field(cells, c, k) = "field" /\ EntryAt(cells, c, k).name = name

\* The scan for a name, from entry to entry until it finds the name or an entry_length
\* of 0.  "wild" is a scan that goes by other data or runs off what was read.
Lookup(d, inode, name) ==
  LET cells == fetch_inode_directory(d, inode)
      found(c) ==
        IF Field(cells, c, 1) = "zero" THEN 0 ELSE EntryAt(cells, c, 1).inode_number
      scan[c \in Nat] ==
        IF Field(cells, c, HEADER) = "other" THEN [outcome |-> "wild"]
        ELSE IF HasName(cells, c, name)
             THEN IF Field(cells, c, 1) = "other" THEN [outcome |-> "wild"]
                  ELSE [outcome |-> "found", inode_number |-> found(c)]
        ELSE CASE Field(cells, c, 2) = "zero" -> [outcome |-> "missing"]
               [] Field(cells, c, 2) = "field" -> scan[c + EntryLength(EntryAt(cells, c, 2))]
               [] Field(cells, c, 2) = "other" -> [outcome |-> "wild"]
  IN IF inode.size = 0 THEN [outcome |-> "missing"] ELSE scan[0]

\* Every name but the last must be looked up in a directory; the last in anything.
Step(d, path, r, k) ==
  IF r.outcome # "found" THEN r
  ELSE IF k < Len(path) /\ FsInode(d, r.inode_number).type # DIRECTORY THEN [outcome |-> "missing"]
  ELSE Lookup(d, FsInode(d, r.inode_number), path[k])
resolve_inode_number(d, path) ==
  FoldLeft(LAMBDA r, k : Step(d, path, r, k), [outcome |-> "found", inode_number |-> d.root_inode],
           [k \in 1..Len(path) |-> k])
resolve_inode(d, path) ==
  LET r == resolve_inode_number(d, path)
  IN IF r.outcome = "found" THEN FsInode(d, r.inode_number) ELSE Inode(0, 0, NoBlocks)

-----------------------------------------------------------------------------
(* Creating a file: the disk after each write, in order.                   *)

alloc_inode(d) == [d EXCEPT !.n_inodes = @ + 1]
alloc_block(d) == [d EXCEPT !.n_blocks = @ + 1]
write_inode(d, n, inode) == [d EXCEPT !.inode = [m \in {n} |-> inode] @@ @]
\* A block is written as two sectors, one after the other.
WriteSector(d, b, s, cells) ==
  [d EXCEPT !.block = [n \in {b} |-> Block("directory",
     [c \in 0..(BLOCK_SIZE - 1) |-> IF c \div SECTOR = s THEN cells[c] ELSE CellOf(d, b, c)])] @@ @]

\* The two blocks that create_inode works on, by the size of the directory; but the
\* entry is copied to that size in the buffer, counted from the first block of all.
FirstBlock(dir) == dir.size \div BLOCK_SIZE
LoadFails(dir) == dir.size > 0 /\ dir.blocks[FirstBlock(dir)] = 0
Buffer(d, dir, entry) ==
  LET block(k) == dir.blocks[FirstBlock(dir) + k \div BLOCK_SIZE]
      at(k) == k - dir.size + 1
  IN [k \in 0..(2 * BLOCK_SIZE - 1) |->
        IF at(k) \in 1..EntryLength(entry) THEN EntryCells(entry)[at(k)]
        ELSE IF dir.size > 0 /\ block(k) # 0 THEN CellOf(d, block(k), k % BLOCK_SIZE)
        ELSE Zero]

\* Writing block i of the directory, given the disks so far and its inode.
WithBlock(r, i, cells) ==
  LET d == Last(r.disks)
      new == r.dir.blocks[i] = 0
      b == IF new THEN d.n_blocks ELSE r.dir.blocks[i]
      allocated == IF new THEN Append(r.disks, alloc_block(d)) ELSE r.disks
      half == WriteSector(Last(allocated), b, 0, cells)
  IN [disks |-> allocated \o <<half, WriteSector(half, b, 1, cells)>>,
      dir |-> [r.dir EXCEPT !.blocks[i] = b]]

WriteDir(r, n, inode) == [r EXCEPT !.disks = Append(@, write_inode(Last(@), n, inode))]
Half(buffer, k) == [c \in 0..(BLOCK_SIZE - 1) |-> buffer[k * BLOCK_SIZE + c]]

\* With the blocks of the directory written, and its entry, from disk d on.
WithEntry(start, dir, entry) ==
  LET buffer == Buffer(start, dir, entry)
      one == WithBlock([disks |-> <<start>>, dir |-> dir], FirstBlock(dir), Half(buffer, 0))
  IN WithBlock(one, FirstBlock(dir) + 1, Half(buffer, 1))
Sized(r, entry) == [r.dir EXCEPT !.size = @ + EntryLength(entry)]

\* Mutant of Writes: the number of the inode reaches the disk after its name.
WritesCounterLast(d, path, name) ==
  LET at == resolve_inode_number(d, path).inode_number
      entry == [inode_number |-> d.n_inodes, name |-> name]
      written == WithEntry(d, FsInode(d, at), entry)
      sized == WriteDir(written, at, Sized(written, entry))
      new == WriteDir(sized, d.n_inodes, Inode(FILE, 0, NoBlocks)).disks
  IN Tail(Append(new, alloc_inode(Last(new))))

Writes(d, path, name) ==
  LET at == resolve_inode_number(d, path).inode_number
      dir == FsInode(d, at)
      entry == [inode_number |-> d.n_inodes, name |-> name]
      written == WithEntry(alloc_inode(d), dir, entry)
      sized == WriteDir(written, at, Sized(written, entry))
  IN IF LoadFails(dir) THEN <<alloc_inode(d)>>
     ELSE WriteDir(sized, d.n_inodes, Inode(FILE, 0, NoBlocks)).disks

-----------------------------------------------------------------------------

\* pack() ends and the kernel reads the super block.
fs_set_harddrive ==
  /\ Packed /\ ~Mounted /\ Max(DOMAIN out) < MaxMounted
  /\ disk' = [mounted |-> TRUE, n_blocks |-> Tell(out), n_inodes |-> Len(inodes), root_inode |-> placed[<<>>],
              block |-> out, inode |-> [n \in 0..(Len(inodes) - 1) |-> inodes[n + 1]]]
  /\ named' = placed
  /\ UNCHANGED <<toolVars, history>>

Full(path) == Append(path[1], path[2])
Accepts(dir, name) ==
  /\ Mounted /\ ~history.wild /\ disk.n_inodes < MaxInodes
  /\ resolve_inode(disk, dir).type = DIRECTORY
  /\ resolve_inode(disk, Append(dir, name)).type = 0
\* The copy of the entry runs off the buffer.
Entry(name) == [inode_number |-> disk.n_inodes, name |-> name]
Overflows(dir, name) ==
  resolve_inode(disk, dir).size + EntryLength(Entry(name)) > 2 * BLOCK_SIZE
RunsWild(dir, name) ==
  resolve_inode_number(disk, Append(dir, name)).outcome = "wild" \/ Overflows(dir, name)

\* The directory's inode once the entry is written, and the places it is at.
After(dir, name) == WithEntry(disk, resolve_inode(disk, dir), Entry(name)).dir
Places(dir, name) ==
  LET size == resolve_inode(disk, dir).size IN size..(size + EntryLength(Entry(name)) - 1)
WrittenTo(dir, name, k) ==
  After(dir, name).blocks[FirstBlock(After(dir, name)) + k \div BLOCK_SIZE]

\* Some of the entry is written to another block than the one a lookup reads for it:
\* it crosses to a block that is not the next one on the disk, or the directory had a
\* whole block before.
Strays(dir, name) ==
  \E k \in Places(dir, name) :
    WrittenTo(dir, name, k) # After(dir, name).blocks[0] + k \div BLOCK_SIZE

\* The blocks it is written to that the tool named behind those it packed: they are of
\* what was packed next, or not allocated yet.
Foreign(dir, name) ==
  LET packed == inodes[resolve_inode_number(disk, dir).inode_number + 1]
      notPacked == {packed.blocks[i] : i \in {j \in Pointers : j >= Blocks(packed.size)}}
  IN {WrittenTo(dir, name, k) : k \in Places(dir, name)} \cap (notPacked \ {0})

create_inode(dir, name) ==
  /\ Accepts(dir, name) /\ ~RunsWild(dir, name)
  /\ disk' = Last(Writes(disk, dir, name))
  /\ LET path == Append(dir, name)
     IN IF LoadFails(resolve_inode(disk, dir)) THEN UNCHANGED <<named, history>>
        ELSE /\ named' = [p \in {path} |-> disk.n_inodes] @@ named
             /\ history' = [history EXCEPT !.beyond = IF Strays(dir, name) THEN @ \cup {path} ELSE @,
                                           !.overwritten = @ \cup Foreign(dir, name)]
  /\ UNCHANGED toolVars

\* Power fails with some of the writes on the disk, and the kernel boots again.
PowerFails(dir, name) ==
  /\ Accepts(dir, name) /\ ~RunsWild(dir, name) /\ history.failures < MaxFailures
  /\ \E d \in ToSet(Front(Writes(disk, dir, name))) : disk' = d
  /\ history' = [history EXCEPT !.cut = @ \cup {Append(dir, name)}, !.failures = @ + 1,
       !.overwritten = @ \cup Foreign(dir, name)]
  /\ UNCHANGED <<toolVars, named>>

\* The lookup runs on into other data, or the entry over the stack.
CreateWild(dir, name) ==
  /\ Accepts(dir, name) /\ RunsWild(dir, name)
  /\ history' = [history EXCEPT !.wild = TRUE]
  /\ UNCHANGED <<toolVars, disk, named>>

Init ==
  /\ ToolInit
  /\ disk = [mounted |-> FALSE]
  /\ named = [p \in {} |-> 0]
  /\ history = [cut |-> {}, beyond |-> {}, overwritten |-> {}, wild |-> FALSE, failures |-> 0]

Directories == {p \in DOMAIN host : host[p] = DIR}
ToolStep == ToolNext /\ UNCHANGED <<disk, named, history>>
Next ==
  \/ ToolStep
  \/ fs_set_harddrive
  \/ \E dir \in Directories, name \in Names : create_inode(dir, name)
  \/ \E dir \in Directories, name \in Names : PowerFails(dir, name)
  \/ \E dir \in Directories, name \in Names : CreateWild(dir, name)

Spec == Init /\ [][Next]_vars

-----------------------------------------------------------------------------
(* What the tool and the driver promise each other.                        *)

\* The driver's walk through the pointers of an inode, from the data path.
Driver == INSTANCE EstrosFs WITH
  BLOCK_SIZE <- PTRS_PER_BLOCK, NUM_DIRECT_BLOCKS <- NUM_DIRECT_BLOCKS, Garbage <- None,
  Files <- {}, Handles <- {}, Data <- {}, BUFFER_SIZE_BLOCKS <- 1, UintWrap <- 0, OldSize <- 0,
  MaxBlock <- MaxMounted, MaxSize <- 0, Requests <- {}, Offsets <- {}, MaxWrites <- 0,
  disk <- disk, n_blocks <- 0, inode <- <<>>, handle <- <<>>, dirty <- {}, writes <- 0, fault <- 0
Image == [block |-> [b \in DOMAIN out |-> out[b].cell]]

\* The sizes that both sides lay out alike: up to one block of the double-indirect
\* range, and not ending inside the first block of the single-indirect range.
Agreed(size) ==
  /\ Blocks(size) <= NUM_DIRECT_BLOCKS + PTRS_PER_BLOCK + 1
  /\ ~(Blocks(size) = NUM_DIRECT_BLOCKS + 1 /\ size % BLOCK_SIZE # 0)

\* Block k of a packed file is where the driver looks for it, and unless the size is
\* a whole number of blocks, the driver allocates the block that an append needs
\* (EstrOSFS.cpp:82-188 against estros-fs.c:149-216).
PackedFilesReadBack ==
  \A n \in DOMAIN inodes :
    LET inode == inodes[n]
        total == Blocks(inode.size)
    IN inode.type = FILE /\ Agreed(inode.size) =>
         /\ \A k \in 0..(total - 1) : Driver!RealBlock(Image, inode.blocks, k) = inode.blocks[0] + k
         /\ inode.size % BLOCK_SIZE # 0 /\ total < NUM_DIRECT_BLOCKS => inode.blocks[total] = 0

\* A lookup of the path reads a block that an entry was written to as one of those.
Spoilt(p) ==
  \E k \in 0..(Len(p) - 1) :
    LET inode == FsInode(disk, named[SubSeq(p, 1, k)])
    IN \E b \in history.overwritten : b - inode.blocks[0] \in 0..(inode.size \div BLOCK_SIZE)
Grown(dir) == resolve_inode(disk, dir).size >= BLOCK_SIZE

\* A path leads to the inode that was packed or created under it, and no other path
\* leads there, whatever was created since, across sectors and into the next block,
\* and wherever power failed between two sectors.  A name whose creation power cut
\* short may lead nowhere, but never to the inode of another.  No promise holds for a
\* name whose entry was not written where it is read, for what another directory's
\* entry was written over, and for a missing name in a directory that fills its first
\* block: CreatedFilesAreFound shows what happens to the first two
\* (estros-fs.c:524-724, EstrOSFS.cpp:213-228).
NamesLeadHome ==
  \A p \in {q \in DOMAIN named \ history.beyond : ~Spoilt(q)} :
    LET home == [outcome |-> "found", inode_number |-> named[p]]
    IN /\ p \notin history.cut => resolve_inode_number(disk, p) = home
       /\ \A q \in DOMAIN named \ (history.beyond \cup {p}) : named[q] # named[p]
       /\ \A q \in history.cut \ {p} :
            Grown(Front(q)) \/ Spoilt(q) \/ resolve_inode_number(disk, q) # home

=============================================================================
