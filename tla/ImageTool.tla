----------------------------- MODULE ImageTool -----------------------------
(***************************************************************************)
(* The image tool, tools/EstrOSFS.cpp: `pack' walks a directory of the     *)
(* host and appends every file and directory to the image, then writes the *)
(* super block and the inodes.                                             *)
(*                                                                         *)
(* Sizes are in cells of four bytes, a field of a directory entry each;    *)
(* names are taken to fill whole cells.  A block of the image is a         *)
(* function: the cells of a directory, the pointers of a pointer block, or *)
(* data.  The bit maps, which the driver never reads, are left out.        *)
(***************************************************************************)
EXTENDS Integers, Sequences, SequencesExt, FiniteSetsExt, Functions

CONSTANTS Hosts,              \* trees: from paths to the size of a file, or DIR
          NameCells,          \* names to their lengths
          SECTOR,             \* 512 bytes
          BLOCK_SIZE,         \* 1024 bytes
          PTRS_PER_BLOCK,     \* 256
          NUM_DIRECT_BLOCKS,  \* 10
          FIRST_DATA_BLOCK    \* 1089

DIR == -1
HEADER == 3        \* an entry in front of its name: inode_number, entry_length, name_length
TOOL_ENTRY == 12   \* sizeof(DirectoryEntry) in the tool, whose name is a C++ string

ASSUME ImageAssumption ==
  /\ {SECTOR, PTRS_PER_BLOCK, NUM_DIRECT_BLOCKS, FIRST_DATA_BLOCK} \subseteq Nat \ {0}
  /\ BLOCK_SIZE = 2 * SECTOR
  /\ \A name \in DOMAIN NameCells : NameCells[name] \in Nat \ {0}
  /\ \A host \in Hosts : <<>> \in DOMAIN host /\ host[<<>>] = DIR

VARIABLES host,   \* the tree being packed
          walk,   \* the directories pack_directory is in, the innermost last
          out,    \* blocks written so far: number -> content
          inodes, \* sequence of inodes; number n is at n + 1
          placed  \* not in the code: path -> the inode number it was packed as

toolVars == <<host, walk, out, inodes, placed>>

FILE == 1
DIRECTORY == 2
Zero == [part |-> 0]   \* what is behind the last entry
Pointers == 0..(NUM_DIRECT_BLOCKS + 2)
NoBlocks == [i \in Pointers |-> 0]
Cells(s, n, none) == [c \in 0..(n - 1) |-> IF c < Len(s) THEN s[c + 1] ELSE none]
Blocks(size) == (size + BLOCK_SIZE - 1) \div BLOCK_SIZE
Tell(o) == Max(DOMAIN o) + 1   \* output_file.tellp() / BLOCK_SIZE
Lesser(m, n) == Min({m, n})

\* The stream with a block more; the bytes of a file hold no pointer.
Block(kind, cells) == [kind |-> kind, cell |-> cells]
Write(o, block) == [b \in {Tell(o)} |-> block] @@ o
write_pointer_block(o, pointers) == Write(o, Block("pointers", Cells(pointers, PTRS_PER_BLOCK, 0)))
Bytes == Block("data", Cells(<<>>, PTRS_PER_BLOCK, -1))
WriteData(o, size) == [b \in Tell(o)..(Tell(o) + Blocks(size) - 1) |-> Bytes] @@ o
From(first, n) == [k \in 1..n |-> first + k - 1]

\* Loops that count `remaining' down while they compare an index with it: what one
\* turn of the inner loop takes, and what remains after i turns of the outer one.
Taken(remaining) == Lesser((remaining + 1) \div 2, PTRS_PER_BLOCK)
Remaining(total) ==
  LET after[i \in Nat] == IF i = 0 THEN total ELSE after[i - 1] - Taken(after[i - 1])
  IN [i \in 0..(PTRS_PER_BLOCK * PTRS_PER_BLOCK) |-> after[i]]
Turns(left, each) ==
  Min({i \in 0..PTRS_PER_BLOCK : i = PTRS_PER_BLOCK \/
         ~ i < (left[i * (each \div PTRS_PER_BLOCK)] + each - 1) \div each})

WithSubs(o, subs) ==
  write_pointer_block(FoldLeft(write_pointer_block, o, subs), From(Tell(o), Len(subs)))

SingleIndirect(o, first, total) ==
  write_pointer_block(o, From(first + NUM_DIRECT_BLOCKS, Lesser(total - NUM_DIRECT_BLOCKS, PTRS_PER_BLOCK)))

DoubleIndirect(o, first, total) ==
  LET covered == NUM_DIRECT_BLOCKS + PTRS_PER_BLOCK
      left == Remaining(total - covered)
  IN WithSubs(o, [i \in 1..Turns(left, PTRS_PER_BLOCK) |->
       From(first + covered + (i - 1) * PTRS_PER_BLOCK, Taken(left[i - 1]))])

TripleIndirect(o, first, total) ==
  LET square == PTRS_PER_BLOCK * PTRS_PER_BLOCK
      covered == NUM_DIRECT_BLOCKS + PTRS_PER_BLOCK + square
      left == Remaining(total - covered)
      inner(i) == {j \in 0..(PTRS_PER_BLOCK - 1) : left[i * PTRS_PER_BLOCK + j] > 0}
      double(r, i) ==
        LET new == WithSubs(r.out, [j \in 1..Cardinality(inner(i)) |->
                     From(first + covered + i * square + (j - 1) * PTRS_PER_BLOCK,
                          Taken(left[i * PTRS_PER_BLOCK + j - 1]))])
        IN [out |-> new, pointers |-> Append(r.pointers, Tell(new) - 1)]
      end == FoldLeft(double, [out |-> o, pointers |-> <<>>],
                      [i \in 1..Turns(left, square) |-> i - 1])
  IN write_pointer_block(end.out, end.pointers)

\* Mutant of DirectBlocks: the block that is only partly full is forgotten.
DirectWholeBlocks(first, size) ==
  [i \in Pointers |-> IF i = 0 THEN first
                      ELSE IF i < size \div BLOCK_SIZE /\ i <= NUM_DIRECT_BLOCKS THEN first + i ELSE 0]

\* blocks[1] to blocks[10] by the size divided by the size of a block: for a whole
\* number of blocks one more than the file has.
DirectBlocks(first, size) ==
  [i \in Pointers |-> IF i = 0 THEN first
                      ELSE IF i < size \div BLOCK_SIZE + 1 /\ i <= NUM_DIRECT_BLOCKS THEN first + i ELSE 0]

pack_file(o, size) ==
  LET first == IF size = 0 THEN 0 ELSE Tell(o)
      total == Blocks(size)
      indirect == size \div BLOCK_SIZE > NUM_DIRECT_BLOCKS /\ total > NUM_DIRECT_BLOCKS
      double == indirect /\ total > NUM_DIRECT_BLOCKS + PTRS_PER_BLOCK
      triple == double /\ total > NUM_DIRECT_BLOCKS + PTRS_PER_BLOCK + PTRS_PER_BLOCK * PTRS_PER_BLOCK
      data == WriteData(o, size)
      one == IF indirect THEN SingleIndirect(data, first, total) ELSE data
      two == IF double THEN DoubleIndirect(one, first, total) ELSE one
      three == IF triple THEN TripleIndirect(two, first, total) ELSE two
  IN [out |-> three,
      blocks |-> [DirectBlocks(first, size) EXCEPT
                    ![NUM_DIRECT_BLOCKS] = IF indirect THEN Tell(one) - 1 ELSE @,
                    ![NUM_DIRECT_BLOCKS + 1] = IF double THEN Tell(two) - 1 ELSE @,
                    ![NUM_DIRECT_BLOCKS + 2] = IF triple THEN Tell(three) - 1 ELSE @]]

-----------------------------------------------------------------------------
(* Walking the host's tree; directory_iterator has no order.               *)

Inode(type, size, blocks) == [type |-> type, size |-> size, blocks |-> blocks]
Children(t, path) == {p \in DOMAIN t : p # <<>> /\ Front(p) = path}

\* An inode number is taken when the walk enters a directory.
Entered(path) == [path |-> path, inode_number |-> Len(inodes), todo |-> Children(host, path), entries |-> <<>>]
Enter(w, path) ==
  /\ walk' = Append(w, Entered(path))
  /\ inodes' = Append(inodes, Inode(0, 0, NoBlocks))
  /\ placed' = [p \in {path} |-> Len(inodes)] @@ placed

InWalk == walk # <<>> /\ UNCHANGED host
Top == Last(walk)
Listing(top, path, n) ==
  [top EXCEPT !.todo = @ \ {path}, !.entries = Append(@, [inode_number |-> n, name |-> Last(path)])]

PackFile(path) ==
  /\ InWalk /\ path \in Top.todo /\ host[path] # DIR
  /\ LET packed == pack_file(out, host[path])
     IN /\ out' = packed.out
        /\ inodes' = Append(inodes, Inode(FILE, host[path], packed.blocks))
  /\ walk' = Append(Front(walk), Listing(Top, path, Len(inodes)))
  /\ placed' = [p \in {path} |-> Len(inodes)] @@ placed

\* A file that cannot be opened has no inode and no entry.
SkipFile(path) ==
  /\ InWalk /\ path \in Top.todo /\ host[path] # DIR
  /\ walk' = Append(Front(walk), [Top EXCEPT !.todo = @ \ {path}])
  /\ UNCHANGED <<out, inodes, placed>>

EnterDirectory(path) ==
  /\ InWalk /\ path \in Top.todo /\ host[path] = DIR
  /\ Enter(Append(Front(walk), [Top EXCEPT !.todo = @ \ {path}]), path)
  /\ UNCHANGED out

\* Entries go back to back, across the borders of sectors and blocks.
EntryLength(entry) == HEADER + NameCells[entry.name]
EntryCells(entry) == [k \in 1..EntryLength(entry) |-> [part |-> k, entry |-> entry]]
Content(entries) == FoldLeft(LAMBDA cells, entry : cells \o EntryCells(entry), <<>>, entries)

\* They go behind what the children wrote.
DirectoryBlock(content, k) ==
  Block("directory", [c \in 0..(BLOCK_SIZE - 1) |->
    IF k * BLOCK_SIZE + c < Len(content) THEN content[k * BLOCK_SIZE + c + 1] ELSE Zero])
WriteDirectory(o, content) ==
  [b \in Tell(o)..(Tell(o) + Blocks(Len(content)) - 1) |-> DirectoryBlock(content, b - Tell(o))] @@ o

\* How many blocks are named goes by the tool's own structure, whatever was written:
\* of a directory of short names, blocks of what is packed next.
DirectoryBlocks(first, n) ==
  [i \in Pointers |-> IF i = 0 THEN (IF n > 0 THEN first ELSE 0)
                      ELSE IF i < (n * TOOL_ENTRY) \div BLOCK_SIZE /\ i <= NUM_DIRECT_BLOCKS THEN first + i ELSE 0]
WithParent(w, done) ==
  IF w = <<>> THEN w
  ELSE Append(Front(w), [Last(w) EXCEPT !.entries =
                           Append(@, [inode_number |-> done.inode_number, name |-> Last(done.path)])])

LeaveDirectory ==
  /\ InWalk /\ Top.todo = {}
  /\ LET content == Content(Top.entries)
     IN /\ out' = WriteDirectory(out, content)
        /\ inodes' = [inodes EXCEPT ![Top.inode_number + 1] =
             Inode(DIRECTORY, Len(content), DirectoryBlocks(Tell(out), Len(Top.entries)))]
  /\ walk' = WithParent(Front(walk), Top)
  /\ UNCHANGED placed

ToolInit ==
  /\ host \in Hosts
  /\ out = [b \in {FIRST_DATA_BLOCK - 1} |-> Bytes]
  /\ walk = <<[path |-> <<>>, inode_number |-> 0, todo |-> Children(host, <<>>), entries |-> <<>>]>>
  /\ inodes = <<Inode(0, 0, NoBlocks)>>
  /\ placed = [p \in {<<>>} |-> 0]

ToolNext ==
  \/ \E path \in DOMAIN host : PackFile(path) \/ SkipFile(path) \/ EnterDirectory(path)
  \/ LeaveDirectory

Packed == walk = <<>>
=============================================================================
