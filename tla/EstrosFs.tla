------------------------------ MODULE EstrosFs ------------------------------
(***************************************************************************)
(* The data path of the file-system driver, kernel/filesystem/estros-fs.c, *)
(* on the disk driver kernel/harddrive/hdd.c: every open file has a cache  *)
(* of a few blocks, a write goes through the cache to the disk and then    *)
(* writes the inode, blocks are handed out by a counter in the super       *)
(* block.  Power may fail between any two sectors of a write.              *)
(*                                                                         *)
(* A sector holds one word; a word is file data or the number of a block.  *)
(* System calls run with interrupts off, so a write is one step, or a      *)
(* prefix of its sector writes and a reboot.  Preempted reads are not      *)
(* modelled here.  A file's inode exists already and malloc has room.      *)
(***************************************************************************)
EXTENDS Integers, Sequences, FiniteSets

CONSTANTS Files, Handles,
          Data,             \* the words callers write
          Garbage,          \* a word nobody wrote: boot code, or a fresh buffer
          BLOCK_SIZE,       \* words, and so sectors and pointers, in a block
          NUM_DIRECT_BLOCKS,
          BUFFER_SIZE_BLOCKS,
          UintWrap,         \* 2^32
          OldSize,          \* words in a file that is there from the start
          MaxBlock,         \* bound: the last block of the disk
          MaxSize,          \* bound: words in the longest file
          Requests,         \* words that a caller asks to read or write
          Offsets,          \* offsets that a caller seeks to
          MaxWrites         \* bound: calls of fs_write

ASSUME GeometryAssumption ==
  /\ BLOCK_SIZE \in Nat \ {0} /\ NUM_DIRECT_BLOCKS \in Nat \ {0}
  /\ BUFFER_SIZE_BLOCKS \in Nat \ {0}
  /\ {OldSize, MaxBlock, MaxSize, MaxWrites, UintWrap} \subseteq Nat
  /\ Requests \subseteq Nat /\ Offsets \subseteq 0..MaxSize
  /\ \A n \in Requests : MaxSize + n < UintWrap
  /\ MaxSize + BUFFER_SIZE_BLOCKS * BLOCK_SIZE < UintWrap
  /\ OldSize <= MaxSize /\ "none" \notin Files

VARIABLES disk,     \* what survives a power failure
          n_blocks, \* the super block in memory
          inode,    \* the inodes the VFS keeps in memory
          handle,   \* open files
          dirty,    \* files written from a stale cache or past their end
          writes,   \* number of calls of fs_write, for the bound
          fault     \* what stopped the kernel, and the size of the request

vars == <<disk, n_blocks, inode, handle, dirty, writes, fault>>

Uint(n) == n % UintWrap
Sectors == 0..(BLOCK_SIZE - 1)
BufferSize == BUFFER_SIZE_BLOCKS * BLOCK_SIZE
SINGLE_INDIRECT_INDEX == NUM_DIRECT_BLOCKS
DOUBLE_INDIRECT_INDEX == NUM_DIRECT_BLOCKS + 1
TRIPLE_INDIRECT_INDEX == NUM_DIRECT_BLOCKS + 2

Cell == Data \cup {Garbage} \cup 0..(MaxBlock + 1)
Inode == [size : 0..(UintWrap - 1), blocks : [0..TRIPLE_INDIRECT_INDEX -> 0..MaxBlock]]
Block == [Sectors -> Cell]
Disk == [n_blocks : 0..(MaxBlock + 1), inode : [Files -> Inode], block : [0..MaxBlock -> Block]]

\* Closed, or a VFSFile with its FileData.  "stale" is not in the code: the
\* file was written through another handle since this one loaded its cache.
Closed == [file |-> "none"]
NULL == <<>>
FileData == [file : Files, position : 0..(UintWrap - 1),
             range_low : 0..(UintWrap - 1), range_high : 0..(UintWrap - 1),
             data : [0..(BufferSize - 1) -> Cell] \cup {NULL}, stale : BOOLEAN]

NoFault == [kind |-> "none", n |-> 0]
Fault(kind, n) == fault' = [kind |-> kind, n |-> n]
                  /\ UNCHANGED <<disk, n_blocks, inode, handle, dirty, writes>>

-----------------------------------------------------------------------------
(* From a block of a file to a block of the disk.                          *)

InSingle(n) == n - NUM_DIRECT_BLOCKS
InDouble(n) == InSingle(n) - BLOCK_SIZE
InTriple(n) == InDouble(n) - BLOCK_SIZE * BLOCK_SIZE

\* A pointer that was never written as one leads off the disk of the model.
ReadBlock(d, n) == IF n \in DOMAIN d.block THEN d.block[n] ELSE [s \in Sectors |-> Garbage]
Follow(d, root, path) ==
  LET one == ReadBlock(d, root)[path[1]]
      two == ReadBlock(d, one)[path[2]]
      three == ReadBlock(d, two)[path[3]]
  IN CASE Len(path) = 0 -> root [] Len(path) = 1 -> one
       [] Len(path) = 2 -> two [] Len(path) = 3 -> three

\* The first index into "blocks", and the path of indices below it.
Root(n) == IF InSingle(n) < 0 THEN n
           ELSE IF InDouble(n) < 0 THEN SINGLE_INDIRECT_INDEX
           ELSE IF InTriple(n) < 0 THEN DOUBLE_INDIRECT_INDEX
           ELSE TRIPLE_INDIRECT_INDEX
Path(n) ==
  CASE Root(n) = SINGLE_INDIRECT_INDEX -> <<InSingle(n)>>
    [] Root(n) = DOUBLE_INDIRECT_INDEX ->
         <<InDouble(n) \div BLOCK_SIZE, InDouble(n) % BLOCK_SIZE>>
    [] Root(n) = TRIPLE_INDIRECT_INDEX ->
         <<InTriple(n) \div (BLOCK_SIZE * BLOCK_SIZE),
           (InTriple(n) \div BLOCK_SIZE) % BLOCK_SIZE, InTriple(n) % BLOCK_SIZE>>
    [] OTHER -> <<>>
RealBlock(d, blocks, n) == Follow(d, blocks[Root(n)], Path(n))

-----------------------------------------------------------------------------
(* The cache of an open file: hd is its handle, i the inode of its file.   *)

\* Mutant of Misses: the length of the request is forgotten.
MissesByPosition(hd, n) ==
  \/ hd.position >= hd.range_high
  \/ hd.position < hd.range_low
  \/ hd.range_high = hd.range_low

Misses(hd, n) ==
  \/ Uint(hd.position + n) > hd.range_high
  \/ hd.position < hd.range_low
  \/ hd.range_high = hd.range_low

\* harddrive_load_blocks stops at the first block that is missing, and fails
\* when that is the one asked for.
Present(i, hd, k) == \A j \in 0..k : RealBlock(disk, i.blocks, hd.position \div BLOCK_SIZE + j) # 0
LoadFails(i, hd) == ~Present(i, hd, 0)
harddrive_load_blocks(i, hd) ==
  [w \in 0..(BufferSize - 1) |->
     IF Present(i, hd, w \div BLOCK_SIZE)
     THEN LET n == hd.position \div BLOCK_SIZE + w \div BLOCK_SIZE
          IN ReadBlock(disk, RealBlock(disk, i.blocks, n))[w % BLOCK_SIZE]
     ELSE hd.data[w]]

\* Mutant of Window: the range starts at the position, not at its block.
WindowAtPosition(hd, data) ==
  [hd EXCEPT !.data = data, !.range_low = hd.position,
             !.range_high = hd.position + BufferSize, !.stale = FALSE]

Window(hd, data) ==
  LET low == (hd.position \div BLOCK_SIZE) * BLOCK_SIZE
  IN [hd EXCEPT !.data = data, !.range_low = low, !.range_high = low + BufferSize, !.stale = FALSE]

\* Mutant of Filled: a write that misses the cache never loads.
FilledFresh(i, hd, n) ==
  IF Misses(hd, n) THEN Window(hd, [w \in 0..(BufferSize - 1) |-> Garbage]) ELSE hd

\* The handle when a request of n words has what it needs in the cache: an
\* empty file starts with a fresh buffer, the others load what they miss.
Filled(i, hd, n) ==
  IF ~Misses(hd, n) THEN hd
  ELSE IF i.size = 0 THEN Window(hd, [w \in 0..(BufferSize - 1) |-> Garbage])
  ELSE Window(hd, harddrive_load_blocks(i, hd))

\* How a request meets the cache: the load fails, the buffer pointer is the
\* NULL of an earlier failure, the request runs past the buffer, or all is well.
Meets(i, hd, n) ==
  IF Misses(hd, n) /\ i.size # 0 /\ LoadFails(i, hd) THEN "refused"
  ELSE IF hd.data = NULL THEN "null"
  ELSE IF n > 0 /\ Filled(i, hd, n).position - Filled(i, hd, n).range_low + n > BufferSize THEN "bounds"
  ELSE "served"

-----------------------------------------------------------------------------
(* A write under way: the blocks of its inode, the super block in memory,  *)
(* the disk as the driver sees it and the log of what it wrote, in order.  *)

Apply(d, e) ==
  CASE e.part = "super" -> [d EXCEPT !.n_blocks = e.data]
    [] e.part = "inode" -> [d EXCEPT !.inode[e.at] = e.data]
    [] e.part = "block" -> [d EXCEPT !.block[e.at] = e.data]

Put(w, part, at, data) ==
  LET e == [part |-> part, at |-> at, data |-> data]
  IN [w EXCEPT !.disk = Apply(@, e), !.log = Append(@, e)]

\* Mutant of alloc_block: the counter is not written to the disk.
AllocInMemory(w) == [w EXCEPT !.n_blocks = @ + 1]

alloc_block(w) == Put([w EXCEPT !.n_blocks = @ + 1], "super", 0, w.n_blocks + 1)

\* The block that an index of the inode names, or an entry of a pointer block.
WithRoot(w, r) ==
  IF w.blocks[r] # 0 THEN w ELSE [alloc_block(w) EXCEPT !.blocks[r] = w.n_blocks]
WithEntry(w, b, k) ==
  IF ReadBlock(w.disk, b)[k] # 0 THEN w
  ELSE Put(alloc_block(w), "block", b, [ReadBlock(w.disk, b) EXCEPT ![k] = w.n_blocks])

\* The block for block n of the file, with the pointers that lead to it.
WithBlock(w, n) ==
  LET path == Path(n)
      top == WithRoot(w, Root(n))
      one == WithEntry(top, top.blocks[Root(n)], path[1])
  IN CASE Len(path) = 0 -> top
       [] Len(path) = 1 -> one
       [] Len(path) = 2 -> WithEntry(one, Follow(one.disk, one.blocks[Root(n)], <<path[1]>>), path[2])

\* Triple-indirect blocks are commented out: the write ends there.
WriteBlock(w, n, data) ==
  IF Root(n) = TRIPLE_INDIRECT_INDEX THEN w
  ELSE LET v == WithBlock(w, n)
       IN Put(v, "block", RealBlock(v.disk, v.blocks, n), data)

harddrive_write_blocks(w, hd, count) ==
  LET first == hd.range_low \div BLOCK_SIZE
      upTo[k \in 0..count] ==
        IF k = 0 THEN w
        ELSE WriteBlock(upTo[k - 1], first + k - 1,
                        [s \in Sectors |-> hd.data[(k - 1) * BLOCK_SIZE + s]])
  IN upTo[count]

\* Mutant of write_inode: the inode is written before the blocks it leads to.
InodeFirst(log, f, i) == <<[part |-> "inode", at |-> f, data |-> i]>> \o log

write_inode(log, f, i) == Append(log, [part |-> "inode", at |-> f, data |-> i])

\* What is left of a write when power fails behind its first k entries and the
\* first t sectors of the next one.
Survivor(log, k, t) ==
  LET upTo[j \in 0..k] == IF j = 0 THEN disk ELSE Apply(upTo[j - 1], log[j])
      next == log[k + 1]
  IN IF t = 0 THEN upTo[k]
     ELSE [upTo[k] EXCEPT !.block[next.at] =
             [s \in Sectors |-> IF s < t THEN next.data[s] ELSE @[s]]]

-----------------------------------------------------------------------------
(* Operations.                                                             *)

Open(f) == {h \in Handles : handle[h].file = f}

fs_open(h, f) ==
  /\ handle[h] = Closed
  /\ handle' = [handle EXCEPT ![h] =
       [file |-> f, position |-> 0, range_low |-> 0, range_high |-> 0,
        data |-> [w \in 0..(BufferSize - 1) |-> Garbage], stale |-> FALSE]]
  /\ UNCHANGED <<disk, n_blocks, inode, dirty, writes, fault>>

fs_close(h) ==
  /\ handle[h] # Closed
  /\ handle' = [handle EXCEPT ![h] = Closed]
  /\ UNCHANGED <<disk, n_blocks, inode, dirty, writes, fault>>

\* fs_read.  A long request is served a buffer at a time; the loop goes on
\* with a whole buffer when less than that is left to read.
Least(m, n) == IF m < n THEN m ELSE n
fs_read(h, n) ==
  LET i == inode[handle[h].file]
      size == Least(n, i.size - handle[h].position)
      piece == Least(size, BufferSize)
      Turn(r) == IF r.is # "served" THEN r
                 ELSE [is |-> Meets(i, r.hd, piece),
                       hd |-> IF Meets(i, r.hd, piece) = "served"
                              THEN [Filled(i, r.hd, piece) EXCEPT !.position = @ + piece] ELSE r.hd]
      after[k \in 0..(size \div piece)] ==
        IF k = 0 THEN [is |-> "served", hd |-> handle[h]] ELSE Turn(after[k - 1])
      last == after[size \div piece]
  IN
  /\ handle[h] # Closed
  /\ n > 0 /\ handle[h].position < i.size
  /\ \/ /\ last.is \in {"null", "bounds"}
        /\ Fault(last.is, size)
     \/ /\ last.is = "served" /\ size % piece # 0
        /\ Fault("underflow", size)
     \/ /\ last.is = "refused" \/ (last.is = "served" /\ size % piece = 0)
        /\ handle' = [handle EXCEPT ![h] = last.hd]
        /\ UNCHANGED <<disk, n_blocks, inode, dirty, writes, fault>>

\* What fs_write leaves: the handle, and the log that ends with write_inode.
Greatest(m, n) == IF m > n THEN m ELSE n
Written(h, n, v) ==
  LET i == inode[handle[h].file]
      hd == Filled(i, handle[h], n)
      from == hd.position - hd.range_low
      size == Greatest(i.size, hd.position + n)
      number_to_write == IF BUFFER_SIZE_BLOCKS > size \div BLOCK_SIZE + 1
                         THEN (size + BLOCK_SIZE - 1) \div BLOCK_SIZE ELSE BUFFER_SIZE_BLOCKS
      new == [hd EXCEPT !.position = @ + n,
                        !.data = [w \in DOMAIN @ |-> IF w \in from..(from + n - 1) THEN v ELSE @[w]]]
      w == harddrive_write_blocks(
             [blocks |-> i.blocks, n_blocks |-> n_blocks, disk |-> disk, log |-> <<>>],
             new, number_to_write)
      written == [size |-> size, blocks |-> w.blocks]
  IN [hd |-> new, n_blocks |-> w.n_blocks, inode |-> written,
      log |-> write_inode(w.log, handle[h].file, written)]

MayWrite(h, n) ==
  /\ handle[h] # Closed
  /\ writes < MaxWrites
  /\ handle[h].position + n <= MaxSize

\* A write behind the end of the file, or through a cache that another handle
\* has made stale, is outside what the driver can do.
Soiled(h, n) ==
  LET f == handle[h].file
      hd == Filled(inode[f], handle[h], n)
  IN IF hd.stale \/ hd.position > inode[f].size THEN dirty \cup {f} ELSE dirty

Returns(h, done) ==
  LET f == handle[h].file
  IN
  /\ disk' = Survivor(done.log, Len(done.log), 0)
  /\ n_blocks' = done.n_blocks
  /\ inode' = [inode EXCEPT ![f] = done.inode]
  /\ handle' = [g \in Handles |->
       IF g = h THEN done.hd
       ELSE IF g \in Open(f) THEN [handle[g] EXCEPT !.stale = TRUE] ELSE handle[g]]

\* The kernel boots: it reads the super block; the VFS reads inodes as files are opened.
Boot(d) ==
  /\ disk' = d
  /\ n_blocks' = d.n_blocks
  /\ inode' = d.inode
  /\ handle' = [h \in Handles |-> Closed]

PowerFailsAmid(log) ==
  \E k \in 0..(Len(log) - 1), t \in Sectors :
    /\ t > 0 => log[k + 1].part = "block"
    /\ Boot(Survivor(log, k, t))

fs_write(h, n, v) ==
  LET done == Written(h, n, v)
  IN
  /\ MayWrite(h, n)
  /\ Meets(inode[handle[h].file], handle[h], n) = "served"
  /\ done.n_blocks <= MaxBlock + 1
  /\ Returns(h, done) \/ PowerFailsAmid(done.log)
  /\ dirty' = Soiled(h, n)
  /\ writes' = writes + 1
  /\ UNCHANGED fault

\* fd->data keeps the NULL that the failed load returned.
WriteRefused(h, n) ==
  /\ MayWrite(h, n)
  /\ Meets(inode[handle[h].file], handle[h], n) = "refused"
  /\ handle' = [handle EXCEPT ![h].data = NULL]
  /\ UNCHANGED <<disk, n_blocks, inode, dirty, writes, fault>>

WriteFaults(h, n) ==
  LET is == Meets(inode[handle[h].file], handle[h], n)
  IN MayWrite(h, n) /\ is \in {"null", "bounds"} /\ Fault(is, n)

fs_seek(h, offset, whence) ==
  LET size == inode[handle[h].file].size
      position == handle[h].position
      target ==
        CASE whence = "VFS_BEG" -> IF offset < Uint(size - 1) THEN offset ELSE Uint(size - 1)
          [] whence = "VFS_CUR" -> IF Uint(offset + position) < Uint(size - 1)
                                   THEN Uint(position + offset) ELSE Uint(position + size - 1)
          [] whence = "VFS_END" -> IF Uint(size - 1 - offset) > 0 THEN Uint(size - offset) ELSE 0
  IN
  /\ handle[h] # Closed
  /\ target <= MaxSize \/ target = UintWrap - 1
  /\ handle' = [handle EXCEPT ![h].position = target]
  /\ UNCHANGED <<disk, n_blocks, inode, dirty, writes, fault>>

PowerFails == Boot(disk) /\ UNCHANGED <<dirty, writes, fault>>

\* A disk of empty files, or with one file that was written block after block.
\* Block 0 is the boot sector's; what its code holds is not known.
Blank(boot) ==
  [n_blocks |-> 1,
   inode |-> [f \in Files |-> [size |-> 0, blocks |-> [b \in 0..TRIPLE_INDIRECT_INDEX |-> 0]]],
   block |-> [b \in 0..MaxBlock |-> IF b = 0 THEN boot ELSE [s \in Sectors |-> 0]]]
WithFile(d, f, size) ==
  LET w == harddrive_write_blocks(
             [blocks |-> d.inode[f].blocks, n_blocks |-> d.n_blocks, disk |-> d, log |-> <<>>],
             [range_low |-> 0, data |-> [p \in 0..(size + BLOCK_SIZE) |-> Garbage]],
             (size + BLOCK_SIZE - 1) \div BLOCK_SIZE)
  IN [w.disk EXCEPT !.n_blocks = w.n_blocks, !.inode[f] = [size |-> size, blocks |-> w.blocks]]

Init ==
  /\ \E word \in {0, Garbage}, f \in Files, size \in {0, OldSize} :
       disk = WithFile(Blank([s \in Sectors |-> word]), f, size)
  /\ disk.n_blocks <= MaxBlock + 1
  /\ n_blocks = disk.n_blocks
  /\ inode = disk.inode
  /\ handle = [h \in Handles |-> Closed]
  /\ dirty = {}
  /\ writes = 0
  /\ fault = NoFault

Next ==
  /\ fault = NoFault
  /\ \/ PowerFails
     \/ \E h \in Handles :
          \/ \E f \in Files : fs_open(h, f)
          \/ fs_close(h)
          \/ \E n \in Requests :
               \/ fs_read(h, n)
               \/ WriteRefused(h, n)
               \/ WriteFaults(h, n)
               \/ \E v \in Data : fs_write(h, n, v)
          \/ \E offset \in Offsets, whence \in {"VFS_BEG", "VFS_CUR", "VFS_END"} :
               fs_seek(h, offset, whence)

Spec == Init /\ [][Next]_vars

-----------------------------------------------------------------------------
(* Properties.                                                             *)

\* Every variable has its type: blocks and pointers stay on the disk, a cache
\* is a whole buffer or NULL.
TypeOK ==
  /\ disk \in Disk
  /\ n_blocks \in 0..(MaxBlock + 1)
  /\ inode \in [Files -> Inode]
  /\ handle \in [Handles -> FileData \cup {Closed}]
  /\ dirty \subseteq Files
  /\ writes \in 0..MaxWrites
  /\ fault \in [kind : {"none", "null", "bounds", "underflow"}, n : Nat]

BlocksOf(size) == {p \div BLOCK_SIZE : p \in 0..(size - 1)}
Content(f) ==
  LET i == disk.inode[f]
      block == [b \in BlocksOf(i.size) |-> ReadBlock(disk, RealBlock(disk, i.blocks, b))]
  IN [p \in 0..(i.size - 1) |-> block[p \div BLOCK_SIZE][p % BLOCK_SIZE]]

\* Every pointer that the files on the disk lead to: its file and its path.
Target(x) == Follow(disk, disk.inode[x.file].blocks[x.root], x.path)
Live(xs) == {x \in xs : Target(x) # 0}
Below(xs, root) ==
  Live({[x EXCEPT !.path = Append(@, k)] : x \in {y \in xs : y.root >= root}, k \in Sectors})
Pointers ==
  LET roots == Live([file : Files, root : 0..DOUBLE_INDIRECT_INDEX, path : {<<>>}])
      ones == Below(roots, SINGLE_INDIRECT_INDEX)
  IN roots \cup ones \cup Below(ones, DOUBLE_INDIRECT_INDEX)

\* alloc_block, estros-fs.c:79: no block is data or pointers of two places, and
\* none is still to be handed out, on the disk that a power failure leaves too.
BlocksHaveOneOwner ==
  LET pointers == Pointers
      targets == {Target(x) : x \in pointers}
  IN targets \subseteq 1..(disk.n_blocks - 1) /\ Cardinality(targets) = Cardinality(pointers)

\* harddrive_write_blocks before write_inode, estros-fs.c:455-457: an inode on
\* the disk never claims more than the blocks it leads to, at any cut.
SizeIsBacked ==
  LET pointers == Pointers
  IN \A f \in Files \ dirty : \A b \in BlocksOf(disk.inode[f].size) :
       [file |-> f, root |-> Root(b), path |-> Path(b)] \in pointers

\* The cache of an open file, estros-fs.c:401-410 and 426-441: what it holds
\* of the file is what the disk holds, unless another handle wrote the file.
CacheMatchesDisk ==
  \A h \in Handles : handle[h] # Closed /\ handle[h].data # NULL
                    /\ ~handle[h].stale /\ handle[h].file \notin dirty =>
    LET hd == handle[h]
        content == Content(hd.file)
    IN \A p \in DOMAIN content :
         hd.range_low <= p /\ p < hd.range_high => hd.data[p - hd.range_low] = content[p]

\* estros-fs.c:396-415: a request that leaves a block of the buffer free, but
\* for one byte, stays inside it wherever the position is.
SmallRequestsStayInside ==
  fault.kind \in {"bounds", "underflow"} => fault.n > BufferSize - BLOCK_SIZE + 1

\* The files on the disk behave as AbstractFiles promises, power failures
\* included, until one is written behind its end or through a stale cache.
Promise == INSTANCE AbstractFiles WITH
  content <- [f \in Files \ dirty |-> Content(f)]
KeepsContents == Promise!Spec
=============================================================================
