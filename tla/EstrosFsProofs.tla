--------------------------- MODULE EstrosFsProofs ---------------------------
(***************************************************************************)
(* EstrosFs.tla for every geometry of the disk and every length of files.  *)
(***************************************************************************)
EXTENDS EstrosFs, Recursion, FunctionTheorems, SequenceTheorems

-----------------------------------------------------------------------------
(* Arithmetic of positions, blocks and paths.                              *)

LEMMA SizesAre ==
  /\ BLOCK_SIZE \in Nat \ {0} /\ NUM_DIRECT_BLOCKS \in Nat \ {0}
  /\ BUFFER_SIZE_BLOCKS \in Nat \ {0} /\ BufferSize \in Nat \ {0}
  /\ MaxBlock \in Nat /\ MaxSize \in Nat /\ UintWrap \in Nat /\ MaxWrites \in Nat
  /\ OldSize \in 0..MaxSize /\ BufferSize >= BLOCK_SIZE
  /\ MaxSize + BufferSize < UintWrap
  /\ Requests \subseteq Nat /\ Offsets \subseteq 0..MaxSize
  /\ \A n \in Requests : MaxSize + n < UintWrap
<1>1. /\ BLOCK_SIZE \in Nat \ {0} /\ NUM_DIRECT_BLOCKS \in Nat \ {0}
      /\ BUFFER_SIZE_BLOCKS \in Nat \ {0}
      /\ MaxBlock \in Nat /\ MaxSize \in Nat /\ UintWrap \in Nat /\ MaxWrites \in Nat
      /\ OldSize \in 0..MaxSize
      /\ MaxSize + BUFFER_SIZE_BLOCKS * BLOCK_SIZE < UintWrap
      /\ Requests \subseteq Nat /\ Offsets \subseteq 0..MaxSize
      /\ \A n \in Requests : MaxSize + n < UintWrap
  BY GeometryAssumption
<1>2. /\ BUFFER_SIZE_BLOCKS * BLOCK_SIZE \in Nat \ {0}
      /\ BUFFER_SIZE_BLOCKS * BLOCK_SIZE >= BLOCK_SIZE
  <2>1. BUFFER_SIZE_BLOCKS >= 1 /\ BLOCK_SIZE >= 1 BY <1>1
  <2> QED BY <1>1, <2>1, SMTT(30)
<1> QED BY <1>1, <1>2 DEF BufferSize

LEMMA Division ==
  ASSUME NEW a \in Nat, NEW p \in Nat \ {0}
  PROVE  /\ a \div p \in Nat /\ a % p \in 0..(p - 1)
         /\ a = p * (a \div p) + (a % p)
         /\ a \div p <= a
OBVIOUS

LEMMA QuotientBelow ==
  ASSUME NEW a \in Nat, NEW p \in Nat \ {0}, NEW q \in Nat, a < p * q
  PROVE  a \div p \in 0..(q - 1)
<1> DEFINE d == a \div p
           r == a % p
<1>1. d \in Nat /\ r \in 0..(p - 1) /\ a = p * d + r BY Division
<1> HIDE DEF d, r
<1>2. SUFFICES ASSUME d >= q PROVE FALSE BY <1>1 DEF d
<1>3. PICK e \in Nat : d = q + e
  <2>1. d - q \in Nat /\ d = q + (d - q) BY <1>1, <1>2
  <2> QED BY <2>1
<1>4. p * d = p * q + p * e BY <1>3, SMTT(30)
<1>5. p * e \in Nat /\ p * q \in Nat BY <1>3, SMTT(30)
<1> QED BY <1>1, <1>4, <1>5

LEMMA Scaled ==
  ASSUME NEW p \in Nat, NEW k \in Nat, NEW q \in Nat, k <= q
  PROVE  p * k \in Nat /\ p * q \in Nat /\ p * k <= p * q /\ p * (k + 1) = p * k + p
<1>1. PICK e \in Nat : q = k + e
  <2>1. q - k \in Nat /\ q = k + (q - k) OBVIOUS
  <2> QED BY <2>1
<1>2. p * k \in Nat /\ p * e \in Nat BY SMTT(30)
<1>3. p * q = p * k + p * e BY <1>1, SMTT(30)
<1>4. p * (k + 1) = p * k + p BY SMTT(30)
<1> QED BY <1>2, <1>3, <1>4

\* A quotient and a remainder are all there is to a number.
LEMMA QuotientIs ==
  ASSUME NEW p \in Nat \ {0}, NEW q \in Nat, NEW r \in 0..(p - 1)
  PROVE  (p * q + r) \div p = q /\ (p * q + r) % p = r
<1> DEFINE a == p * q + r
<1>1. p * q \in Nat BY SMTT(30)
<1>2. a \in Nat BY <1>1
<1> DEFINE d == a \div p
           s == a % p
<1>3. d \in Nat /\ s \in 0..(p - 1) /\ a = p * d + s BY <1>2, Division
<1>4. p * q + r = p * d + s BY <1>3
<1> HIDE DEF d, s, a
<1>5. ASSUME d > q PROVE FALSE
  <2>1. PICK e \in Nat : d = q + 1 + e
    <3>1. d - q - 1 \in Nat /\ d = q + 1 + (d - q - 1) BY <1>3, <1>5
    <3> QED BY <3>1
  <2>2. p * d = p * q + p + p * e BY <2>1, SMTT(30)
  <2>3. p * e \in Nat BY <2>1, SMTT(30)
  <2> QED BY <1>1, <1>3, <1>4, <2>2, <2>3
<1>6. ASSUME q > d PROVE FALSE
  <2>1. PICK e \in Nat : q = d + 1 + e
    <3>1. q - d - 1 \in Nat /\ q = d + 1 + (q - d - 1) BY <1>3, <1>6
    <3> QED BY <3>1
  <2>2. p * q = p * d + p + p * e BY <1>3, <2>1, SMTT(30)
  <2>3. p * e \in Nat /\ p * d \in Nat BY <1>3, <2>1, SMTT(30)
  <2> QED BY <1>3, <1>4, <2>2, <2>3
<1>7. d = q BY <1>3, <1>5, <1>6
<1>8. s = r BY <1>1, <1>3, <1>4, <1>7
<1> QED BY <1>7, <1>8 DEF d, s, a

\* The paths of the blocks that a write reaches.
IsPath(root, path) ==
  \/ root \in 0..(NUM_DIRECT_BLOCKS - 1) /\ path = <<>>
  \/ root = SINGLE_INDIRECT_INDEX /\ \E a \in Sectors : path = <<a>>
  \/ root = DOUBLE_INDIRECT_INDEX /\ \E a, b \in Sectors : path = <<a, b>>
  \/ root = TRIPLE_INDIRECT_INDEX

LEMMA PathIs ==
  ASSUME NEW n \in Nat
  PROVE  IsPath(Root(n), Path(n)) /\ Root(n) \in 0..TRIPLE_INDIRECT_INDEX
<1> DEFINE B == BLOCK_SIZE
           N == NUM_DIRECT_BLOCKS
<1>1. B \in Nat \ {0} /\ N \in Nat \ {0} BY SizesAre
<1>2. B * B \in Nat \ {0}
  <2>1. B >= 1 BY <1>1
  <2> QED BY <1>1, <2>1, SMTT(30)
<1>3. /\ SINGLE_INDIRECT_INDEX = N /\ DOUBLE_INDIRECT_INDEX = N + 1
      /\ TRIPLE_INDIRECT_INDEX = N + 2 /\ Sectors = 0..(B - 1)
      /\ InSingle(n) = n - N /\ InDouble(n) = n - N - B
      /\ InTriple(n) = n - N - B - B * B
  BY DEF SINGLE_INDIRECT_INDEX, DOUBLE_INDIRECT_INDEX, TRIPLE_INDIRECT_INDEX, Sectors,
         InSingle, InDouble, InTriple
<1>4. CASE n < N
  <2>1. Root(n) = n BY <1>1, <1>3, <1>4 DEF Root
  <2>2. Path(n) = <<>> BY <1>1, <1>3, <1>4, <2>1 DEF Path
  <2> QED BY <1>1, <1>3, <1>4, <2>1, <2>2 DEF IsPath
<1>5. CASE n >= N /\ n - N < B
  <2>1. Root(n) = SINGLE_INDIRECT_INDEX BY <1>1, <1>3, <1>5 DEF Root
  <2>2. Path(n) = <<n - N>> BY <1>1, <1>3, <2>1 DEF Path
  <2>3. n - N \in Sectors BY <1>1, <1>3, <1>5
  <2> QED BY <1>1, <1>3, <2>1, <2>2, <2>3 DEF IsPath
<1>6. CASE n - N >= B /\ n - N - B < B * B
  <2>1. Root(n) = DOUBLE_INDIRECT_INDEX BY <1>1, <1>2, <1>3, <1>6 DEF Root
  <2>2. Path(n) = <<(n - N - B) \div B, (n - N - B) % B>>
    BY <1>1, <1>3, <2>1 DEF Path
  <2>3. n - N - B \in Nat BY <1>1, <1>6
  <2>4. (n - N - B) \div B \in Sectors
    <3> HIDE DEF B
    <3> QED BY <1>1, <1>3, <1>6, <2>3, QuotientBelow
  <2>5. (n - N - B) % B \in Sectors
    <3> HIDE DEF B
    <3> QED BY <1>1, <1>3, <2>3, Division
  <2> QED BY <1>1, <1>3, <2>1, <2>2, <2>4, <2>5 DEF IsPath
<1>7. CASE n - N >= B /\ n - N - B >= B * B
  <2>1. Root(n) = TRIPLE_INDIRECT_INDEX BY <1>1, <1>2, <1>3, <1>7 DEF Root
  <2> QED BY <1>1, <1>3, <2>1 DEF IsPath
<1>8. n < N \/ (n >= N /\ n - N < B) \/ (n - N >= B /\ n - N - B < B * B)
      \/ (n - N >= B /\ n - N - B >= B * B)
  BY <1>1, <1>2
<1> QED BY <1>4, <1>5, <1>6, <1>7, <1>8

-----------------------------------------------------------------------------
(* The disk and a write under way, when block numbers are in B: all of     *)
(* them while a write counts up, those of the disk when it succeeded.      *)

OnDisk == 0..(MaxBlock + 1)
Counts == {Nat, OnDisk}

Words(B) == Data \cup {Garbage} \cup B
BlocksAt(B) == [Sectors -> Words(B)]
RootsAt(B) == [0..TRIPLE_INDIRECT_INDEX -> {b \in Nat : b + 1 \in B}]
DisksAt(B) == [n_blocks : B, inode : [Files -> Inode], block : [0..MaxBlock -> BlocksAt(B)]]
EntriesAt(B) == [part : {"super"}, at : {0}, data : B]
                \cup [part : {"block"}, at : Words(B), data : BlocksAt(B)]
States(B) == [blocks : RootsAt(B), n_blocks : B, disk : DisksAt(B), log : Seq(EntriesAt(B))]

SetBlock(d, b, data) == [d EXCEPT !.block[b] = data]
State(blocks, n, d, log) == [blocks |-> blocks, n_blocks |-> n, disk |-> d, log |-> log]

LEMMA OnDiskIs ==
  /\ Words(OnDisk) = Cell /\ BlocksAt(OnDisk) = Block /\ DisksAt(OnDisk) = Disk
  /\ RootsAt(OnDisk) = [0..TRIPLE_INDIRECT_INDEX -> 0..MaxBlock]
<1>1. {b \in Nat : b + 1 \in OnDisk} = 0..MaxBlock BY SizesAre DEF OnDisk
<1>2. Words(OnDisk) = Cell BY DEF Words, Cell, OnDisk
<1>3. BlocksAt(OnDisk) = Block BY <1>2 DEF BlocksAt, Block
<1> QED BY <1>1, <1>2, <1>3 DEF DisksAt, Disk, RootsAt, OnDisk

LEMMA CountIs ==
  ASSUME NEW B \in Counts
  PROVE  /\ B \subseteq Nat /\ 0 \in B /\ B \subseteq Words(B)
         /\ \A m \in B : \A n \in 0..m : n \in B
         /\ Cell \subseteq Words(B) /\ Block \subseteq BlocksAt(B)
         /\ Words(B) \subseteq Words(Nat) /\ BlocksAt(B) \subseteq BlocksAt(Nat)
         /\ RootsAt(B) \subseteq RootsAt(Nat)
         /\ DisksAt(B) \subseteq DisksAt(Nat) /\ EntriesAt(B) \subseteq EntriesAt(Nat)
         /\ States(B) \subseteq States(Nat)
<1>1. /\ OnDisk \subseteq Nat /\ 0 \in OnDisk
      /\ \A m \in OnDisk : \A n \in 0..m : n \in OnDisk
  BY SizesAre DEF OnDisk
<1>2. /\ B \subseteq Nat /\ 0 \in B /\ \A m \in B : \A n \in 0..m : n \in B
      /\ OnDisk \subseteq B
  BY <1>1 DEF Counts
<1>3. /\ Cell \subseteq Words(B) /\ Words(B) \subseteq Words(Nat)
      /\ B \subseteq Words(B)
  BY <1>2 DEF Cell, Words, OnDisk
<1>4. Block \subseteq BlocksAt(B) /\ BlocksAt(B) \subseteq BlocksAt(Nat)
  BY <1>3 DEF Block, BlocksAt
<1>5. RootsAt(B) \subseteq RootsAt(Nat)
  <2>1. {b \in Nat : b + 1 \in B} \subseteq {b \in Nat : b + 1 \in Nat} OBVIOUS
  <2> QED BY <2>1 DEF RootsAt
<1>6. DisksAt(B) \subseteq DisksAt(Nat) BY <1>2, <1>4 DEF DisksAt
<1>7. EntriesAt(B) \subseteq EntriesAt(Nat) BY <1>2, <1>3, <1>4 DEF EntriesAt
<1>8. Seq(EntriesAt(B)) \subseteq Seq(EntriesAt(Nat))
  <2>1. ASSUME NEW q \in Seq(EntriesAt(B)) PROVE q \in Seq(EntriesAt(Nat))
    <3>1. q \in [1..Len(q) -> EntriesAt(B)] /\ Len(q) \in Nat BY LenProperties
    <3>2. q \in [1..Len(q) -> EntriesAt(Nat)] BY <1>7, <3>1
    <3> QED BY <3>1, <3>2, SeqDef
  <2> QED BY <2>1
<1>9. States(B) \subseteq States(Nat) BY <1>2, <1>5, <1>6, <1>8 DEF States
<1> QED BY <1>2, <1>3, <1>4, <1>5, <1>6, <1>7, <1>9

LEMMA ReadBlockType ==
  ASSUME NEW B \in Counts, NEW d \in DisksAt(B), NEW n
  PROVE  ReadBlock(d, n) \in BlocksAt(B)
<1>1. d.block \in [0..MaxBlock -> BlocksAt(B)] BY DEF DisksAt
<1>2. [s \in Sectors |-> Garbage] \in BlocksAt(B) BY DEF BlocksAt, Words
<1> QED BY <1>1, <1>2 DEF ReadBlock

\* What Follow is for the paths there are.
LEMMA FollowIs ==
  ASSUME NEW d, NEW root
  PROVE  /\ Follow(d, root, <<>>) = root
         /\ \A a : Follow(d, root, <<a>>) = ReadBlock(d, root)[a]
         /\ \A a, b : Follow(d, root, <<a, b>>) = ReadBlock(d, ReadBlock(d, root)[a])[b]
<1>1. Follow(d, root, <<>>) = root BY DEF Follow
<1>2. ASSUME NEW a PROVE Follow(d, root, <<a>>) = ReadBlock(d, root)[a]
  <2>1. Len(<<a>>) = 1 /\ <<a>>[1] = a OBVIOUS
  <2> HIDE DEF ReadBlock
  <2> QED BY <2>1 DEF Follow
<1>3. ASSUME NEW a, NEW b
      PROVE  Follow(d, root, <<a, b>>) = ReadBlock(d, ReadBlock(d, root)[a])[b]
  <2>1. Len(<<a, b>>) = 2 /\ <<a, b>>[1] = a /\ <<a, b>>[2] = b OBVIOUS
  <2> QED BY <2>1 DEF Follow
<1> QED BY <1>1, <1>2, <1>3

LEMMA FollowType ==
  ASSUME NEW B \in Counts, NEW d \in DisksAt(B), NEW root \in Words(B),
         NEW r, NEW path, IsPath(r, path), r # TRIPLE_INDIRECT_INDEX
  PROVE  Follow(d, root, path) \in Words(B)
<1>1. \A m : ReadBlock(d, m) \in [Sectors -> Words(B)] BY ReadBlockType DEF BlocksAt
<1>2. \A m : \A s \in Sectors : ReadBlock(d, m)[s] \in Words(B) BY <1>1
<1>3. CASE path = <<>> BY <1>3, FollowIs
<1>4. ASSUME NEW a \in Sectors, path = <<a>> PROVE Follow(d, root, path) \in Words(B)
  BY <1>2, <1>4, FollowIs
<1>5. ASSUME NEW a \in Sectors, NEW b \in Sectors, path = <<a, b>>
      PROVE  Follow(d, root, path) \in Words(B)
  <2>1. Follow(d, root, path) = ReadBlock(d, ReadBlock(d, root)[a])[b] BY <1>5, FollowIs
  <2> QED BY <1>2, <1>5, <2>1
<1> QED BY <1>3, <1>4, <1>5 DEF IsPath

LEMMA RealBlockType ==
  ASSUME NEW B \in Counts, NEW d \in DisksAt(B), NEW blocks \in RootsAt(B), NEW n \in Nat,
         Root(n) # TRIPLE_INDIRECT_INDEX
  PROVE  RealBlock(d, blocks, n) \in Words(B)
<1>1. IsPath(Root(n), Path(n)) /\ Root(n) \in 0..TRIPLE_INDIRECT_INDEX BY PathIs
<1>2. blocks[Root(n)] \in Nat /\ blocks[Root(n)] + 1 \in B BY <1>1 DEF RootsAt
<1>3. blocks[Root(n)] \in 0..(blocks[Root(n)] + 1) BY <1>2
<1>4. blocks[Root(n)] \in Words(B) BY <1>2, <1>3, CountIs
<1> QED BY <1>1, <1>4, FollowType DEF RealBlock

-----------------------------------------------------------------------------
(* A write under way, step by step.                                        *)

\* The parts of a state are the parts it is made of.
LEMMA StateIs ==
  ASSUME NEW B \in Counts, NEW w \in States(B)
  PROVE  /\ w = State(w.blocks, w.n_blocks, w.disk, w.log)
         /\ w.blocks \in RootsAt(B) /\ w.n_blocks \in B /\ w.n_blocks \in Nat
         /\ w.disk \in DisksAt(B) /\ w.log \in Seq(EntriesAt(B))
         /\ w.disk = [n_blocks |-> w.disk.n_blocks, inode |-> w.disk.inode,
                      block |-> w.disk.block]
         /\ w.disk.n_blocks \in B /\ w.disk.inode \in [Files -> Inode]
         /\ w.disk.block \in [0..MaxBlock -> BlocksAt(B)]
<1>1. B \subseteq Nat BY CountIs
<1> QED BY <1>1 DEF States, State, DisksAt

SuperEntry(n) == [part |-> "super", at |-> 0, data |-> n]
BlockEntry(b, data) == [part |-> "block", at |-> b, data |-> data]

\* v is w with one block handed out.
Allocated(v, w) ==
  v = State(w.blocks, w.n_blocks + 1, [w.disk EXCEPT !.n_blocks = w.n_blocks + 1],
            Append(w.log, SuperEntry(w.n_blocks + 1)))
\* v is w with one block written.
Wrote(v, w, b, data) ==
  v = State(w.blocks, w.n_blocks, SetBlock(w.disk, b, data),
            Append(w.log, BlockEntry(b, data)))

Edit(p, x, y) == [p EXCEPT !.disk = x, !.log = y]

LEMMA StateEdit ==
  ASSUME NEW a, NEW b, NEW c, NEW d, NEW x, NEW y
  PROVE  Edit(State(a, b, c, d), x, y) = State(a, b, x, y)
<1> DEFINE p == State(a, b, c, d)
           q == State(a, b, x, d)
<1>1. [p EXCEPT !.disk = x] = q BY DEF State
<1>2. [q EXCEPT !.log = y] = State(a, b, x, y) BY DEF State
<1> HIDE DEF p, q
<1>3. [p EXCEPT !.disk = x, !.log = y] = [[p EXCEPT !.disk = x] EXCEPT !.log = y] OBVIOUS
<1>4. Edit(p, x, y) = State(a, b, x, y) BY <1>1, <1>2, <1>3 DEF Edit
<1> QED BY <1>4 DEF p

LEMMA AllocIs ==
  ASSUME NEW B \in Counts, NEW w \in States(B)
  PROVE  /\ Allocated(alloc_block(w), w)
         /\ w.n_blocks + 1 \in B => alloc_block(w) \in States(B)
<1> DEFINE e == SuperEntry(w.n_blocks + 1)
           d == [w.disk EXCEPT !.n_blocks = w.n_blocks + 1]
           v == State(w.blocks, w.n_blocks + 1, d, Append(w.log, e))
<1>1. /\ w = State(w.blocks, w.n_blocks, w.disk, w.log)
      /\ w.blocks \in RootsAt(B) /\ w.n_blocks \in Nat
      /\ w.disk \in DisksAt(B) /\ w.log \in Seq(EntriesAt(B))
  BY StateIs
<1>2. Apply(w.disk, e) = d BY DEF Apply, SuperEntry
<1> DEFINE u == State(w.blocks, w.n_blocks + 1, w.disk, w.log)
<1>3. [w EXCEPT !.n_blocks = @ + 1] = u BY <1>1 DEF State
<1>4. Edit(u, d, Append(w.log, e)) = v
  <2> HIDE DEF d, e
  <2> QED BY StateEdit
<1>5. Put(u, "super", 0, w.n_blocks + 1) = Edit(u, Apply(u.disk, e), Append(u.log, e))
  BY DEF Put, SuperEntry, Edit
<1>6. Put(u, "super", 0, w.n_blocks + 1) = v
  <2>1. u.disk = w.disk /\ u.log = w.log BY DEF State
  <2> HIDE DEF d, e, u, v
  <2> QED BY <1>2, <1>4, <1>5, <2>1
<1>7. alloc_block(w) = v BY <1>3, <1>6 DEF alloc_block
<1>8. ASSUME w.n_blocks + 1 \in B PROVE v \in States(B)
  <2>1. d \in DisksAt(B) BY <1>1, <1>8 DEF DisksAt
  <2>2. e \in EntriesAt(B) BY <1>8 DEF EntriesAt, SuperEntry
  <2> HIDE DEF d, e
  <2>3. Append(w.log, e) \in Seq(EntriesAt(B)) BY <1>1, <2>2, AppendProperties
  <2> QED BY <1>1, <1>8, <2>1, <2>3 DEF States, State
<1> QED BY <1>7, <1>8 DEF Allocated

LEMMA PutIs ==
  ASSUME NEW B \in Counts, NEW w \in States(B), NEW b \in Words(B), NEW data \in BlocksAt(B)
  PROVE  Wrote(Put(w, "block", b, data), w, b, data) /\ Put(w, "block", b, data) \in States(B)
<1> DEFINE e == BlockEntry(b, data)
           d == [w.disk EXCEPT !.block[b] = data]
           v == State(w.blocks, w.n_blocks, d, Append(w.log, e))
<1>1. /\ w = State(w.blocks, w.n_blocks, w.disk, w.log)
      /\ w.blocks \in RootsAt(B) /\ w.n_blocks \in B
      /\ w.disk \in DisksAt(B) /\ w.log \in Seq(EntriesAt(B))
  BY StateIs
<1>2. Apply(w.disk, e) = d BY DEF Apply, BlockEntry
<1>3. Edit(w, d, Append(w.log, e)) = v
  <2> HIDE DEF d, e
  <2> QED BY <1>1, StateEdit
<1>4. Put(w, "block", b, data) = Edit(w, Apply(w.disk, e), Append(w.log, e))
  BY DEF Put, BlockEntry, Edit
<1>5. Put(w, "block", b, data) = v
  <2> HIDE DEF d, e, v
  <2> QED BY <1>2, <1>3, <1>4
<1>6. d \in DisksAt(B) BY <1>1 DEF DisksAt
<1>7. e \in EntriesAt(B) BY DEF EntriesAt, BlockEntry
<1> HIDE DEF d, e
<1>8. Append(w.log, e) \in Seq(EntriesAt(B)) BY <1>1, <1>7, AppendProperties
<1>9. v \in States(B) BY <1>1, <1>6, <1>8 DEF States, State
<1> QED BY <1>5, <1>9 DEF Wrote, SetBlock, d, e

\* A step of a write that starts with numbers in B.
Grows(w, v, B) ==
  /\ v \in States(Nat) /\ v.n_blocks >= w.n_blocks /\ v.disk.inode = w.disk.inode
  /\ v.n_blocks \in B => v \in States(B)

LEMMA GrowsOn ==
  ASSUME NEW B \in Counts, NEW w \in States(B), NEW u, NEW v, Grows(w, u, B),
         Grows(u, v, Nat), u \in States(B) => Grows(u, v, B)
  PROVE  Grows(w, v, B)
<1>1. Nat \in Counts BY DEF Counts
<1>2. u \in States(Nat) /\ v \in States(Nat) BY DEF Grows
<1>3. u.n_blocks \in Nat /\ v.n_blocks \in Nat /\ w.n_blocks \in Nat
  BY <1>1, <1>2, StateIs
<1>4. /\ v.n_blocks >= u.n_blocks /\ u.n_blocks >= w.n_blocks
      /\ v.disk.inode = w.disk.inode
  BY DEF Grows
<1>5. v.n_blocks \in B => u.n_blocks \in B
  <2>1. u.n_blocks \in 0..v.n_blocks BY <1>3, <1>4
  <2> QED BY <2>1, CountIs
<1> QED BY <1>2, <1>3, <1>4, <1>5 DEF Grows

LEMMA GrowsNot ==
  ASSUME NEW B \in Counts, NEW w \in States(B)
  PROVE  Grows(w, w, B)
<1>1. w \in States(Nat) /\ w.n_blocks \in Nat BY CountIs, StateIs
<1> QED BY <1>1 DEF Grows

\* v is w with a new block for an index of the inode.
Rooted(v, w, r) ==
  v = State([w.blocks EXCEPT ![r] = w.n_blocks], w.n_blocks + 1,
            [w.disk EXCEPT !.n_blocks = w.n_blocks + 1],
            Append(w.log, SuperEntry(w.n_blocks + 1)))

LEMMA RootIs ==
  ASSUME NEW B \in Counts, NEW w \in States(B), NEW r \in 0..TRIPLE_INDIRECT_INDEX
  PROVE  /\ Grows(w, WithRoot(w, r), B)
         /\ w.blocks[r] # 0 => WithRoot(w, r) = w
         /\ w.blocks[r] = 0 => Rooted(WithRoot(w, r), w, r)
<1>1. w.blocks[r] # 0 => WithRoot(w, r) = w BY DEF WithRoot
<1>2. CASE w.blocks[r] # 0 BY <1>1, <1>2, GrowsNot
<1>3. CASE w.blocks[r] = 0
  <2> DEFINE a == alloc_block(w)
             d == [w.disk EXCEPT !.n_blocks = w.n_blocks + 1]
             log == Append(w.log, SuperEntry(w.n_blocks + 1))
             blocks == [w.blocks EXCEPT ![r] = w.n_blocks]
             v == State(blocks, w.n_blocks + 1, d, log)
  <2>1. a = State(w.blocks, w.n_blocks + 1, d, log) BY AllocIs DEF Allocated
  <2>2. WithRoot(w, r) = [a EXCEPT !.blocks[r] = w.n_blocks] BY <1>3 DEF WithRoot
  <2>3. [a EXCEPT !.blocks[r] = w.n_blocks] = v
    <3> HIDE DEF a, d, log
    <3> QED BY <2>1 DEF State
  <2>4. w.blocks \in RootsAt(B) /\ w.n_blocks \in Nat BY StateIs
  <2>5. ASSUME NEW C \in Counts, w \in States(C), w.n_blocks + 1 \in C PROVE v \in States(C)
    <3>1. a \in States(C) BY <2>5, AllocIs
    <3>2. blocks \in RootsAt(C)
      <4>1. w.blocks \in RootsAt(C) BY <2>5, StateIs
      <4> QED BY <2>4, <2>5, <4>1 DEF RootsAt
    <3>3. d \in DisksAt(C) /\ log \in Seq(EntriesAt(C))
      <4> HIDE DEF a, d, log
      <4> QED BY <2>1, <3>1 DEF States, State
    <3> HIDE DEF d, log, blocks
    <3> QED BY <2>5, <3>2, <3>3 DEF States, State
  <2>6. v \in States(Nat)
    <3>1. Nat \in Counts /\ w \in States(Nat) BY CountIs DEF Counts
    <3> HIDE DEF v
    <3> QED BY <2>4, <2>5, <3>1
  <2>7. v.n_blocks = w.n_blocks + 1 /\ v.disk.inode = w.disk.inode
    <3>1. v.n_blocks = w.n_blocks + 1 /\ v.disk = d BY DEF State
    <3>2. w.disk = [n_blocks |-> w.disk.n_blocks, inode |-> w.disk.inode,
                    block |-> w.disk.block]
      BY StateIs
    <3> HIDE DEF v
    <3> QED BY <3>1, <3>2
  <2> HIDE DEF v
  <2>8. Grows(w, v, B) BY <2>4, <2>5, <2>6, <2>7 DEF Grows
  <2>9. Rooted(v, w, r) BY DEF Rooted, v
  <2> QED BY <1>3, <2>2, <2>3, <2>8, <2>9
<1> QED BY <1>2, <1>3

LEMMA EntryIs ==
  ASSUME NEW B \in Counts, NEW w \in States(B), NEW b \in Words(B), NEW k \in Sectors
  PROVE  /\ Grows(w, WithEntry(w, b, k), B)
         /\ ReadBlock(w.disk, b)[k] # 0 => WithEntry(w, b, k) = w
         /\ ReadBlock(w.disk, b)[k] = 0 =>
              /\ alloc_block(w) \in States(Nat)
              /\ Wrote(WithEntry(w, b, k), alloc_block(w), b,
                       [ReadBlock(w.disk, b) EXCEPT ![k] = w.n_blocks])
<1>1. CASE ReadBlock(w.disk, b)[k] # 0
  <2>1. WithEntry(w, b, k) = w BY <1>1 DEF WithEntry
  <2> QED BY <1>1, <2>1, GrowsNot
<1>2. CASE ReadBlock(w.disk, b)[k] = 0
  <2> DEFINE a == alloc_block(w)
             data == [ReadBlock(w.disk, b) EXCEPT ![k] = w.n_blocks]
             v == Put(a, "block", b, data)
  <2>1. WithEntry(w, b, k) = v BY <1>2 DEF WithEntry
  <2>2. w.disk \in DisksAt(B) /\ w.n_blocks \in B /\ w.n_blocks \in Nat BY StateIs
  <2>3. Nat \in Counts /\ w \in States(Nat) BY CountIs DEF Counts
  <2>4. a.n_blocks = w.n_blocks + 1 BY AllocIs DEF Allocated, State
  <2>5. ASSUME NEW C \in Counts, w \in States(C), b \in Words(C), w.n_blocks + 1 \in C
        PROVE  a \in States(C) /\ v \in States(C) /\ Wrote(v, a, b, data)
    <3>1. a \in States(C) BY <2>5, AllocIs
    <3>2. ReadBlock(w.disk, b) \in BlocksAt(C) /\ w.n_blocks \in Words(C)
      <4>1. w.disk \in DisksAt(C) /\ w.n_blocks \in C BY <2>5, StateIs
      <4> QED BY <4>1, ReadBlockType, CountIs
    <3>3. data \in BlocksAt(C) BY <3>2 DEF BlocksAt
    <3> HIDE DEF a, data
    <3> QED BY <2>5, <3>1, <3>3, PutIs
  <2>6. a \in States(Nat) /\ v \in States(Nat) /\ Wrote(v, a, b, data)
    <3>1. b \in Words(Nat) BY CountIs
    <3> HIDE DEF a, v, data
    <3> QED BY <2>2, <2>3, <2>5, <3>1
  <2>7. v.n_blocks = w.n_blocks + 1 /\ v.disk.inode = w.disk.inode
    <3>1. a.disk = [w.disk EXCEPT !.n_blocks = w.n_blocks + 1] BY AllocIs DEF Allocated, State
    <3>2. w.disk = [n_blocks |-> w.disk.n_blocks, inode |-> w.disk.inode,
                    block |-> w.disk.block]
      BY StateIs
    <3> HIDE DEF a, v, data
    <3>3. a.disk = [n_blocks |-> w.n_blocks + 1, inode |-> w.disk.inode,
                    block |-> w.disk.block]
      BY <3>1, <3>2
    <3>4. v.n_blocks = a.n_blocks /\ v.disk = SetBlock(a.disk, b, data)
      BY <2>6 DEF Wrote, State
    <3>5. v.disk.inode = w.disk.inode BY <3>3, <3>4 DEF SetBlock
    <3> QED BY <2>4, <3>4, <3>5
  <2>8. Grows(w, v, B)
    <3> HIDE DEF a, v, data
    <3> QED BY <2>2, <2>5, <2>6, <2>7 DEF Grows
  <2> QED BY <1>2, <2>1, <2>6, <2>8
<1> QED BY <1>1, <1>2

\* The states that WithBlock passes.
LEMMA WithBlockIs ==
  ASSUME NEW B \in Counts, NEW w \in States(B), NEW n \in Nat,
         Root(n) # TRIPLE_INDIRECT_INDEX
  PROVE  LET r == Root(n)
             top == WithRoot(w, r)
             one(a) == WithEntry(top, top.blocks[r], a)
             two(a, b) == WithEntry(one(a), ReadBlock(one(a).disk, one(a).blocks[r])[a], b)
         IN /\ r < NUM_DIRECT_BLOCKS => WithBlock(w, n) = top
            /\ \A a \in Sectors : Path(n) = <<a>> => WithBlock(w, n) = one(a)
            /\ \A a, b \in Sectors : Path(n) = <<a, b>> => WithBlock(w, n) = two(a, b)
<1> DEFINE r == Root(n)
           top == WithRoot(w, r)
           one(a) == WithEntry(top, top.blocks[r], a)
           two(a, b) == WithEntry(one(a), ReadBlock(one(a).disk, one(a).blocks[r])[a], b)
<1>1. IsPath(r, Path(n)) BY PathIs
<1>2. r < NUM_DIRECT_BLOCKS => Path(n) = <<>>
  BY <1>1, SizesAre DEF IsPath, SINGLE_INDIRECT_INDEX, DOUBLE_INDIRECT_INDEX
<1>3. Path(n) = <<>> => WithBlock(w, n) = top BY DEF WithBlock
<1>4. ASSUME NEW a \in Sectors, Path(n) = <<a>> PROVE WithBlock(w, n) = one(a)
  <2>1. Len(Path(n)) = 1 /\ Path(n)[1] = a BY <1>4
  <2> HIDE DEF Path, Root, WithRoot, WithEntry
  <2> QED BY <2>1 DEF WithBlock
<1>5. ASSUME NEW a \in Sectors, NEW b \in Sectors, Path(n) = <<a, b>>
      PROVE  WithBlock(w, n) = two(a, b)
  <2>1. Len(Path(n)) = 2 /\ Path(n)[1] = a /\ Path(n)[2] = b BY <1>5
  <2>2. WithBlock(w, n) =
          WithEntry(one(a), Follow(one(a).disk, one(a).blocks[r], <<a>>), b)
    BY <2>1 DEF WithBlock
  <2>3. Follow(one(a).disk, one(a).blocks[r], <<a>>)
          = ReadBlock(one(a).disk, one(a).blocks[r])[a]
    BY FollowIs
  <2> QED BY <2>2, <2>3
<1> QED BY <1>2, <1>3, <1>4, <1>5

LEMMA BlockGrows ==
  ASSUME NEW B \in Counts, NEW w \in States(B), NEW n \in Nat,
         Root(n) # TRIPLE_INDIRECT_INDEX
  PROVE  Grows(w, WithBlock(w, n), B)
<1> DEFINE r == Root(n)
           top == WithRoot(w, r)
           one(a) == WithEntry(top, top.blocks[r], a)
           two(a, b) == WithEntry(one(a), ReadBlock(one(a).disk, one(a).blocks[r])[a], b)
<1>1. IsPath(r, Path(n)) /\ r \in 0..TRIPLE_INDIRECT_INDEX BY PathIs
<1>2. Nat \in Counts BY DEF Counts
<1>3. Grows(w, top, B) BY <1>1, RootIs
<1>4. ASSUME NEW C \in Counts, NEW u \in States(C), NEW a \in Sectors
      PROVE  /\ u.blocks[r] \in Words(C) /\ ReadBlock(u.disk, u.blocks[r])[a] \in Words(C)
  <2>1. u.blocks \in RootsAt(C) /\ u.disk \in DisksAt(C) BY StateIs
  <2>2. u.blocks[r] \in Nat /\ u.blocks[r] + 1 \in C BY <1>1, <2>1 DEF RootsAt
  <2>3. u.blocks[r] \in 0..(u.blocks[r] + 1) BY <2>2
  <2>4. ReadBlock(u.disk, u.blocks[r]) \in BlocksAt(C) BY <2>1, ReadBlockType
  <2> QED BY <2>2, <2>3, <2>4, CountIs DEF BlocksAt
<1> HIDE DEF r, top
<1>5. ASSUME NEW a \in Sectors PROVE Grows(w, one(a), B)
  <2>1. ASSUME NEW C \in Counts, top \in States(C) PROVE Grows(top, one(a), C)
    BY <1>4, <2>1, EntryIs
  <2>2. top \in States(Nat) BY <1>3 DEF Grows
  <2>3. Grows(top, one(a), Nat) BY <1>2, <2>1, <2>2
  <2> HIDE DEF one
  <2> QED BY <1>3, <2>1, <2>3, GrowsOn
<1>6. ASSUME NEW a \in Sectors, NEW b \in Sectors PROVE Grows(w, two(a, b), B)
  <2> HIDE DEF one
  <2>1. ASSUME NEW C \in Counts, one(a) \in States(C) PROVE Grows(one(a), two(a, b), C)
    BY <1>4, <2>1, EntryIs
  <2>2. one(a) \in States(Nat) BY <1>5 DEF Grows
  <2>3. Grows(one(a), two(a, b), Nat) BY <1>2, <2>1, <2>2
  <2> HIDE DEF two
  <2> QED BY <1>5, <2>1, <2>3, GrowsOn
<1>7. /\ r < NUM_DIRECT_BLOCKS => WithBlock(w, n) = top
      /\ \A a \in Sectors : Path(n) = <<a>> => WithBlock(w, n) = one(a)
      /\ \A a, b \in Sectors : Path(n) = <<a, b>> => WithBlock(w, n) = two(a, b)
  BY WithBlockIs DEF r, top
<1>8. r # TRIPLE_INDIRECT_INDEX BY DEF r
<1> HIDE DEF one, two
<1> QED BY <1>1, <1>3, <1>5, <1>6, <1>7, <1>8, SizesAre DEF IsPath

LEMMA WriteBlockIs ==
  ASSUME NEW B \in Counts, NEW w \in States(B), NEW n \in Nat, NEW data \in Block
  PROVE  /\ Grows(w, WriteBlock(w, n, data), B)
         /\ Root(n) # TRIPLE_INDIRECT_INDEX =>
              LET v == WithBlock(w, n)
              IN Wrote(WriteBlock(w, n, data), v, RealBlock(v.disk, v.blocks, n), data)
<1>1. CASE Root(n) = TRIPLE_INDIRECT_INDEX
  <2>1. WriteBlock(w, n, data) = w BY <1>1 DEF WriteBlock
  <2> QED BY <1>1, <2>1, GrowsNot
<1>2. CASE Root(n) # TRIPLE_INDIRECT_INDEX
  <2> DEFINE v == WithBlock(w, n)
             b == RealBlock(v.disk, v.blocks, n)
             u == Put(v, "block", b, data)
  <2>1. WriteBlock(w, n, data) = u BY <1>2 DEF WriteBlock
  <2>2. Grows(w, v, B) BY <1>2, BlockGrows
  <2>3. ASSUME NEW C \in Counts, v \in States(C)
        PROVE  Wrote(u, v, b, data) /\ u \in States(C)
    <3>1. v.disk \in DisksAt(C) /\ v.blocks \in RootsAt(C) BY <2>3, StateIs
    <3>2. b \in Words(C) BY <1>2, <3>1, RealBlockType
    <3>3. data \in BlocksAt(C) BY CountIs
    <3> HIDE DEF v, b
    <3> QED BY <2>3, <3>2, <3>3, PutIs
  <2>4. Nat \in Counts /\ v \in States(Nat) BY <2>2 DEF Grows, Counts
  <2> HIDE DEF v, b, u
  <2>5. Wrote(u, v, b, data) /\ u \in States(Nat) BY <2>3, <2>4
  <2>6. u.n_blocks = v.n_blocks /\ u.disk.inode = v.disk.inode
    <3>1. u.n_blocks = v.n_blocks /\ u.disk = SetBlock(v.disk, b, data)
      BY <2>5 DEF Wrote, State
    <3>2. v.disk = [n_blocks |-> v.disk.n_blocks, inode |-> v.disk.inode,
                    block |-> v.disk.block]
      BY <2>4, StateIs
    <3> QED BY <3>1, <3>2 DEF SetBlock
  <2>7. Grows(w, u, B) BY <2>2, <2>3, <2>5, <2>6 DEF Grows
  <2> QED BY <1>2, <2>1, <2>5, <2>7 DEF u, b, v
<1> QED BY <1>1, <1>2

\* Part k of a buffer.
Part(hd, k) == [s \in Sectors |-> hd.data[(k - 1) * BLOCK_SIZE + s]]

\* The states that harddrive_write_blocks passes, one block after the other.
Passes(h, w, hd, count) ==
  /\ h[0] = w
  /\ \A k \in 1..count :
       h[k] = WriteBlock(h[k - 1], hd.range_low \div BLOCK_SIZE + k - 1, Part(hd, k))

LEMMA WritesAre ==
  ASSUME NEW B \in Counts, NEW w \in States(B), NEW hd, NEW count \in Nat,
         hd.range_low \in Nat, \A k \in 1..count : Part(hd, k) \in Block
  PROVE  LET v == harddrive_write_blocks(w, hd, count)
         IN \E h : /\ Passes(h, w, hd, count) /\ h[count] = v
                   /\ \A k \in 0..count : h[k] \in States(Nat)
                   /\ v.n_blocks \in B => \A k \in 0..count : h[k] \in States(B)
                   /\ v.n_blocks \in Nat /\ v.n_blocks >= w.n_blocks
                   /\ v.disk.inode = w.disk.inode
<1> DEFINE first == hd.range_low \div BLOCK_SIZE
           v == harddrive_write_blocks(w, hd, count)
           Turn(k, u) == WriteBlock(u, first + k - 1, Part(hd, k))
           G == [k \in 1..count |-> [u \in States(Nat) |-> Turn(k, u)]]
           F(g) == g = [k \in 0..count |-> IF k = 0 THEN w ELSE Turn(k, g[k - 1])]
<1>1. Nat \in Counts /\ w \in States(Nat) BY CountIs DEF Counts
<1>2. first \in Nat BY SizesAre, Division
<1>3. ASSUME NEW k \in 1..count, NEW C \in Counts, NEW u \in States(C)
      PROVE  Grows(u, Turn(k, u), C)
  <2>1. first + k - 1 \in Nat BY <1>2
  <2> HIDE DEF first
  <2> QED BY <1>3, <2>1, WriteBlockIs
<1> HIDE DEF Turn
<1>4. \A k \in 1..count : \A u \in States(Nat) : Turn(k, u) \in States(Nat)
  BY <1>1, <1>3 DEF Grows
<1>5. G \in [1..count -> [States(Nat) -> States(Nat)]] BY <1>4
<1>6. \A k \in 1..count : \A u \in States(Nat) : G[k][u] = Turn(k, u) OBVIOUS
<1> HIDE DEF G
<1>7. PICK f \in [0..count -> States(Nat)] : Turns(f, count, w, G) BY <1>1, <1>5, TurnsExist
<1>8. F(f)
  <2>1. \A k \in 0..count : f[k] = IF k = 0 THEN w ELSE G[k][f[k - 1]] BY <1>7 DEF Turns
  <2>2. \A k \in 0..count : k # 0 => k \in 1..count /\ f[k - 1] \in States(Nat) OBVIOUS
  <2> QED BY <1>6, <2>1, <2>2
<1>9. PICK h : v = h[count] /\ F(h) BY <1>8 DEF harddrive_write_blocks, Turn, Part
<1>10. h[0] = w /\ \A k \in 1..count : h[k] = Turn(k, h[k - 1])
  <2>1. \A k \in 0..count : h[k] = IF k = 0 THEN w ELSE Turn(k, h[k - 1]) BY <1>9
  <2> QED BY <2>1
<1>11. Passes(h, w, hd, count) BY <1>10 DEF Passes, Turn
<1> DEFINE P == {k \in Nat : k <= count =>
                   /\ \A j \in 0..k : h[j] \in States(Nat)
                   /\ h[k].n_blocks \in Nat /\ h[k].n_blocks >= w.n_blocks
                   /\ h[k].disk.inode = w.disk.inode
                   /\ h[k].n_blocks \in B => \A j \in 0..k : h[j] \in States(B)}
<1>12. 0 \in P
  <2>1. w.n_blocks \in Nat BY StateIs
  <2> QED BY <1>1, <1>10, <2>1
<1>13. ASSUME NEW k \in P, k < count PROVE k + 1 \in P
  <2>1. k + 1 \in 1..count /\ k \in Nat BY <1>13
  <2>2. /\ \A j \in 0..k : h[j] \in States(Nat)
        /\ h[k].n_blocks \in Nat /\ h[k].n_blocks >= w.n_blocks
        /\ h[k].disk.inode = w.disk.inode
        /\ h[k].n_blocks \in B => \A j \in 0..k : h[j] \in States(B)
    BY <1>13
  <2>3. h[k + 1] = Turn(k + 1, h[k])
    <3>1. (k + 1) - 1 = k BY <2>1
    <3> QED BY <1>10, <2>1, <3>1
  <2>4. Grows(h[k], h[k + 1], Nat) BY <1>1, <1>3, <2>1, <2>2, <2>3
  <2>5. h[k] \in States(B) => Grows(h[k], h[k + 1], B) BY <1>3, <2>1, <2>3
  <2>6. h[k + 1] \in States(Nat) BY <2>4 DEF Grows
  <2>7. h[k + 1].n_blocks \in Nat BY <1>1, <2>6, StateIs
  <2>8. h[k + 1].n_blocks >= h[k].n_blocks BY <2>4 DEF Grows
  <2>9. w.n_blocks \in Nat BY StateIs
  <2>10. h[k + 1].n_blocks \in B => h[k].n_blocks \in B
    <3>1. h[k].n_blocks \in 0..h[k + 1].n_blocks BY <2>2, <2>7, <2>8
    <3> QED BY <3>1, CountIs
  <2>11. h[k + 1].n_blocks \in B => h[k + 1] \in States(B) BY <2>2, <2>5, <2>10 DEF Grows
  <2>12. \A j \in 0..(k + 1) : j = k + 1 \/ j \in 0..k BY <2>1
  <2>13. h[k + 1].n_blocks >= w.n_blocks BY <2>2, <2>7, <2>8, <2>9
  <2>14. h[k + 1].disk.inode = w.disk.inode BY <2>2, <2>4 DEF Grows
  <2> QED BY <2>1, <2>2, <2>6, <2>7, <2>10, <2>11, <2>12, <2>13, <2>14
<1>14. P \in SUBSET Nat OBVIOUS
<1> HIDE DEF P
<1>15. 0..count \subseteq P BY <1>12, <1>13, <1>14, CountingUp
<1>16. count \in P BY <1>15
<1> HIDE DEF v, F
<1>17. /\ \A k \in 0..count : h[k] \in States(Nat)
       /\ h[count].n_blocks \in Nat /\ h[count].n_blocks >= w.n_blocks
       /\ h[count].disk.inode = w.disk.inode
       /\ h[count].n_blocks \in B => \A k \in 0..count : h[k] \in States(B)
  BY <1>16 DEF P
<1> QED BY <1>9, <1>11, <1>17 DEF v

-----------------------------------------------------------------------------
(* What a power failure leaves of a write.                                 *)

Entries == EntriesAt(OnDisk) \cup [part : {"inode"}, at : Files, data : Inode]

LEMMA ApplyType ==
  ASSUME NEW d \in Disk, NEW e \in Entries
  PROVE  Apply(d, e) \in Disk /\ (e.part # "inode" => Apply(d, e).inode = d.inode)
<1>1. CASE e \in [part : {"super"}, at : {0}, data : OnDisk]
  BY <1>1 DEF Apply, Disk, OnDisk
<1>2. CASE e \in [part : {"block"}, at : Words(OnDisk), data : BlocksAt(OnDisk)]
  <2>1. e.data \in Block /\ e.part = "block" BY <1>2, OnDiskIs
  <2> QED BY <2>1 DEF Apply, Disk
<1>3. CASE e \in [part : {"inode"}, at : Files, data : Inode]
  BY <1>3 DEF Apply, Disk
<1> QED BY <1>1, <1>2, <1>3 DEF Entries, EntriesAt

LEMMA BlockSet ==
  ASSUME NEW d \in Disk, NEW b, NEW data, b \in 0..MaxBlock => data \in Block
  PROVE  SetBlock(d, b, data) \in Disk /\ SetBlock(d, b, data).inode = d.inode
<1>1. d.block \in [0..MaxBlock -> Block] BY DEF Disk
<1>2. [d.block EXCEPT ![b] = data] \in [0..MaxBlock -> Block] BY <1>1
<1> QED BY <1>2 DEF Disk, SetBlock

\* The disk when sectors before t of block b are those of the new data.
Torn(d, b, data, t) ==
  [d EXCEPT !.block[b] = [s \in Sectors |-> IF s < t THEN data[s] ELSE @[s]]]

\* The disks between the entries of a log.
Disks(g, log) ==
  /\ g \in [0..Len(log) -> Disk] /\ g[0] = disk
  /\ \A k \in 1..Len(log) : g[k] = Apply(g[k - 1], log[k])

LEMMA SurvivorIs ==
  ASSUME disk \in Disk, NEW log \in Seq(Entries)
  PROVE  \E g : /\ Disks(g, log)
               /\ \A k \in 0..Len(log) :
                    /\ Survivor(log, k, 0) = g[k]
                    /\ \A t \in Sectors : t # 0 =>
                         Survivor(log, k, t) = Torn(g[k], log[k + 1].at, log[k + 1].data, t)
<1> DEFINE N == Len(log)
           G == [k \in 1..N |-> [d \in Disk |-> Apply(d, log[k])]]
           F(m, f) == f = [k \in 0..m |-> IF k = 0 THEN disk ELSE Apply(f[k - 1], log[k])]
<1>1. N \in Nat /\ \A k \in 1..N : log[k] \in Entries BY LenProperties, ElementOfSeq
<1> HIDE DEF N
<1>2. \A k \in 1..N : \A d \in Disk : Apply(d, log[k]) \in Disk BY <1>1, ApplyType
<1>3. G \in [1..N -> [Disk -> Disk]] BY <1>2
<1>4. \A k \in 1..N : \A d \in Disk : G[k][d] = Apply(d, log[k]) OBVIOUS
<1> HIDE DEF G
<1>5. PICK g \in [0..N -> Disk] : Turns(g, N, disk, G) BY <1>1, <1>3, TurnsExist
<1>6. \A k \in 0..N : g[k] = IF k = 0 THEN disk ELSE Apply(g[k - 1], log[k])
  <2>1. \A k \in 0..N : g[k] = IF k = 0 THEN disk ELSE G[k][g[k - 1]] BY <1>5 DEF Turns
  <2>2. \A k \in 0..N : k # 0 => k \in 1..N /\ g[k - 1] \in Disk BY <1>1
  <2> QED BY <1>4, <2>1, <2>2
<1>7. ASSUME NEW k \in 0..N
      PROVE  /\ Survivor(log, k, 0) = g[k]
             /\ \A t \in Sectors : t # 0 =>
                  Survivor(log, k, t) = Torn(g[k], log[k + 1].at, log[k + 1].data, t)
  <2> DEFINE f == [j \in 0..k |-> g[j]]
             u == CHOOSE f_1 : F(k, f_1)
  <2>1. F(k, f)
    <3>1. \A j \in 0..k : f[j] = g[j] /\ j \in 0..N /\ (j # 0 => f[j - 1] = g[j - 1])
      BY <1>1
    <3>2. \A j \in 0..k : f[j] = IF j = 0 THEN disk ELSE Apply(f[j - 1], log[j])
      BY <1>6, <3>1
    <3> QED BY <3>2
  <2>2. F(k, u) BY <2>1
  <2>3. /\ Survivor(log, k, 0) = u[k]
        /\ \A t \in Sectors : t # 0 =>
             Survivor(log, k, t) = Torn(u[k], log[k + 1].at, log[k + 1].data, t)
    BY DEF Survivor, Torn
  <2> HIDE DEF u, f
  <2>4. \A j \in 0..k : u[j] = IF j = 0 THEN disk ELSE Apply(u[j - 1], log[j]) BY <2>2
  <2> DEFINE P == {j \in Nat : j <= k => u[j] = g[j]}
  <2>5. 0 \in P BY <1>1, <1>6, <2>4
  <2>6. ASSUME NEW j \in P, j < k PROVE j + 1 \in P
    <3>1. j + 1 \in 0..k /\ j + 1 # 0 /\ (j + 1) - 1 = j /\ j + 1 \in 0..N /\ u[j] = g[j]
      BY <1>1, <2>6
    <3>2. u[j + 1] = Apply(u[j], log[j + 1]) BY <2>4, <3>1
    <3>3. g[j + 1] = Apply(g[j], log[j + 1]) BY <1>6, <3>1
    <3> QED BY <3>1, <3>2, <3>3
  <2>7. P \in SUBSET Nat OBVIOUS
  <2> HIDE DEF P
  <2>8. k \in Nat BY <1>1
  <2>9. 0..k \subseteq P BY <2>5, <2>6, <2>7, <2>8, CountingUp
  <2>10. u[k] = g[k] BY <1>1, <2>9 DEF P
  <2> QED BY <2>3, <2>10
<1>8. Disks(g, log)
  <2>1. \A k \in 1..N : k \in 0..N /\ k # 0 OBVIOUS
  <2>2. \A k \in 1..N : g[k] = Apply(g[k - 1], log[k]) BY <1>6, <2>1
  <2>3. g[0] = disk BY <1>1, <1>6
  <2> QED BY <2>2, <2>3 DEF Disks, N
<1> QED BY <1>7, <1>8 DEF N

\* Cut off before its last entry, a write leaves a disk with the inodes it had.
LEMMA CutType ==
  ASSUME disk \in Disk, NEW log \in Seq(EntriesAt(OnDisk)), NEW e \in Entries,
         NEW k \in 0..(Len(Append(log, e)) - 1), NEW t \in Sectors,
         t > 0 => Append(log, e)[k + 1].part = "block"
  PROVE  /\ Survivor(Append(log, e), k, t) \in Disk
         /\ Survivor(Append(log, e), k, t).inode = disk.inode
<1> DEFINE all == Append(log, e)
<1>1. /\ EntriesAt(OnDisk) \subseteq Entries /\ log \in Seq(EntriesAt(OnDisk))
      /\ Len(log) \in Nat
  BY LenProperties DEF Entries
<1>2. /\ log \in Seq(Entries) /\ \A j \in 1..Len(log) : log[j] \in EntriesAt(OnDisk)
  <2>1. log \in [1..Len(log) -> EntriesAt(OnDisk)] BY <1>1, LenProperties
  <2>2. log \in [1..Len(log) -> Entries] BY <1>1, <2>1
  <2> QED BY <1>1, <2>1, <2>2, SeqDef
<1>3. /\ all \in Seq(Entries) /\ Len(all) = Len(log) + 1
      /\ \A j \in 1..Len(log) : all[j] = log[j]
  BY <1>2, AppendProperties
<1> HIDE DEF all
<1>4. k \in 0..Len(log) BY <1>1, <1>3 DEF all
<1>5. PICK g : /\ Disks(g, all)
               /\ \A j \in 0..Len(all) :
                    /\ Survivor(all, j, 0) = g[j]
                    /\ \A s \in Sectors : s # 0 =>
                         Survivor(all, j, s) = Torn(g[j], all[j + 1].at, all[j + 1].data, s)
  BY <1>3, SurvivorIs
<1> DEFINE P == {j \in Nat : j <= Len(log) => g[j].inode = disk.inode}
<1>6. 0 \in P BY <1>5 DEF Disks
<1>7. ASSUME NEW j \in P, j < Len(log) PROVE j + 1 \in P
  <2>1. /\ j + 1 \in 1..Len(log) /\ j + 1 \in 1..Len(all) /\ (j + 1) - 1 = j
        /\ j \in 0..Len(all) /\ g[j].inode = disk.inode
    BY <1>1, <1>3, <1>7
  <2>2. g[j + 1] = Apply(g[j], all[j + 1]) /\ g[j] \in Disk BY <1>5, <2>1 DEF Disks
  <2>3. all[j + 1] \in EntriesAt(OnDisk) BY <1>2, <1>3, <2>1
  <2>4. all[j + 1] \in Entries /\ all[j + 1].part # "inode" BY <2>3 DEF Entries, EntriesAt
  <2> QED BY <2>1, <2>2, <2>4, ApplyType
<1>8. P \in SUBSET Nat OBVIOUS
<1> HIDE DEF P
<1>9. 0..Len(log) \subseteq P BY <1>1, <1>6, <1>7, <1>8, CountingUp
<1>10. k \in Nat /\ k <= Len(log) /\ k \in P /\ k \in 0..Len(all) /\ k + 1 \in 1..Len(all)
  BY <1>1, <1>3, <1>4, <1>9
<1>11. g[k] \in Disk /\ g[k].inode = disk.inode BY <1>5, <1>10 DEF P, Disks
<1>12. CASE t = 0 BY <1>5, <1>10, <1>11, <1>12 DEF all
<1>13. CASE t # 0
  <2>1. t > 0 BY <1>13, SizesAre DEF Sectors
  <2>2. all[k + 1] \in Entries /\ all[k + 1].part = "block"
    <3>1. all[k + 1] \in Entries BY <1>3, <1>10, ElementOfSeq
    <3> QED BY <2>1, <3>1 DEF all
  <2>3. all[k + 1].data \in BlocksAt(OnDisk) BY <2>2 DEF Entries, EntriesAt
  <2> DEFINE b == all[k + 1].at
             data == all[k + 1].data
             new == [s \in Sectors |-> IF s < t THEN data[s] ELSE g[k].block[b][s]]
  <2>4. Survivor(all, k, t) = Torn(g[k], b, data, t) BY <1>5, <1>10, <1>13
  <2> HIDE DEF b, data
  <2>5. data \in Block BY <2>3, OnDiskIs DEF data
  <2>6. Torn(g[k], b, data, t) = SetBlock(g[k], b, new) BY DEF Torn, SetBlock
  <2>7. b \in 0..MaxBlock => new \in Block
    BY <1>11, <2>5 DEF Disk, Block
  <2>8. Torn(g[k], b, data, t) \in Disk /\ Torn(g[k], b, data, t).inode = g[k].inode
    <3> HIDE DEF new
    <3> QED BY <1>11, <2>6, <2>7, BlockSet
  <2> QED BY <1>11, <2>4, <2>8 DEF all
<1> QED BY <1>12, <1>13

-----------------------------------------------------------------------------
(* The cache of an open file.                                              *)

Buffers == [0..(BufferSize - 1) -> Cell]
Outcomes == {"refused", "null", "bounds", "served"}

\* A handle, but for the width of its numbers.
Loose == [file : Files, position : Nat, range_low : Nat, range_high : Nat,
          data : Buffers \cup {NULL}, stale : BOOLEAN]
Aligned(low) == \E q \in Nat : low = q * BLOCK_SIZE
Ranged(hd) ==
  \/ hd.range_low = 0 /\ hd.range_high = 0
  \/ /\ hd.range_low <= MaxSize /\ hd.range_high = hd.range_low + BufferSize
     /\ Aligned(hd.range_low)

LEMMA LooseIs ==
  /\ FileData \subseteq Loose
  /\ \A hd \in Loose : Ranged(hd) /\ hd.position < UintWrap => hd \in FileData
  /\ Closed \notin Loose
<1>1. Buffers = [0..(BufferSize - 1) -> Cell] BY DEF Buffers
<1>2. FileData \subseteq Loose BY <1>1, SizesAre DEF FileData, Loose
<1>3. ASSUME NEW hd \in Loose, Ranged(hd), hd.position < UintWrap PROVE hd \in FileData
  <2>1. hd.range_low \in 0..(UintWrap - 1) /\ hd.range_high \in 0..(UintWrap - 1)
    BY <1>3, SizesAre DEF Ranged, Loose
  <2> QED BY <1>1, <1>3, <2>1, SizesAre DEF FileData, Loose
<1>4. Closed \notin Loose
  <2>1. Closed.file \notin Files BY GeometryAssumption DEF Closed
  <2> QED BY <2>1 DEF Loose
<1> QED BY <1>2, <1>3, <1>4

LEMMA PlaceIs ==
  ASSUME NEW w \in 0..(BufferSize - 1)
  PROVE  w \div BLOCK_SIZE \in 0..(BUFFER_SIZE_BLOCKS - 1) /\ w % BLOCK_SIZE \in Sectors
<1>1. BufferSize = BLOCK_SIZE * BUFFER_SIZE_BLOCKS
  BY SizesAre DEF BufferSize
<1>2. w \in Nat /\ w < BLOCK_SIZE * BUFFER_SIZE_BLOCKS BY <1>1, SizesAre
<1> QED BY <1>2, SizesAre, QuotientBelow, Division DEF Sectors

LEMMA LoadType ==
  ASSUME disk \in Disk, NEW i, NEW hd, hd.data \in Buffers
  PROVE  harddrive_load_blocks(i, hd) \in Buffers
<1>1. OnDisk \in Counts /\ disk \in DisksAt(OnDisk) BY OnDiskIs DEF Counts
<1>2. \A b : ReadBlock(disk, b) \in [Sectors -> Cell] BY <1>1, OnDiskIs, ReadBlockType DEF Block
<1>3. \A b : \A w \in 0..(BufferSize - 1) :
        ReadBlock(disk, b)[w % BLOCK_SIZE] \in Cell /\ hd.data[w] \in Cell
  BY <1>2, PlaceIs DEF Buffers
<1> QED BY <1>3 DEF harddrive_load_blocks, Buffers

\* Where a window is put.
Low(hd) == (hd.position \div BLOCK_SIZE) * BLOCK_SIZE

LEMMA LowIs ==
  ASSUME NEW hd \in Loose
  PROVE  /\ Low(hd) \in Nat /\ Low(hd) <= hd.position /\ hd.position < Low(hd) + BLOCK_SIZE
         /\ Aligned(Low(hd))
<1>1. hd.position \in Nat BY DEF Loose
<1> DEFINE q == hd.position \div BLOCK_SIZE
           r == hd.position % BLOCK_SIZE
<1>2. q \in Nat /\ r \in 0..(BLOCK_SIZE - 1) /\ hd.position = BLOCK_SIZE * q + r
  BY <1>1, SizesAre, Division
<1>3. Low(hd) = q * BLOCK_SIZE BY DEF Low
<1>4. Aligned(Low(hd)) BY <1>2, <1>3 DEF Aligned
<1> HIDE DEF q, r
<1>5. q * BLOCK_SIZE = BLOCK_SIZE * q /\ q * BLOCK_SIZE \in Nat BY <1>2, SizesAre, SMTT(30)
<1> QED BY <1>2, <1>3, <1>5, <1>4, SizesAre

\* v is hd with a window at its position, or hd itself.
Slid(v, hd, slides) ==
  /\ v \in Loose /\ v.data \in Buffers /\ v.file = hd.file /\ v.position = hd.position
  /\ slides => /\ v.range_low = Low(hd) /\ v.range_high = Low(hd) + BufferSize
               /\ ~v.stale
  /\ ~slides => v = hd

LEMMA FilledIs ==
  ASSUME disk \in Disk, NEW i, NEW hd \in Loose, hd.data \in Buffers, NEW n
  PROVE  /\ Slid(Filled(i, hd, n), hd, Misses(hd, n))
         /\ Misses(hd, n) /\ i.size # 0 =>
              Filled(i, hd, n).data = harddrive_load_blocks(i, hd)
<1>1. ASSUME NEW data \in Buffers
      PROVE  Slid(Window(hd, data), hd, TRUE) /\ Window(hd, data).data = data
  <2>1. Low(hd) \in Nat /\ Low(hd) + BufferSize \in Nat BY LowIs, SizesAre
  <2> DEFINE low == Low(hd)
             high == Low(hd) + BufferSize
  <2>2. Window(hd, data) = [hd EXCEPT !.data = data, !.range_low = low, !.range_high = high,
                                      !.stale = FALSE]
    BY DEF Window, Low
  <2> HIDE DEF low, high
  <2>3. low \in Nat /\ high \in Nat BY <2>1 DEF low, high
  <2>4. Window(hd, data) \in Loose BY <2>2, <2>3 DEF Loose
  <2>5. /\ Window(hd, data).data = data /\ Window(hd, data).range_low = low
        /\ Window(hd, data).range_high = high /\ Window(hd, data).stale = FALSE
        /\ Window(hd, data).file = hd.file /\ Window(hd, data).position = hd.position
    BY <2>2 DEF Loose
  <2> QED BY <2>4, <2>5 DEF Slid, low, high
<1>2. [w \in 0..(BufferSize - 1) |-> Garbage] \in Buffers BY DEF Buffers, Cell
<1>3. harddrive_load_blocks(i, hd) \in Buffers BY LoadType
<1>4. CASE ~Misses(hd, n)
  <2>1. Filled(i, hd, n) = hd BY <1>4 DEF Filled
  <2> QED BY <1>4, <2>1 DEF Slid
<1>5. CASE Misses(hd, n) /\ i.size = 0
  <2>1. Filled(i, hd, n) = Window(hd, [w \in 0..(BufferSize - 1) |-> Garbage])
    BY <1>5 DEF Filled
  <2> QED BY <1>1, <1>2, <1>5, <2>1 DEF Slid
<1>6. CASE Misses(hd, n) /\ i.size # 0
  <2>1. Filled(i, hd, n) = Window(hd, harddrive_load_blocks(i, hd)) BY <1>6 DEF Filled
  <2> HIDE DEF Misses
  <2> QED BY <1>1, <1>3, <1>6, <2>1 DEF Slid
<1> QED BY <1>4, <1>5, <1>6

LEMMA MeetsIs ==
  ASSUME disk \in Disk, NEW i, NEW hd \in Loose, NEW n \in Nat
  PROVE  /\ Meets(i, hd, n) \in Outcomes
         /\ Meets(i, hd, n) \in {"bounds", "served"} => hd.data \in Buffers
         /\ Ranged(hd) /\ hd.position + n < UintWrap /\ Meets(i, hd, n) = "bounds" =>
              n > BufferSize - BLOCK_SIZE + 1
<1>1. Meets(i, hd, n) \in Outcomes BY DEF Meets, Outcomes
<1>2. Meets(i, hd, n) \in {"bounds", "served"} => hd.data \in Buffers BY DEF Meets, Loose
<1>3. ASSUME Ranged(hd), hd.position + n < UintWrap, Meets(i, hd, n) = "bounds"
      PROVE  n > BufferSize - BLOCK_SIZE + 1
  <2> DEFINE v == Filled(i, hd, n)
  <2>1. v.position - v.range_low + n > BufferSize BY <1>3 DEF Meets
  <2>2. Slid(v, hd, Misses(hd, n)) BY <1>2, <1>3, FilledIs
  <2> HIDE DEF v
  <2>3. hd.position \in Nat /\ hd.range_low \in Nat /\ hd.range_high \in Nat BY DEF Loose
  <2>4. CASE Misses(hd, n)
    <3>1. v.position = hd.position /\ v.range_low = Low(hd) BY <2>2, <2>4 DEF Slid
    <3> QED BY <2>1, <2>3, <3>1, LowIs, SizesAre
  <2>5. CASE ~Misses(hd, n)
    <3>1. v = hd BY <2>2, <2>5 DEF Slid
    <3>2. Uint(hd.position + n) = hd.position + n BY <1>3, <2>3, SizesAre DEF Uint
    <3>3. hd.position + n <= hd.range_high /\ hd.range_high # hd.range_low
      BY <2>3, <2>5, <3>2 DEF Misses
    <3> QED BY <1>3, <2>1, <2>3, <3>1, <3>3, SizesAre DEF Ranged
  <2> QED BY <2>4, <2>5
<1> QED BY <1>1, <1>2, <1>3

-----------------------------------------------------------------------------
(* The inductive invariant: windows are where files are, files are short.  *)

Placed(hd) == Ranged(hd) /\ (hd.position <= MaxSize \/ hd.position = UintWrap - 1)
WindowsPlaced == \A h \in Handles : handle[h] # Closed => Placed(handle[h])
FilesAreShort ==
  \A f \in Files : inode[f].size <= MaxSize /\ disk.inode[f].size <= MaxSize

IInv == TypeOK /\ WindowsPlaced /\ FilesAreShort /\ SmallRequestsStayInside

LEMMA HandleIs ==
  ASSUME IInv, NEW h \in Handles, handle[h] # Closed
  PROVE  /\ handle[h] \in FileData /\ handle[h] \in Loose /\ Placed(handle[h])
         /\ handle[h].file \in Files /\ handle[h].position \in 0..(UintWrap - 1)
         /\ inode[handle[h].file] \in Inode /\ inode[handle[h].file].size \in 0..MaxSize
<1>1. handle[h] \in FileData /\ Placed(handle[h]) BY DEF IInv, TypeOK, WindowsPlaced
<1>2. handle[h].file \in Files /\ handle[h].position \in 0..(UintWrap - 1)
  BY <1>1 DEF FileData
<1>3. inode[handle[h].file] \in Inode BY <1>2 DEF IInv, TypeOK
<1>4. inode[handle[h].file].size \in 0..MaxSize
  BY <1>2, <1>3, SizesAre DEF IInv, FilesAreShort, Inode
<1> QED BY <1>1, <1>2, <1>3, <1>4, LooseIs

\* A step that only changes one handle.
LEMMA HandleStep ==
  ASSUME IInv, NEW h \in Handles, NEW v, handle' = [handle EXCEPT ![h] = v],
         v = Closed \/ (v \in FileData /\ Placed(v)),
         UNCHANGED <<disk, n_blocks, inode, dirty, writes, fault>>
  PROVE  IInv'
<1>1. handle' \in [Handles -> FileData \cup {Closed}] BY DEF IInv, TypeOK
<1>2. \A g \in Handles : handle'[g] = IF g = h THEN v ELSE handle[g] BY DEF IInv, TypeOK
<1>3. TypeOK' BY <1>1 DEF IInv, TypeOK
<1>4. WindowsPlaced'
  <2>1. \A g \in Handles : handle'[g] # Closed => Placed(handle'[g])
    BY <1>2 DEF IInv, WindowsPlaced
  <2> QED BY <2>1 DEF WindowsPlaced, Placed, Ranged, Aligned
<1> QED BY <1>3, <1>4 DEF IInv, FilesAreShort, SmallRequestsStayInside

\* A step that stops the kernel.
LEMMA FaultStep ==
  ASSUME IInv, NEW kind \in {"null", "bounds", "underflow"}, NEW n \in Nat, Fault(kind, n),
         kind \in {"bounds", "underflow"} => n > BufferSize - BLOCK_SIZE + 1
  PROVE  IInv'
<1>1. fault' = [kind |-> kind, n |-> n] BY DEF Fault
<1>2. TypeOK' BY <1>1 DEF IInv, TypeOK, Fault
<1>3. SmallRequestsStayInside' BY <1>1 DEF SmallRequestsStayInside
<1> QED BY <1>2, <1>3 DEF IInv, WindowsPlaced, Placed, Ranged, Aligned, FilesAreShort, Fault

LEMMA OpenStep ==
  ASSUME IInv, NEW h \in Handles, NEW f \in Files, fs_open(h, f)
  PROVE  IInv'
<1> DEFINE data == [w \in 0..(BufferSize - 1) |-> Garbage]
           v == [file |-> f, position |-> 0, range_low |-> 0, range_high |-> 0,
                 data |-> data, stale |-> FALSE]
<1>1. data \in Buffers BY DEF Buffers, Cell
<1>2. handle' = [handle EXCEPT ![h] = v] BY DEF fs_open
<1> HIDE DEF data
<1>3. v \in Loose BY <1>1 DEF Loose
<1>4. Placed(v) BY SizesAre DEF Placed, Ranged
<1>5. v \in FileData BY <1>3, <1>4, SizesAre, LooseIs DEF Placed
<1> HIDE DEF v
<1> QED BY <1>2, <1>4, <1>5, HandleStep DEF fs_open

LEMMA CloseStep ==
  ASSUME IInv, NEW h \in Handles, fs_close(h)
  PROVE  IInv'
BY HandleStep DEF fs_close

LEMMA SeekStep ==
  ASSUME IInv, NEW h \in Handles, NEW offset \in Offsets,
         NEW whence \in {"VFS_BEG", "VFS_CUR", "VFS_END"}, fs_seek(h, offset, whence)
  PROVE  IInv'
<1>1. handle[h] # Closed BY DEF fs_seek
<1>2. /\ handle[h] \in FileData /\ handle[h] \in Loose /\ Placed(handle[h])
      /\ handle[h].position \in Nat /\ inode[handle[h].file].size \in Nat
  BY <1>1, HandleIs, SizesAre
<1> DEFINE size == inode[handle[h].file].size
           position == handle[h].position
           target ==
             CASE whence = "VFS_BEG" -> IF offset < Uint(size - 1) THEN offset ELSE Uint(size - 1)
               [] whence = "VFS_CUR" -> IF Uint(offset + position) < Uint(size - 1)
                                        THEN Uint(position + offset) ELSE Uint(position + size - 1)
               [] whence = "VFS_END" -> IF Uint(size - 1 - offset) > 0 THEN Uint(size - offset) ELSE 0
<1>3. \A n \in Int : Uint(n) \in Nat BY SizesAre DEF Uint
<1>4. offset \in Nat BY SizesAre
<1>5. target \in Nat
  <2> HIDE DEF size, position
  <2>1. size \in Nat /\ position \in Nat BY <1>2 DEF size, position
  <2>2. /\ Uint(size - 1) \in Nat /\ Uint(position + offset) \in Nat
        /\ Uint(position + size - 1) \in Nat /\ Uint(size - offset) \in Nat
    BY <1>3, <1>4, <2>1
  <2>3. CASE whence = "VFS_BEG" BY <1>4, <2>2, <2>3
  <2>4. CASE whence = "VFS_CUR" BY <2>2, <2>4
  <2>5. CASE whence = "VFS_END" BY <2>2, <2>5
  <2> QED BY <2>3, <2>4, <2>5
<1>6. /\ target <= MaxSize \/ target = UintWrap - 1
      /\ handle' = [handle EXCEPT ![h].position = target]
      /\ UNCHANGED <<disk, n_blocks, inode, dirty, writes, fault>>
  BY DEF fs_seek
<1> HIDE DEF target
<1> DEFINE v == [handle[h] EXCEPT !.position = target]
<1>7. handle' = [handle EXCEPT ![h] = v] BY <1>6
<1>8. v \in Loose /\ v.position = target BY <1>2, <1>5 DEF Loose
<1>9. v.range_low = handle[h].range_low /\ v.range_high = handle[h].range_high
  BY <1>2 DEF Loose
<1> HIDE DEF v
<1>10. Placed(v) BY <1>2, <1>6, <1>8, <1>9 DEF Placed, Ranged
<1>11. v.position < UintWrap BY <1>5, <1>6, <1>8, SizesAre
<1>12. v \in FileData BY <1>8, <1>10, <1>11, LooseIs DEF Placed
<1> QED BY <1>6, <1>7, <1>10, <1>12, HandleStep

\* What a failed load leaves.
LEMMA RefusedStep ==
  ASSUME IInv, NEW h \in Handles, NEW n \in Requests, WriteRefused(h, n)
  PROVE  IInv'
<1>1. handle[h] # Closed BY DEF WriteRefused, MayWrite
<1>2. handle[h] \in Loose /\ Placed(handle[h]) /\ handle[h].position < UintWrap
  BY <1>1, HandleIs, SizesAre
<1> DEFINE v == [handle[h] EXCEPT !.data = NULL]
<1>3. handle' = [handle EXCEPT ![h] = v] BY DEF WriteRefused
<1>4. /\ v \in Loose /\ v.position = handle[h].position
      /\ v.range_low = handle[h].range_low /\ v.range_high = handle[h].range_high
  BY <1>2 DEF Loose
<1> HIDE DEF v
<1>5. Placed(v) /\ v.position < UintWrap BY <1>2, <1>4 DEF Placed, Ranged
<1>6. v \in FileData BY <1>4, <1>5, LooseIs DEF Placed
<1> QED BY <1>3, <1>5, <1>6, HandleStep DEF WriteRefused

LEMMA WriteFaultStep ==
  ASSUME IInv, NEW h \in Handles, NEW n \in Requests, WriteFaults(h, n)
  PROVE  IInv'
<1>1. handle[h] # Closed /\ handle[h].position + n <= MaxSize BY DEF WriteFaults, MayWrite
<1>2. n \in Nat BY SizesAre
<1>3. handle[h] \in Loose /\ Ranged(handle[h]) /\ disk \in Disk
      /\ handle[h].position \in Nat
  BY <1>1, HandleIs, SizesAre DEF Placed, IInv, TypeOK
<1>4. handle[h].position + n < UintWrap BY <1>1, <1>2, <1>3, SizesAre
<1> DEFINE is == Meets(inode[handle[h].file], handle[h], n)
<1>5. is \in {"null", "bounds"} /\ Fault(is, n) BY DEF WriteFaults
<1>6. is = "bounds" => n > BufferSize - BLOCK_SIZE + 1 BY <1>2, <1>3, <1>4, MeetsIs
<1> HIDE DEF is
<1> QED BY <1>2, <1>5, <1>6, FaultStep

\* A read, turn by turn: r is the outcome so far and the handle.
Served(i, piece, r) ==
  IF r.is # "served" THEN r
  ELSE [is |-> Meets(i, r.hd, piece),
        hd |-> IF Meets(i, r.hd, piece) = "served"
               THEN [Filled(i, r.hd, piece) EXCEPT !.position = @ + piece] ELSE r.hd]
Readings == [is : Outcomes, hd : Loose]

LEMMA ServedIs ==
  ASSUME disk \in Disk, NEW i, NEW piece \in Nat, NEW r \in Readings
  PROVE  /\ Served(i, piece, r) \in Readings
         /\ Ranged(r.hd) /\ r.hd.position <= MaxSize => Ranged(Served(i, piece, r).hd)
         /\ Served(i, piece, r).hd.position <= r.hd.position + piece
         /\ /\ Ranged(r.hd) /\ r.hd.position + piece < UintWrap
            /\ r.is = "served" /\ Served(i, piece, r).is = "bounds"
            => piece > BufferSize - BLOCK_SIZE + 1
<1> DEFINE v == Filled(i, r.hd, piece)
           u == [v EXCEPT !.position = @ + piece]
           is == Meets(i, r.hd, piece)
<1>1. r.hd \in Loose /\ r.hd.position \in Nat /\ r.is \in Outcomes
      /\ r = [is |-> r.is, hd |-> r.hd]
  BY DEF Readings, Loose
<1>2. CASE r.is # "served"
  <2>1. Served(i, piece, r) = r BY <1>2 DEF Served
  <2> QED BY <1>1, <1>2, <2>1
<1>3. CASE r.is = "served" /\ is = "served"
  <2>1. Served(i, piece, r) = [is |-> is, hd |-> u] BY <1>3 DEF Served
  <2>2. r.hd.data \in Buffers BY <1>1, <1>3, MeetsIs
  <2>3. Slid(v, r.hd, Misses(r.hd, piece)) BY <1>1, <2>2, FilledIs
  <2> HIDE DEF v, is
  <2>4. v \in Loose /\ v.position = r.hd.position BY <2>3 DEF Slid
  <2>5. /\ u \in Loose /\ u.position = r.hd.position + piece
        /\ u.range_low = v.range_low /\ u.range_high = v.range_high
    BY <1>1, <2>4 DEF Loose
  <2> HIDE DEF u
  <2>6. ASSUME Ranged(r.hd), r.hd.position <= MaxSize PROVE Ranged(u)
    <3>1. CASE Misses(r.hd, piece)
      <4>1. v.range_low = Low(r.hd) /\ v.range_high = Low(r.hd) + BufferSize
        BY <2>3, <3>1 DEF Slid
      <4>2. Low(r.hd) <= MaxSize /\ Aligned(Low(r.hd)) BY <1>1, <2>6, LowIs, SizesAre
      <4> QED BY <2>5, <4>1, <4>2 DEF Ranged
    <3>2. CASE ~Misses(r.hd, piece)
      <4>1. v = r.hd BY <2>3, <3>2 DEF Slid
      <4> QED BY <2>5, <2>6, <4>1 DEF Ranged
    <3> QED BY <3>1, <3>2
  <2>7. is \in Outcomes /\ is # "bounds" BY <1>3 DEF Outcomes
  <2>8. Served(i, piece, r).is = is /\ Served(i, piece, r).hd = u BY <2>1
  <2>9. Served(i, piece, r) \in Readings BY <2>1, <2>5, <2>7 DEF Readings
  <2> QED BY <1>1, <2>5, <2>6, <2>7, <2>8, <2>9
<1>4. CASE r.is = "served" /\ is # "served"
  <2>1. Served(i, piece, r) = [is |-> is, hd |-> r.hd] BY <1>4 DEF Served
  <2>2. is \in Outcomes BY <1>1, MeetsIs
  <2>3. Ranged(r.hd) /\ r.hd.position + piece < UintWrap /\ is = "bounds"
          => piece > BufferSize - BLOCK_SIZE + 1
    BY <1>1, MeetsIs
  <2> HIDE DEF is
  <2>4. Served(i, piece, r).is = is /\ Served(i, piece, r).hd = r.hd BY <2>1
  <2>5. Served(i, piece, r) \in Readings BY <1>1, <2>1, <2>2 DEF Readings
  <2> QED BY <1>1, <2>3, <2>4, <2>5
<1> QED BY <1>2, <1>3, <1>4

\* The whole read.
Reading(i, hd, size, piece) ==
  CHOOSE f : f = [k \in 0..(size \div piece) |->
                    IF k = 0 THEN [is |-> "served", hd |-> hd] ELSE Served(i, piece, f[k - 1])]

LEMMA ReadingTurns ==
  ASSUME disk \in Disk, NEW i, NEW hd \in Loose, NEW size \in Nat, NEW piece \in Nat \ {0}
  PROVE  LET N == size \div piece
             after == Reading(i, hd, size, piece)
         IN /\ N \in Nat /\ piece * N <= size
            /\ after[0] = [is |-> "served", hd |-> hd]
            /\ \A k \in 1..N : after[k] = Served(i, piece, after[k - 1])
<1> DEFINE N == size \div piece
           start == [is |-> "served", hd |-> hd]
           F(f) == f = [k \in 0..N |-> IF k = 0 THEN start ELSE Served(i, piece, f[k - 1])]
           after == CHOOSE f : F(f)
           g == [r \in Readings |-> Served(i, piece, r)]
           G == [k \in 1..N |-> g]
<1>1. N \in Nat /\ piece * N <= size
  <2>1. /\ N \in Nat /\ size % piece \in 0..(piece - 1)
        /\ size = piece * N + (size % piece)
    BY Division
  <2> HIDE DEF N
  <2>2. piece * N \in Nat BY <2>1, SMTT(30)
  <2> QED BY <2>1, <2>2
<1> HIDE DEF N
<1>2. start \in Readings BY DEF Readings, Outcomes
<1>3. \A r \in Readings : Served(i, piece, r) \in Readings BY ServedIs
<1>4. G \in [1..N -> [Readings -> Readings]] BY <1>3
<1>5. \A k \in 1..N : \A r \in Readings : G[k][r] = Served(i, piece, r) OBVIOUS
<1> HIDE DEF G
<1>6. PICK f \in [0..N -> Readings] : Turns(f, N, start, G) BY <1>1, <1>2, <1>4, TurnsExist
<1>7. F(f)
  <2>1. \A k \in 0..N : f[k] = IF k = 0 THEN start ELSE G[k][f[k - 1]] BY <1>6 DEF Turns
  <2>2. \A k \in 0..N : k # 0 => k \in 1..N /\ f[k - 1] \in Readings BY <1>1
  <2> HIDE DEF start
  <2> QED BY <1>5, <2>1, <2>2
<1>8. F(after) BY <1>7
<1> HIDE DEF after
<1>9. after[0] = start /\ \A k \in 1..N : after[k] = Served(i, piece, after[k - 1])
  <2>1. \A k \in 0..N : after[k] = IF k = 0 THEN start ELSE Served(i, piece, after[k - 1])
    BY <1>8
  <2> HIDE DEF start
  <2> QED BY <1>1, <2>1
<1>10. Reading(i, hd, size, piece) = after BY DEF Reading, after, N, start
<1> QED BY <1>1, <1>9, <1>10 DEF N, start

LEMMA ReadingIs ==
  ASSUME disk \in Disk, NEW i, NEW hd \in Loose, Ranged(hd), NEW size \in Nat,
         NEW piece \in Nat \ {0}, piece <= size, hd.position + size <= MaxSize,
         hd.position + size + piece < UintWrap
  PROVE  LET last == Reading(i, hd, size, piece)[size \div piece]
         IN /\ last \in Readings /\ Ranged(last.hd) /\ last.hd.position <= MaxSize
            /\ last.is = "bounds" => piece > BufferSize - BLOCK_SIZE + 1
<1> DEFINE N == size \div piece
           start == [is |-> "served", hd |-> hd]
           after == Reading(i, hd, size, piece)
<1>1. N \in Nat /\ piece * N <= size BY ReadingTurns
<1>2. start \in Readings BY DEF Readings, Outcomes
<1>3. after[0] = start /\ \A k \in 1..N : after[k] = Served(i, piece, after[k - 1])
  BY ReadingTurns
<1> HIDE DEF N, after
<1> DEFINE P == {k \in Nat : k <= N =>
                   /\ after[k] \in Readings /\ Ranged(after[k].hd)
                   /\ after[k].hd.position <= hd.position + piece * k
                   /\ after[k].is = "bounds" => piece > BufferSize - BLOCK_SIZE + 1}
<1>4. hd.position \in Nat BY DEF Loose
<1>5. 0 \in P
  <2>1. start.hd = hd /\ start.is = "served" /\ piece * 0 = 0 BY SMT
  <2> QED BY <1>2, <1>3, <1>4, <2>1
<1>6. ASSUME NEW k \in P, k < N PROVE k + 1 \in P
  <2> DEFINE r == after[k]
             s == after[k + 1]
  <2>1. k + 1 \in 1..N /\ (k + 1) - 1 = k /\ k \in Nat BY <1>1, <1>6
  <2>2. s = Served(i, piece, r) BY <1>3, <2>1
  <2>3. /\ r \in Readings /\ Ranged(r.hd) /\ r.hd.position <= hd.position + piece * k
        /\ r.is = "bounds" => piece > BufferSize - BLOCK_SIZE + 1
    <3>1. k <= N BY <1>1, <1>6, <2>1
    <3> QED BY <1>6, <3>1, Zenon
  <2>4. /\ piece * k \in Nat /\ piece * k <= piece * N /\ piece * (k + 1) = piece * k + piece
        /\ piece * N \in Nat
    BY <1>1, <1>6, <2>1, Scaled
  <2> HIDE DEF r, s
  <2>5. r.hd.position \in Nat BY <2>3 DEF Readings, Loose
  <2>6. r.hd.position <= MaxSize /\ r.hd.position + piece < UintWrap
    <3> DEFINE a == piece * k
               c == piece * N
    <3>1. a \in Nat /\ c \in Nat /\ a <= c /\ c <= size BY <1>1, <2>4
    <3>2. r.hd.position <= hd.position + a BY <2>3
    <3>3. MaxSize \in Nat /\ UintWrap \in Nat BY SizesAre
    <3> HIDE DEF a, c
    <3> QED BY <1>4, <2>5, <3>1, <3>2, <3>3
  <2>7. /\ s \in Readings /\ Ranged(s.hd) /\ s.hd.position <= r.hd.position + piece
        /\ r.is = "served" /\ s.is = "bounds" => piece > BufferSize - BLOCK_SIZE + 1
    BY <2>2, <2>3, <2>6, ServedIs
  <2>8. s.hd.position \in Nat BY <2>7 DEF Readings, Loose
  <2>9. s.hd.position <= hd.position + piece * (k + 1) BY <1>4, <2>3, <2>4, <2>5, <2>7, <2>8
  <2>10. s.is = "bounds" => piece > BufferSize - BLOCK_SIZE + 1
    <3>1. r.is # "served" => s = r BY <2>2 DEF Served
    <3> QED BY <2>3, <2>7, <3>1
  <2> QED BY <2>1, <2>7, <2>9, <2>10 DEF s
<1>7. P \in SUBSET Nat OBVIOUS
<1> HIDE DEF P, start
<1>8. 0..N \subseteq P BY <1>1, <1>5, <1>6, <1>7, CountingUp
<1>9. /\ after[N] \in Readings /\ Ranged(after[N].hd)
      /\ after[N].hd.position <= hd.position + piece * N
      /\ after[N].is = "bounds" => piece > BufferSize - BLOCK_SIZE + 1
  BY <1>1, <1>8 DEF P
<1>10. after[N].hd.position \in Nat BY <1>9 DEF Readings, Loose
<1>11. piece * N \in Nat BY <1>1, SMTT(30)
<1>12. after[N].hd.position <= MaxSize BY <1>1, <1>4, <1>9, <1>10, <1>11, SizesAre
<1> QED BY <1>9, <1>12 DEF N, after

LEMMA ReadStep ==
  ASSUME IInv, NEW h \in Handles, NEW n \in Requests, fs_read(h, n)
  PROVE  IInv'
<1> DEFINE i == inode[handle[h].file]
           size == Least(n, i.size - handle[h].position)
           piece == Least(size, BufferSize)
           last == Reading(i, handle[h], size, piece)[size \div piece]
<1>1. handle[h] # Closed /\ n > 0 /\ handle[h].position < i.size BY DEF fs_read
<1>2. \/ last.is \in {"null", "bounds"} /\ Fault(last.is, size)
      \/ last.is = "served" /\ size % piece # 0 /\ Fault("underflow", size)
      \/ /\ handle' = [handle EXCEPT ![h] = last.hd]
         /\ UNCHANGED <<disk, n_blocks, inode, dirty, writes, fault>>
  BY DEF fs_read, Served, Reading
<1>3. /\ handle[h] \in Loose /\ Ranged(handle[h]) /\ disk \in Disk
      /\ handle[h].position \in Nat /\ i.size \in 0..MaxSize
  BY <1>1, HandleIs, SizesAre DEF Placed, IInv, TypeOK
<1> HIDE DEF i
<1>4. n \in Nat \ {0} /\ MaxSize + n < UintWrap BY <1>1, SizesAre
<1>5. size \in Nat \ {0} /\ size <= n /\ size <= i.size - handle[h].position
  BY <1>1, <1>3, <1>4, SizesAre DEF Least
<1> HIDE DEF size
<1>6. piece \in Nat \ {0} /\ piece <= size /\ (piece = size \/ (piece = BufferSize /\ size > piece))
  BY <1>5, SizesAre DEF Least
<1> HIDE DEF piece
<1>7. /\ handle[h].position + size <= MaxSize /\ handle[h].position + size + piece < UintWrap
  BY <1>3, <1>4, <1>5, <1>6, SizesAre
<1>8. /\ last \in Readings /\ Ranged(last.hd) /\ last.hd.position <= MaxSize
      /\ last.is = "bounds" => piece > BufferSize - BLOCK_SIZE + 1
  BY <1>3, <1>5, <1>6, <1>7, ReadingIs
<1> HIDE DEF last
<1>9. CASE last.is \in {"null", "bounds"} /\ Fault(last.is, size)
  <2>1. last.is = "bounds" => size > BufferSize - BLOCK_SIZE + 1 BY <1>5, <1>6, <1>8, SizesAre
  <2> QED BY <1>5, <1>9, <2>1, FaultStep
<1>10. CASE size % piece # 0 /\ Fault("underflow", size)
  <2>1. piece # size
    <3>1. size % size = 0 BY <1>5
    <3> QED BY <1>10, <3>1
  <2>2. size > BufferSize - BLOCK_SIZE + 1 BY <1>5, <1>6, <2>1, SizesAre
  <2> QED BY <1>5, <1>10, <2>2, FaultStep
<1>11. CASE /\ handle' = [handle EXCEPT ![h] = last.hd]
            /\ UNCHANGED <<disk, n_blocks, inode, dirty, writes, fault>>
  <2>1. last.hd \in Loose /\ last.hd.position \in Nat BY <1>8 DEF Readings, Loose
  <2>2. last.hd.position < UintWrap BY <1>8, <2>1, SizesAre
  <2>3. Placed(last.hd) BY <1>8 DEF Placed
  <2>4. last.hd \in FileData BY <1>8, <2>1, <2>2, LooseIs
  <2> QED BY <1>11, <2>3, <2>4, HandleStep
<1> QED BY <1>2, <1>9, <1>10, <1>11

-----------------------------------------------------------------------------
(* A write.                                                                *)

Patched(hd, n, v) ==
  LET from == hd.position - hd.range_low
  IN [hd EXCEPT !.position = @ + n,
                !.data = [w \in DOMAIN @ |-> IF w \in from..(from + n - 1) THEN v ELSE @[w]]]
Count(size) ==
  IF BUFFER_SIZE_BLOCKS > size \div BLOCK_SIZE + 1
  THEN (size + BLOCK_SIZE - 1) \div BLOCK_SIZE ELSE BUFFER_SIZE_BLOCKS
Fresh(i) == [blocks |-> i.blocks, n_blocks |-> n_blocks, disk |-> disk, log |-> <<>>]

LEMMA CountFits ==
  ASSUME NEW size \in Nat
  PROVE  /\ (size + BLOCK_SIZE - 1) \div BLOCK_SIZE \in Nat
         /\ (size + BLOCK_SIZE - 1) \div BLOCK_SIZE <= size \div BLOCK_SIZE + 1
         /\ Count(size) \in 0..BUFFER_SIZE_BLOCKS
<1> DEFINE a == size + BLOCK_SIZE - 1
           q == size \div BLOCK_SIZE
           r == size % BLOCK_SIZE
<1>1. a \in Nat BY SizesAre
<1>2. q \in Nat /\ r \in 0..(BLOCK_SIZE - 1) /\ size = BLOCK_SIZE * q + r BY SizesAre, Division
<1> HIDE DEF q, r
<1>3. BLOCK_SIZE * (q + 2) = BLOCK_SIZE * q + BLOCK_SIZE + BLOCK_SIZE
  BY <1>2, SizesAre, SMTT(30)
<1>4. BLOCK_SIZE * q \in Nat BY <1>2, SizesAre, SMTT(30)
<1>5. a < BLOCK_SIZE * (q + 2) BY <1>2, <1>3, <1>4, SizesAre
<1>6. q + 2 \in Nat BY <1>2
<1> HIDE DEF a
<1>7. BLOCK_SIZE \in Nat \ {0} BY SizesAre
<1>8. a \div BLOCK_SIZE \in 0..((q + 2) - 1) BY <1>1, <1>5, <1>6, <1>7, QuotientBelow
<1>9. a \div BLOCK_SIZE \in Nat /\ a \div BLOCK_SIZE <= q + 1 BY <1>2, <1>8
<1>10. Count(size) \in 0..BUFFER_SIZE_BLOCKS
  <2>1. Count(size) = IF BUFFER_SIZE_BLOCKS > q + 1 THEN a \div BLOCK_SIZE ELSE BUFFER_SIZE_BLOCKS
    BY DEF Count, a, q
  <2> QED BY <1>2, <1>9, <2>1, SizesAre
<1> QED BY <1>9, <1>10 DEF a, q

LEMMA PatchedIs ==
  ASSUME NEW hd \in Loose, hd.data \in Buffers, NEW n \in Nat, NEW v \in Data
  PROVE  /\ Patched(hd, n, v) \in Loose /\ Patched(hd, n, v).data \in Buffers
         /\ Patched(hd, n, v).position = hd.position + n
         /\ Patched(hd, n, v).range_low = hd.range_low
         /\ Patched(hd, n, v).range_high = hd.range_high
         /\ Patched(hd, n, v).file = hd.file /\ Patched(hd, n, v).stale = hd.stale
<1> DEFINE from == hd.position - hd.range_low
           data == [w \in DOMAIN hd.data |-> IF w \in from..(from + n - 1) THEN v ELSE hd.data[w]]
           position == hd.position + n
<1>1. hd.position \in Nat /\ v \in Cell BY DEF Loose, Cell
<1>2. data \in Buffers BY <1>1 DEF Buffers
<1>3. position \in Nat BY <1>1
<1>4. Patched(hd, n, v) = [hd EXCEPT !.position = position, !.data = data]
  <2> HIDE DEF from
  <2> QED BY DEF Patched, from
<1> HIDE DEF data, position
<1> QED BY <1>2, <1>3, <1>4 DEF Loose, position

\* A block of a buffer is a block.
LEMMA PartIs ==
  ASSUME NEW hd, hd.data \in Buffers, NEW k \in 1..BUFFER_SIZE_BLOCKS
  PROVE  Part(hd, k) \in Block
<1>1. k - 1 \in Nat /\ k \in Nat /\ k <= BUFFER_SIZE_BLOCKS /\ (k - 1) + 1 = k BY SizesAre
<1>2. /\ BLOCK_SIZE * k <= BLOCK_SIZE * BUFFER_SIZE_BLOCKS
      /\ BLOCK_SIZE * k \in Nat
  BY <1>1, SizesAre, Scaled
<1>3. BLOCK_SIZE * k = BLOCK_SIZE * (k - 1) + BLOCK_SIZE /\ BLOCK_SIZE * (k - 1) \in Nat
  <2> DEFINE j == k - 1
  <2>1. j \in Nat /\ k = j + 1 /\ j <= j BY <1>1
  <2> HIDE DEF j
  <2>2. BLOCK_SIZE * (j + 1) = BLOCK_SIZE * j + BLOCK_SIZE /\ BLOCK_SIZE * j \in Nat
    BY <2>1, SizesAre, Scaled
  <2> QED BY <2>1, <2>2 DEF j
<1>4. BufferSize = BLOCK_SIZE * BUFFER_SIZE_BLOCKS BY SizesAre DEF BufferSize
<1>5. (k - 1) * BLOCK_SIZE = BLOCK_SIZE * (k - 1) BY <1>1, SizesAre
<1>6. \A s \in Sectors : (k - 1) * BLOCK_SIZE + s \in 0..(BufferSize - 1)
  BY <1>2, <1>3, <1>4, <1>5, SizesAre DEF Sectors
<1> QED BY <1>6 DEF Part, Block, Buffers

LEMMA FreshIs ==
  ASSUME IInv, NEW i \in Inode
  PROVE  Fresh(i) \in States(OnDisk)
<1>1. /\ disk \in DisksAt(OnDisk) /\ n_blocks \in OnDisk /\ i.blocks \in RootsAt(OnDisk)
  BY OnDiskIs DEF IInv, TypeOK, OnDisk, Inode
<1>2. <<>> \in Seq(EntriesAt(OnDisk)) OBVIOUS
<1> QED BY <1>1, <1>2 DEF Fresh, States

InodeEntry(f, i) == [part |-> "inode", at |-> f, data |-> i]

\* What a write of n words at a handle does: the states p it passes and the inode.
Writing(p, h, n, v) ==
  LET f == handle[h].file
      i == inode[f]
      new == Patched(Filled(i, handle[h], n), n, v)
      size == Greatest(i.size, handle[h].position + n)
      count == Count(size)
      written == [size |-> size, blocks |-> p[count].blocks]
  IN /\ Passes(p, Fresh(i), new, count) /\ count \in 0..BUFFER_SIZE_BLOCKS
     /\ \A k \in 0..count : p[k] \in States(OnDisk)
     /\ new \in FileData /\ Placed(new) /\ new.file = f /\ new.data \in Buffers
     /\ written \in Inode /\ size \in 0..MaxSize
     /\ Written(h, n, v) = [hd |-> new, n_blocks |-> p[count].n_blocks, inode |-> written,
                            log |-> Append(p[count].log, InodeEntry(f, written))]

LEMMA WrittenIs ==
  ASSUME IInv, NEW h \in Handles, NEW n \in Requests, NEW v \in Data, MayWrite(h, n),
         Meets(inode[handle[h].file], handle[h], n) = "served",
         Written(h, n, v).n_blocks <= MaxBlock + 1
  PROVE  \E p : Writing(p, h, n, v)
<1> DEFINE f == handle[h].file
           i == inode[f]
           hd == Filled(i, handle[h], n)
           new == Patched(hd, n, v)
           size == Greatest(i.size, handle[h].position + n)
           count == Count(size)
           w == harddrive_write_blocks(Fresh(i), new, count)
           written == [size |-> size, blocks |-> w.blocks]
<1>1. handle[h] # Closed /\ handle[h].position + n <= MaxSize BY DEF MayWrite
<1>2. /\ handle[h] \in Loose /\ Placed(handle[h]) /\ handle[h].position \in Nat
      /\ f \in Files /\ i \in Inode /\ i.size \in 0..MaxSize /\ disk \in Disk
  BY <1>1, HandleIs, SizesAre DEF IInv, TypeOK
<1>3. n \in Nat BY SizesAre
<1>4. handle[h].data \in Buffers BY <1>2, <1>3, MeetsIs
<1>5. Slid(hd, handle[h], Misses(handle[h], n)) BY <1>2, <1>4, FilledIs
<1> HIDE DEF hd
<1>6. hd \in Loose /\ hd.data \in Buffers /\ hd.file = f /\ hd.position = handle[h].position
  BY <1>5 DEF Slid
<1>7. Ranged(hd)
  <2>1. CASE Misses(handle[h], n)
    <3>1. hd.range_low = Low(handle[h]) /\ hd.range_high = Low(handle[h]) + BufferSize
      BY <1>5, <2>1 DEF Slid
    <3>2. Low(handle[h]) <= MaxSize /\ Aligned(Low(handle[h])) BY <1>1, <1>2, <1>3, LowIs, SizesAre
    <3> QED BY <3>1, <3>2 DEF Ranged
  <2>2. CASE ~Misses(handle[h], n)
    <3>1. hd = handle[h] BY <1>5, <2>2 DEF Slid
    <3> QED BY <1>2, <3>1 DEF Placed
  <2> QED BY <2>1, <2>2
<1>8. /\ new \in Loose /\ new.data \in Buffers /\ new.position = hd.position + n
      /\ new.range_low = hd.range_low /\ new.range_high = hd.range_high /\ new.file = hd.file
  BY <1>3, <1>6, PatchedIs
<1>9. size \in 0..MaxSize BY <1>1, <1>2, <1>3, SizesAre DEF Greatest
<1>10. /\ Written(h, n, v) = [hd |-> new, n_blocks |-> w.n_blocks, inode |-> written,
                             log |-> Append(w.log, InodeEntry(f, written))]
  <2>1. size = Greatest(i.size, hd.position + n) BY <1>6
  <2> HIDE DEF size
  <2> QED BY <2>1 DEF Written, hd, Patched, Count, Fresh, write_inode, InodeEntry
<1> HIDE DEF new, size
<1>11. Ranged(new) /\ new.position <= MaxSize
  <2>1. Ranged(new) BY <1>7, <1>8 DEF Ranged
  <2> QED BY <1>1, <1>6, <1>8, <2>1
<1>12. new.position < UintWrap
  <2>1. new.position \in Nat BY <1>8 DEF Loose
  <2> QED BY <1>11, <2>1, SizesAre
<1>13. new \in FileData /\ Placed(new)
  BY <1>8, <1>11, <1>12, LooseIs DEF Placed
<1>14. count \in 0..BUFFER_SIZE_BLOCKS BY <1>9, SizesAre, CountFits
<1> HIDE DEF count
<1>15. OnDisk \in Counts /\ Fresh(i) \in States(OnDisk) BY <1>2, FreshIs DEF Counts
<1>16. \A k \in 1..count : Part(new, k) \in Block BY <1>8, <1>14, PartIs, SizesAre
<1>17. count \in Nat /\ new.range_low \in Nat BY <1>8, <1>14, SizesAre DEF Loose
<1> HIDE DEF i, f
<1>18. PICK p : /\ Passes(p, Fresh(i), new, count) /\ p[count] = w
                /\ w.n_blocks \in OnDisk => \A k \in 0..count : p[k] \in States(OnDisk)
                /\ w.n_blocks \in Nat
  BY <1>15, <1>16, <1>17, WritesAre
<1> HIDE DEF w
<1>19. w.n_blocks \in OnDisk BY <1>10, <1>18, SizesAre DEF OnDisk
<1>20. w \in States(OnDisk) /\ \A k \in 0..count : p[k] \in States(OnDisk)
  BY <1>14, <1>18, <1>19
<1>21. written \in Inode
  <2>1. w.blocks \in [0..TRIPLE_INDIRECT_INDEX -> 0..MaxBlock] BY <1>15, <1>20, StateIs, OnDiskIs
  <2> QED BY <1>9, <2>1, SizesAre DEF Inode
<1> QED BY <1>6, <1>8, <1>9, <1>10, <1>13, <1>14, <1>18, <1>20, <1>21
        DEF Writing, hd, new, size, count, i, f

\* A write that returned has changed one inode.
LEMMA WholeType ==
  ASSUME disk \in Disk, NEW log \in Seq(EntriesAt(OnDisk)), NEW f \in Files, NEW i \in Inode
  PROVE  LET all == Append(log, InodeEntry(f, i))
         IN /\ Survivor(all, Len(all), 0) = Apply(Survivor(all, Len(log), 0), InodeEntry(f, i))
            /\ Survivor(all, Len(all), 0) \in Disk
            /\ Survivor(all, Len(all), 0).inode = [disk.inode EXCEPT ![f] = i]
            /\ Survivor(all, Len(all), 0).block = Survivor(all, Len(log), 0).block
            /\ Survivor(all, Len(all), 0).n_blocks = Survivor(all, Len(log), 0).n_blocks
<1> DEFINE e == InodeEntry(f, i)
           all == Append(log, e)
           d == Survivor(all, Len(log), 0)
<1>1. e \in Entries BY DEF Entries, InodeEntry
<1>2. /\ log \in Seq(Entries) /\ Len(log) \in Nat
  <2>1. log \in [1..Len(log) -> EntriesAt(OnDisk)] /\ Len(log) \in Nat BY LenProperties
  <2>2. log \in [1..Len(log) -> Entries] BY <2>1 DEF Entries
  <2> QED BY <2>1, <2>2, SeqDef
<1> HIDE DEF e
<1>3. /\ all \in Seq(Entries) /\ Len(all) = Len(log) + 1 /\ all[Len(log) + 1] = e
  BY <1>1, <1>2, AppendProperties
<1>4. d \in Disk /\ d.inode = disk.inode
  <2>1. Len(log) \in 0..(Len(all) - 1) /\ 0 \in Sectors /\ ~(0 > 0)
    BY <1>2, <1>3, SizesAre DEF Sectors
  <2> QED BY <1>1, <2>1, CutType
<1>5. PICK g : /\ Disks(g, all)
               /\ \A k \in 0..Len(all) : Survivor(all, k, 0) = g[k]
  BY <1>3, SurvivorIs
<1>6. Len(all) \in 1..Len(all) /\ Len(all) \in 0..Len(all) /\ Len(log) \in 0..Len(all)
      /\ Len(all) - 1 = Len(log)
  BY <1>2, <1>3
<1>7. Survivor(all, Len(all), 0) = Apply(d, e)
  BY <1>3, <1>5, <1>6 DEF Disks
<1> HIDE DEF d, all
<1>8. Apply(d, e) = [d EXCEPT !.inode[f] = i] BY DEF Apply, e, InodeEntry
<1>9. /\ Apply(d, e) \in Disk /\ Apply(d, e).inode = [disk.inode EXCEPT ![f] = i]
      /\ Apply(d, e).block = d.block /\ Apply(d, e).n_blocks = d.n_blocks
  <2>1. Apply(d, e) \in Disk BY <1>1, <1>4, ApplyType
  <2>2. d = [n_blocks |-> d.n_blocks, inode |-> d.inode, block |-> d.block] BY <1>4 DEF Disk
  <2> QED BY <1>4, <1>8, <2>1, <2>2
<1> QED BY <1>7, <1>9 DEF d, all, e

\* The kernel boots from a disk with short files.
LEMMA BootStep ==
  ASSUME IInv, NEW d \in Disk, Boot(d), \A f \in Files : d.inode[f].size <= MaxSize,
         dirty' \subseteq Files, writes' \in 0..MaxWrites, UNCHANGED fault
  PROVE  IInv'
<1>1. /\ disk' = d /\ n_blocks' = d.n_blocks /\ inode' = d.inode
      /\ handle' = [h \in Handles |-> Closed]
  BY DEF Boot
<1>2. d.n_blocks \in 0..(MaxBlock + 1) /\ d.inode \in [Files -> Inode] BY DEF Disk
<1>3. handle' \in [Handles -> FileData \cup {Closed}] BY <1>1
<1>4. TypeOK' BY <1>1, <1>2, <1>3 DEF IInv, TypeOK
<1>5. WindowsPlaced' BY <1>1 DEF WindowsPlaced
<1>6. FilesAreShort' BY <1>1 DEF FilesAreShort
<1> QED BY <1>4, <1>5, <1>6 DEF IInv, SmallRequestsStayInside

LEMMA PowerStep ==
  ASSUME IInv, PowerFails
  PROVE  IInv'
<1>1. disk \in Disk /\ \A f \in Files : disk.inode[f].size <= MaxSize
  BY DEF IInv, TypeOK, FilesAreShort
<1>2. dirty' \subseteq Files /\ writes' \in 0..MaxWrites BY DEF IInv, TypeOK, PowerFails
<1> QED BY <1>1, <1>2, BootStep DEF PowerFails

LEMMA WriteStep ==
  ASSUME IInv, NEW h \in Handles, NEW n \in Requests, NEW v \in Data, fs_write(h, n, v)
  PROVE  IInv'
<1> DEFINE f == handle[h].file
           done == Written(h, n, v)
<1>1. /\ MayWrite(h, n) /\ Meets(inode[f], handle[h], n) = "served"
      /\ done.n_blocks <= MaxBlock + 1 /\ (Returns(h, done) \/ PowerFailsAmid(done.log))
      /\ dirty' = Soiled(h, n) /\ writes' = writes + 1 /\ UNCHANGED fault
  BY DEF fs_write
<1>2. PICK p : Writing(p, h, n, v) BY <1>1, WrittenIs
<1> DEFINE size == Greatest(inode[f].size, handle[h].position + n)
           count == Count(size)
           written == [size |-> size, blocks |-> p[count].blocks]
           e == InodeEntry(f, written)
           log == p[count].log
<1>3. /\ handle[h] # Closed /\ writes < MaxWrites BY <1>1 DEF MayWrite
<1>4. f \in Files BY <1>3, HandleIs
<1> DEFINE new == Patched(Filled(inode[f], handle[h], n), n, v)
<1>5. /\ count \in 0..BUFFER_SIZE_BLOCKS /\ \A k \in 0..count : p[k] \in States(OnDisk)
       /\ new \in FileData /\ Placed(new) /\ new.file = f
       /\ written \in Inode /\ size \in 0..MaxSize
       /\ done = [hd |-> new, n_blocks |-> p[count].n_blocks, inode |-> written,
                  log |-> Append(log, e)]
  BY <1>2 DEF Writing
<1>6. written.size = size OBVIOUS
<1> HIDE DEF new, done, written, count, size, e, log
<1>7. /\ done.hd \in FileData /\ Placed(done.hd) /\ done.hd.file = f
      /\ done.n_blocks = p[count].n_blocks /\ done.inode = written
      /\ done.log = Append(log, e) /\ count \in 0..BUFFER_SIZE_BLOCKS
      /\ p[count] \in States(OnDisk)
      /\ written \in Inode /\ written.size \in 0..MaxSize
  BY <1>5, <1>6, SizesAre
<1>8. /\ log \in Seq(EntriesAt(OnDisk)) /\ p[count].n_blocks \in OnDisk
  BY <1>7, StateIs DEF Counts, log
<1>9. /\ disk \in Disk /\ \A g \in Files : disk.inode[g].size <= MaxSize
      /\ inode \in [Files -> Inode] /\ \A g \in Files : inode[g].size <= MaxSize
  BY DEF IInv, TypeOK, FilesAreShort
<1>10. dirty' \subseteq Files /\ writes' \in 0..MaxWrites
  BY <1>1, <1>3, <1>4, SizesAre DEF IInv, TypeOK, Soiled
<1>11. e \in Entries BY <1>4, <1>7 DEF Entries, InodeEntry, e
<1> HIDE DEF f
<1>12. CASE Returns(h, done)
  <2> DEFINE d == Survivor(done.log, Len(done.log), 0)
  <2>1. /\ disk' = d /\ n_blocks' = done.n_blocks /\ inode' = [inode EXCEPT ![f] = done.inode]
        /\ handle' = [g \in Handles |->
             IF g = h THEN done.hd
             ELSE IF g \in Open(f) THEN [handle[g] EXCEPT !.stale = TRUE] ELSE handle[g]]
    BY <1>12 DEF Returns, f
  <2>2. d \in Disk /\ d.inode = [disk.inode EXCEPT ![f] = written]
    BY <1>4, <1>7, <1>8, <1>9, WholeType DEF e
  <2> HIDE DEF d
  <2>3. disk' \in Disk /\ \A g \in Files : disk'.inode[g].size <= MaxSize
    <3>1. disk.inode \in [Files -> Inode] BY <1>9 DEF Disk
    <3>2. written.size <= MaxSize BY <1>7, SizesAre
    <3> QED BY <1>4, <1>9, <2>1, <2>2, <3>1, <3>2
  <2>4. inode' \in [Files -> Inode] /\ \A g \in Files : inode'[g].size <= MaxSize
    BY <1>4, <1>7, <1>9, <2>1, SizesAre
  <2>5. ASSUME NEW g \in Handles
        PROVE  /\ handle'[g] \in FileData \cup {Closed}
               /\ handle'[g] # Closed => Placed(handle'[g])
    <3>1. CASE g = h BY <1>7, <2>1, <3>1
    <3>2. CASE g # h /\ g \in Open(f)
      <4> DEFINE u == [handle[g] EXCEPT !.stale = TRUE]
      <4>1. handle[g] # Closed
        <5>1. handle[g].file \in Files BY <1>4, <3>2 DEF Open
        <5> QED BY <5>1, GeometryAssumption DEF Closed
      <4>2. handle[g] \in FileData /\ Placed(handle[g]) BY <4>1, HandleIs
      <4>3. /\ u \in FileData /\ u.position = handle[g].position
            /\ u.range_low = handle[g].range_low /\ u.range_high = handle[g].range_high
        BY <4>2 DEF FileData
      <4>4. handle'[g] = u BY <2>1, <3>2
      <4> HIDE DEF u
      <4> QED BY <4>2, <4>3, <4>4 DEF Placed, Ranged
    <3>3. CASE g # h /\ g \notin Open(f)
      <4>1. handle'[g] = handle[g] BY <2>1, <3>3
      <4> QED BY <4>1 DEF IInv, TypeOK, WindowsPlaced
    <3> QED BY <3>1, <3>2, <3>3
  <2>6. handle' \in [Handles -> FileData \cup {Closed}] BY <2>1, <2>5
  <2>7. TypeOK' BY <1>1, <1>7, <1>8, <1>10, <2>1, <2>3, <2>4, <2>6 DEF IInv, TypeOK, OnDisk
  <2>8. WindowsPlaced' BY <2>5 DEF WindowsPlaced, Placed, Ranged, Aligned
  <2>9. FilesAreShort' BY <2>3, <2>4 DEF FilesAreShort
  <2> QED BY <1>1, <2>7, <2>8, <2>9 DEF IInv, SmallRequestsStayInside
<1>13. CASE PowerFailsAmid(done.log)
  <2>1. PICK k \in 0..(Len(done.log) - 1), t \in Sectors :
          /\ t > 0 => done.log[k + 1].part = "block"
          /\ Boot(Survivor(done.log, k, t))
    BY <1>13 DEF PowerFailsAmid
  <2>2. Survivor(done.log, k, t) \in Disk /\ Survivor(done.log, k, t).inode = disk.inode
    BY <1>7, <1>8, <1>9, <1>11, <2>1, CutType
  <2> QED BY <1>1, <1>9, <1>10, <2>1, <2>2, BootStep
<1> QED BY <1>1, <1>12, <1>13

-----------------------------------------------------------------------------
(* The disk that there is at the start.                                    *)

\* What WithFile writes.
Old(size) == [range_low |-> 0, data |-> [p \in 0..(size + BLOCK_SIZE) |-> Garbage]]
Start(d, f) ==
  [blocks |-> d.inode[f].blocks, n_blocks |-> d.n_blocks, disk |-> d, log |-> <<>>]
OldCount(size) == (size + BLOCK_SIZE - 1) \div BLOCK_SIZE

LEMMA OldIs ==
  ASSUME NEW size \in Nat
  PROVE  /\ OldCount(size) \in Nat
         /\ \A k \in 1..OldCount(size) : Part(Old(size), k) \in Block
<1> DEFINE a == size + BLOCK_SIZE - 1
           q == a \div BLOCK_SIZE
           r == a % BLOCK_SIZE
<1>1. a \in Nat BY SizesAre
<1>2. q \in Nat /\ r \in 0..(BLOCK_SIZE - 1) /\ a = BLOCK_SIZE * q + r BY <1>1, SizesAre, Division
<1>3. OldCount(size) = q BY DEF OldCount
<1> HIDE DEF q, r
<1>4. ASSUME NEW k \in 1..q, NEW s \in Sectors
      PROVE  (k - 1) * BLOCK_SIZE + s \in 0..(size + BLOCK_SIZE)
  <2> DEFINE j == k - 1
             b == j * BLOCK_SIZE
  <2>1. j \in Nat /\ j <= q /\ j + 1 <= q BY <1>2
  <2> HIDE DEF j
  <2>2. b \in Nat /\ b = BLOCK_SIZE * j BY <2>1, SizesAre, SMTT(30)
  <2>3. BLOCK_SIZE * j <= BLOCK_SIZE * q /\ BLOCK_SIZE * q \in Nat
    BY <1>2, <2>1, SizesAre, Scaled
  <2> HIDE DEF b
  <2>4. b <= a BY <1>1, <1>2, <2>2, <2>3, SizesAre
  <2>5. b + BLOCK_SIZE <= a
    <3>1. BLOCK_SIZE * (j + 1) <= BLOCK_SIZE * q /\ BLOCK_SIZE * (j + 1) \in Nat
      BY <1>2, <2>1, SizesAre, Scaled
    <3>2. BLOCK_SIZE * (j + 1) = BLOCK_SIZE * j + BLOCK_SIZE BY <1>2, <2>1, SizesAre, Scaled
    <3> QED BY <1>1, <1>2, <2>2, <2>3, <3>1, <3>2, SizesAre
  <2>6. b + s \in 0..(size + BLOCK_SIZE) BY <2>2, <2>5, SizesAre DEF Sectors
  <2> QED BY <2>6 DEF b, j
<1>5. Garbage \in Cell BY DEF Cell
<1>6. \A k \in 1..q : Part(Old(size), k) \in Block
  <2>1. \A x \in 0..(size + BLOCK_SIZE) : Old(size).data[x] = Garbage BY DEF Old
  <2> HIDE DEF Old
  <2> QED BY <1>4, <1>5, <2>1 DEF Part, Block
<1> QED BY <1>2, <1>3, <1>6

LEMMA BlankIs ==
  ASSUME NEW boot \in Block
  PROVE  /\ Blank(boot) \in Disk /\ Blank(boot).n_blocks = 1
         /\ \A f \in Files : /\ Blank(boot).inode[f].size = 0
                            /\ Blank(boot).inode[f].blocks = [b \in 0..TRIPLE_INDIRECT_INDEX |-> 0]
         /\ \A b \in 1..MaxBlock : Blank(boot).block[b] = [s \in Sectors |-> 0]
<1>1. [size |-> 0, blocks |-> [b \in 0..TRIPLE_INDIRECT_INDEX |-> 0]] \in Inode
  BY SizesAre DEF Inode
<1>2. [s \in Sectors |-> 0] \in Block BY SizesAre DEF Block, Cell
<1>3. 1 \in 0..(MaxBlock + 1) BY SizesAre
<1>4. Blank(boot) \in Disk BY <1>1, <1>2, <1>3 DEF Blank, Disk
<1>5. Blank(boot).n_blocks = 1 BY DEF Blank
<1>6. \A f \in Files : /\ Blank(boot).inode[f].size = 0
                     /\ Blank(boot).inode[f].blocks = [b \in 0..TRIPLE_INDIRECT_INDEX |-> 0]
  BY DEF Blank
<1>7. \A b \in 1..MaxBlock : Blank(boot).block[b] = [s \in Sectors |-> 0]
  <2>1. \A b \in 1..MaxBlock : b \in 0..MaxBlock /\ b # 0 BY SizesAre
  <2>2. Blank(boot).block = [b \in 0..MaxBlock |-> IF b = 0 THEN boot ELSE [s \in Sectors |-> 0]]
    BY DEF Blank
  <2> QED BY <2>1, <2>2
<1> QED BY <1>4, <1>5, <1>6, <1>7

\* The disk at the start, and the states that led to it.
LEMMA InitIs ==
  ASSUME Init
  PROVE  \E boot \in Block, f \in Files, size \in {0, OldSize} : \E p :
           LET d == Blank(boot)
               count == OldCount(size)
               v == p[count]
           IN /\ Passes(p, Start(d, f), Old(size), count) /\ count \in Nat
              /\ \A k \in 0..count : p[k] \in States(OnDisk)
              /\ v.disk.inode = d.inode /\ disk \in Disk
              /\ disk = [n_blocks |-> v.n_blocks, block |-> v.disk.block,
                         inode |-> [d.inode EXCEPT ![f] = [size |-> size, blocks |-> v.blocks]]]
<1>1. PICK word \in {0, Garbage}, f \in Files, size \in {0, OldSize} :
        disk = WithFile(Blank([s \in Sectors |-> word]), f, size)
  BY DEF Init
<1> DEFINE boot == [s \in Sectors |-> word]
           d == Blank(boot)
           count == OldCount(size)
           v == harddrive_write_blocks(Start(d, f), Old(size), count)
           i == [size |-> size, blocks |-> v.blocks]
<1>2. boot \in Block BY SizesAre DEF Block, Cell
<1>3. disk = [v.disk EXCEPT !.n_blocks = v.n_blocks, !.inode[f] = i]
  BY <1>1 DEF WithFile, Start, Old, OldCount
<1>4. disk.n_blocks <= MaxBlock + 1 BY DEF Init
<1> HIDE DEF boot
<1>5. d \in Disk BY <1>2, BlankIs
<1> HIDE DEF d
<1>6. size \in 0..MaxSize /\ size \in Nat BY SizesAre
<1>7. count \in Nat /\ \A k \in 1..count : Part(Old(size), k) \in Block BY <1>6, OldIs
<1> HIDE DEF count
<1>8. Start(d, f) \in States(OnDisk) /\ OnDisk \in Counts
  <2>1. /\ d \in DisksAt(OnDisk) /\ d.n_blocks \in OnDisk
        /\ d.inode[f].blocks \in RootsAt(OnDisk)
    BY <1>5, OnDiskIs DEF Disk, Inode, OnDisk
  <2>2. <<>> \in Seq(EntriesAt(OnDisk)) OBVIOUS
  <2> QED BY <2>1, <2>2 DEF Start, States, Counts
<1>9. Old(size).range_low \in Nat BY DEF Old
<1>10. PICK p : /\ Passes(p, Start(d, f), Old(size), count) /\ p[count] = v
                /\ \A k \in 0..count : p[k] \in States(Nat)
                /\ v.n_blocks \in OnDisk => \A k \in 0..count : p[k] \in States(OnDisk)
                /\ v.n_blocks \in Nat /\ v.disk.inode = Start(d, f).disk.inode
  BY <1>7, <1>8, <1>9, WritesAre
<1>11. v.disk.inode = d.inode BY <1>10 DEF Start
<1>12. v.disk = [n_blocks |-> v.disk.n_blocks, inode |-> v.disk.inode, block |-> v.disk.block]
  <2>1. v \in States(Nat) /\ Nat \in Counts BY <1>7, <1>10 DEF Counts
  <2> HIDE DEF v
  <2> QED BY <2>1, StateIs
<1> HIDE DEF v
<1>13. disk = [n_blocks |-> v.n_blocks, block |-> v.disk.block,
              inode |-> [d.inode EXCEPT ![f] = i]]
  <2> HIDE DEF i
  <2>1. disk = [[v.disk EXCEPT !.n_blocks = v.n_blocks] EXCEPT !.inode[f] = i] BY <1>3
  <2>2. [v.disk EXCEPT !.n_blocks = v.n_blocks] =
          [n_blocks |-> v.n_blocks, inode |-> d.inode, block |-> v.disk.block]
    BY <1>11, <1>12
  <2> QED BY <2>1, <2>2
<1>14. v.n_blocks \in OnDisk BY <1>4, <1>10, <1>13, SizesAre DEF OnDisk
<1>15. v \in States(OnDisk) /\ \A k \in 0..count : p[k] \in States(OnDisk)
  BY <1>7, <1>10, <1>14
<1>16. disk \in Disk
  <2>1. /\ v.disk.block \in [0..MaxBlock -> Block]
        /\ v.blocks \in [0..TRIPLE_INDIRECT_INDEX -> 0..MaxBlock]
    BY <1>8, <1>15, StateIs, OnDiskIs
  <2>2. i \in Inode BY <1>6, <2>1, SizesAre DEF Inode
  <2>3. d.inode \in [Files -> Inode] BY <1>5 DEF Disk
  <2> HIDE DEF i
  <2> QED BY <1>13, <1>14, <2>1, <2>2, <2>3 DEF Disk, OnDisk
<1> HIDE DEF i
<1>17. /\ Passes(p, Start(d, f), Old(size), count) /\ count \in Nat
       /\ \A k \in 0..count : p[k] \in States(OnDisk)
       /\ p[count].disk.inode = d.inode /\ disk \in Disk
       /\ disk = [n_blocks |-> p[count].n_blocks, block |-> p[count].disk.block,
                  inode |-> [d.inode EXCEPT ![f] = [size |-> size, blocks |-> p[count].blocks]]]
  BY <1>7, <1>10, <1>11, <1>13, <1>15, <1>16 DEF i
<1> QED BY <1>2, <1>17 DEF d, count

LEMMA InitInv == Init => IInv
<1> SUFFICES ASSUME Init PROVE IInv OBVIOUS
<1>1. PICK boot \in Block, f \in Files, size \in {0, OldSize} : \E blocks, n, block :
        /\ disk \in Disk
        /\ disk = [n_blocks |-> n, block |-> block,
                   inode |-> [Blank(boot).inode EXCEPT ![f] = [size |-> size, blocks |-> blocks]]]
  BY InitIs
<1>2. /\ Blank(boot).inode \in [Files -> Inode]
      /\ \A g \in Files : Blank(boot).inode[g].size = 0
  BY BlankIs DEF Disk
<1>3. PICK blocks, n, block :
         disk = [n_blocks |-> n, block |-> block,
                 inode |-> [Blank(boot).inode EXCEPT ![f] = [size |-> size, blocks |-> blocks]]]
  BY <1>1
<1>4. \A g \in Files : disk.inode[g].size <= MaxSize BY <1>2, <1>3, SizesAre
<1>5. /\ n_blocks = disk.n_blocks /\ inode = disk.inode /\ handle = [h \in Handles |-> Closed]
      /\ dirty = {} /\ writes = 0 /\ fault = NoFault
  BY DEF Init
<1>6. disk.n_blocks \in 0..(MaxBlock + 1) /\ disk.inode \in [Files -> Inode] BY <1>1 DEF Disk
<1>7. TypeOK BY <1>1, <1>5, <1>6, SizesAre DEF TypeOK, NoFault
<1>8. WindowsPlaced BY <1>5 DEF WindowsPlaced
<1>9. FilesAreShort BY <1>4, <1>5 DEF FilesAreShort
<1>10. SmallRequestsStayInside BY <1>5 DEF SmallRequestsStayInside, NoFault
<1> QED BY <1>7, <1>8, <1>9, <1>10 DEF IInv

LEMMA NextInv == IInv /\ [Next]_vars => IInv'
<1> SUFFICES ASSUME IInv, [Next]_vars PROVE IInv' OBVIOUS
<1>1. CASE PowerFails BY <1>1, PowerStep
<1>2. CASE \E h \in Handles, f \in Files : fs_open(h, f) BY <1>2, OpenStep
<1>3. CASE \E h \in Handles : fs_close(h) BY <1>3, CloseStep
<1>4. CASE \E h \in Handles, n \in Requests : fs_read(h, n) BY <1>4, ReadStep
<1>5. CASE \E h \in Handles, n \in Requests : WriteRefused(h, n) BY <1>5, RefusedStep
<1>6. CASE \E h \in Handles, n \in Requests : WriteFaults(h, n) BY <1>6, WriteFaultStep
<1>7. CASE \E h \in Handles, n \in Requests, v \in Data : fs_write(h, n, v) BY <1>7, WriteStep
<1>8. CASE \E h \in Handles, offset \in Offsets, whence \in {"VFS_BEG", "VFS_CUR", "VFS_END"} :
             fs_seek(h, offset, whence)
  BY <1>8, SeekStep
<1>9. CASE UNCHANGED vars
  BY <1>9 DEF vars, IInv, TypeOK, WindowsPlaced, Placed, Ranged, Aligned, FilesAreShort,
              SmallRequestsStayInside
<1> QED BY <1>1, <1>2, <1>3, <1>4, <1>5, <1>6, <1>7, <1>8, <1>9 DEF Next

LEMMA Inductive == Spec => []IInv
BY InitInv, NextInv, PTL DEF Spec

\* Whatever is written, read and sought, and wherever power fails, pointers stay on the
\* disk and a cache is a whole buffer or none (estros-fs.c:149-330, 396-457).
THEOREM TypeCorrect == Spec => []TypeOK
<1>1. IInv => TypeOK BY DEF IInv
<1> QED BY <1>1, Inductive, PTL

\* For buffers, blocks and files of any size, a request that leaves a block of the buffer
\* free, but for one byte, never runs past it (estros-fs.c:396-457).
THEOREM RequestsStayInside == Spec => []SmallRequestsStayInside
<1>1. IInv => SmallRequestsStayInside BY DEF IInv
<1> QED BY <1>1, Inductive, PTL

-----------------------------------------------------------------------------
(* Who owns a block.  A place is an index of an inode, an entry of the     *)
(* block it leads to, or an entry one level further down; "owner" gives    *)
(* the place of every block that some file leads to.                       *)

SINGLE == SINGLE_INDIRECT_INDEX
DOUBLE == DOUBLE_INDIRECT_INDEX

P0(f, r) == [file |-> f, root |-> r, path |-> <<>>]
P1(f, r, a) == [file |-> f, root |-> r, path |-> <<a>>]
P2(f, a, b) == [file |-> f, root |-> DOUBLE, path |-> <<a, b>>]

\* The words there: block is the disk's, root the inodes' indices.
V1(block, root, f, r, a) == block[root[f][r]][a]
V2(block, root, f, a, b) == block[V1(block, root, f, DOUBLE, a)][b]

Zeros == [s \in Sectors |-> 0]
Owns(owner, n, b, place) == b # 0 => b \in 1..(n - 1) /\ owner[b] = place
Owner(owner, block, root, n) ==
  /\ \A f \in Files : \A r \in 0..DOUBLE : Owns(owner, n, root[f][r], P0(f, r))
  /\ \A f \in Files : \A r \in {SINGLE, DOUBLE} : \A a \in Sectors :
       root[f][r] # 0 => Owns(owner, n, V1(block, root, f, r, a), P1(f, r, a))
  /\ \A f \in Files : \A a, b \in Sectors :
       root[f][DOUBLE] # 0 /\ V1(block, root, f, DOUBLE, a) # 0 =>
         Owns(owner, n, V2(block, root, f, a, b), P2(f, a, b))
  /\ \A b \in n..MaxBlock : block[b] = Zeros

Roots == [Files -> [0..TRIPLE_INDIRECT_INDEX -> 0..MaxBlock]]
Disk0 == [0..MaxBlock -> Block]

LEMMA PlacesDiffer ==
  ASSUME NEW f, NEW g, NEW r, NEW s, NEW a, NEW b, NEW c, NEW d
  PROVE  /\ P0(f, r) = P0(g, s) => f = g /\ r = s
         /\ P1(f, r, a) = P1(g, s, b) => f = g /\ r = s /\ a = b
         /\ P2(f, a, b) = P2(g, c, d) => f = g /\ a = c /\ b = d
         /\ P0(f, r) # P1(g, s, b) /\ P0(f, r) # P2(g, c, d) /\ P1(f, r, a) # P2(g, c, d)
<1>1. ASSUME P0(f, r) = P0(g, s) PROVE f = g /\ r = s BY <1>1 DEF P0
<1>2. ASSUME P1(f, r, a) = P1(g, s, b) PROVE f = g /\ r = s /\ a = b
  <2>1. f = g /\ r = s /\ <<a>> = <<b>> BY <1>2 DEF P1
  <2> QED BY <2>1
<1>3. ASSUME P2(f, a, b) = P2(g, c, d) PROVE f = g /\ a = c /\ b = d
  <2>1. f = g /\ <<a, b>> = <<c, d>> BY <1>3 DEF P2
  <2> QED BY <2>1
<1>4. P0(f, r).path = <<>> /\ P1(f, r, a).path = <<a>> /\ P1(g, s, b).path = <<b>>
      /\ P2(g, c, d).path = <<c, d>>
  BY DEF P0, P1, P2
<1>5. <<>> # <<b>> /\ <<>> # <<c, d>> /\ <<a>> # <<c, d>>
  <2>1. Len(<<>>) = 0 /\ Len(<<b>>) = 1 /\ Len(<<a>>) = 1 /\ Len(<<c, d>>) = 2 OBVIOUS
  <2> QED BY <2>1
<1> QED BY <1>1, <1>2, <1>3, <1>4, <1>5

LEMMA IndicesAre ==
  /\ SINGLE \in Nat \ {0} /\ DOUBLE = SINGLE + 1 /\ TRIPLE_INDIRECT_INDEX = SINGLE + 2
  /\ SINGLE = NUM_DIRECT_BLOCKS
BY SizesAre DEF SINGLE, DOUBLE, SINGLE_INDIRECT_INDEX, DOUBLE_INDIRECT_INDEX,
                TRIPLE_INDIRECT_INDEX

\* Handing out one more block owns nothing yet.
LEMMA OwnerMore ==
  ASSUME NEW owner, NEW block, NEW root, NEW n \in Nat, Owner(owner, block, root, n)
  PROVE  Owner(owner, block, root, n + 1)
<1>1. 1..(n - 1) \subseteq 1..((n + 1) - 1) /\ (n + 1)..MaxBlock \subseteq n..MaxBlock
  BY SizesAre
<1>2. \A b, place : Owns(owner, n, b, place) => Owns(owner, n + 1, b, place)
  BY <1>1 DEF Owns
<1> QED BY <1>1, <1>2 DEF Owner

\* Fewer indices of the inodes lead to fewer places.
LEMMA OwnerLess ==
  ASSUME NEW owner, NEW block, NEW root, NEW n \in Nat, Owner(owner, block, root, n), NEW old,
         \A f \in Files : \A r \in 0..DOUBLE : old[f][r] = 0 \/ old[f][r] = root[f][r]
  PROVE  Owner(owner, block, old, n)
<1>1. /\ SINGLE \in 0..DOUBLE /\ DOUBLE \in 0..DOUBLE BY IndicesAre
<1>2. \A f \in Files : \A r \in 0..DOUBLE : Owns(owner, n, old[f][r], P0(f, r))
  BY DEF Owner, Owns
<1>3. ASSUME NEW f \in Files, NEW r \in {SINGLE, DOUBLE}, NEW a \in Sectors, old[f][r] # 0
      PROVE  /\ V1(block, old, f, r, a) = V1(block, root, f, r, a)
             /\ Owns(owner, n, V1(block, old, f, r, a), P1(f, r, a))
  <2>1. old[f][r] = root[f][r] BY <1>1, <1>3
  <2>2. V1(block, old, f, r, a) = V1(block, root, f, r, a) BY <2>1 DEF V1
  <2> QED BY <1>3, <2>1, <2>2 DEF Owner
<1>4. ASSUME NEW f \in Files, NEW a \in Sectors, NEW b \in Sectors, old[f][DOUBLE] # 0,
             V1(block, old, f, DOUBLE, a) # 0
      PROVE  Owns(owner, n, V2(block, old, f, a, b), P2(f, a, b))
  <2>1. old[f][DOUBLE] = root[f][DOUBLE] BY <1>1, <1>4
  <2>2. V1(block, old, f, DOUBLE, a) = V1(block, root, f, DOUBLE, a) BY <1>3, <1>4
  <2>3. V2(block, old, f, a, b) = V2(block, root, f, a, b) BY <2>2 DEF V2
  <2> QED BY <1>4, <2>1, <2>2, <2>3 DEF Owner
<1>5. \A b \in n..MaxBlock : block[b] = Zeros BY DEF Owner
<1> QED BY <1>2, <1>3, <1>4, <1>5 DEF Owner

\* Block n gets an owner.
Settled(owner, n, place) == [b \in 1..n |-> IF b = n THEN place ELSE owner[b]]

LEMMA SettledIs ==
  ASSUME NEW owner, NEW n \in Nat \ {0}, NEW place
  PROVE  /\ \A b, p : Owns(owner, n, b, p) => Owns(Settled(owner, n, place), n + 1, b, p)
         /\ Owns(Settled(owner, n, place), n + 1, n, place)
         /\ \A p : Owns(Settled(owner, n, place), n + 1, 0, p)
<1>1. \A b \in 1..(n - 1) : b \in 1..n /\ b # n OBVIOUS
<1>2. 1..n = 1..((n + 1) - 1) /\ n \in 1..n OBVIOUS
<1>3. \A b \in 1..(n - 1) : Settled(owner, n, place)[b] = owner[b] BY <1>1 DEF Settled
<1>4. Settled(owner, n, place)[n] = place BY <1>2 DEF Settled
<1> HIDE DEF Settled
<1> QED BY <1>1, <1>2, <1>3, <1>4 DEF Owns

\* A new block for an index of an inode.
LEMMA OwnerRoot ==
  ASSUME NEW owner, NEW block, NEW root \in Roots, NEW n \in 1..MaxBlock,
         Owner(owner, block, root, n), NEW f \in Files, NEW r \in 0..DOUBLE, root[f][r] = 0
  PROVE  Owner(Settled(owner, n, P0(f, r)), block, [root EXCEPT ![f][r] = n], n + 1)
<1> DEFINE new == [root EXCEPT ![f][r] = n]
           o == Settled(owner, n, P0(f, r))
<1>1. /\ SINGLE \in 0..DOUBLE /\ DOUBLE \in 0..DOUBLE BY IndicesAre
<1>2. 0..DOUBLE \subseteq 0..TRIPLE_INDIRECT_INDEX BY IndicesAre
<1>3. n \in Nat \ {0} /\ n \in n..MaxBlock /\ (n + 1)..MaxBlock \subseteq n..MaxBlock
  BY SizesAre
<1>4. \A g \in Files : \A s \in 0..DOUBLE :
        new[g][s] = IF g = f /\ s = r THEN n ELSE root[g][s]
  BY <1>2 DEF Roots
<1>5. /\ \A b, p : Owns(owner, n, b, p) => Owns(o, n + 1, b, p)
      /\ Owns(o, n + 1, n, P0(f, r)) /\ \A p : Owns(o, n + 1, 0, p)
  BY <1>3, SettledIs
<1>6. \A a \in Sectors : block[n][a] = 0
  <2>1. block[n] = Zeros BY <1>3 DEF Owner
  <2> QED BY <2>1 DEF Zeros
<1> HIDE DEF new, o
<1>7. ASSUME NEW g \in Files, NEW s \in 0..DOUBLE PROVE Owns(o, n + 1, new[g][s], P0(g, s))
  <2>1. Owns(owner, n, root[g][s], P0(g, s)) BY DEF Owner
  <2> QED BY <1>4, <1>5, <2>1
<1>8. ASSUME NEW g \in Files, NEW s \in {SINGLE, DOUBLE}, NEW a \in Sectors
      PROVE  \/ V1(block, new, g, s, a) = 0
             \/ root[g][s] = new[g][s] /\ V1(block, new, g, s, a) = V1(block, root, g, s, a)
  BY <1>1, <1>4, <1>6 DEF V1
<1>9. ASSUME NEW g \in Files, NEW s \in {SINGLE, DOUBLE}, NEW a \in Sectors, new[g][s] # 0
      PROVE  Owns(o, n + 1, V1(block, new, g, s, a), P1(g, s, a))
  <2>1. root[g][s] # 0 => Owns(owner, n, V1(block, root, g, s, a), P1(g, s, a)) BY DEF Owner
  <2> QED BY <1>5, <1>8, <1>9, <2>1
<1>10. ASSUME NEW g \in Files, NEW a \in Sectors, NEW b \in Sectors, new[g][DOUBLE] # 0,
              V1(block, new, g, DOUBLE, a) # 0
       PROVE  Owns(o, n + 1, V2(block, new, g, a, b), P2(g, a, b))
  <2>1. /\ root[g][DOUBLE] = new[g][DOUBLE]
        /\ V1(block, new, g, DOUBLE, a) = V1(block, root, g, DOUBLE, a)
    BY <1>8, <1>10
  <2>2. V2(block, new, g, a, b) = V2(block, root, g, a, b) BY <2>1 DEF V2
  <2>3. Owns(owner, n, V2(block, root, g, a, b), P2(g, a, b)) BY <1>10, <2>1 DEF Owner
  <2> QED BY <1>5, <2>2, <2>3
<1>11. \A b \in (n + 1)..MaxBlock : block[b] = Zeros BY <1>3 DEF Owner
<1>12. Owner(o, block, new, n + 1) BY <1>7, <1>9, <1>10, <1>11 DEF Owner
<1> QED BY <1>12 DEF o, new

\* Entry k of block b names block n.
Pointed(block, b, k, n) == [block EXCEPT ![b] = [block[b] EXCEPT ![k] = n]]

LEMMA PointedIs ==
  ASSUME NEW block \in Disk0, NEW b \in 0..MaxBlock, NEW k \in Sectors, NEW n
  PROVE  /\ \A c \in 0..MaxBlock : c # b => Pointed(block, b, k, n)[c] = block[c]
         /\ \A a \in Sectors : a # k => Pointed(block, b, k, n)[b][a] = block[b][a]
         /\ Pointed(block, b, k, n)[b][k] = n
<1>1. block[b] \in [Sectors -> Cell] BY DEF Disk0, Block
<1> DEFINE new == [block[b] EXCEPT ![k] = n]
<1>2. /\ \A a \in Sectors : a # k => new[a] = block[b][a]
      /\ new[k] = n
  BY <1>1
<1> HIDE DEF new
<1>3. /\ [block EXCEPT ![b] = new][b] = new
      /\ \A c \in 0..MaxBlock : c # b => [block EXCEPT ![b] = new][c] = block[c]
  BY DEF Disk0
<1> QED BY <1>2, <1>3 DEF Pointed, new

\* What the owners say of the blocks on the way.
OwnedWay(owner, block, root, n) ==
  /\ \A g \in Files : \A s \in 0..DOUBLE : root[g][s] # 0 =>
       root[g][s] \in 0..MaxBlock /\ root[g][s] < n /\ owner[root[g][s]] = P0(g, s)
  /\ \A g \in Files : \A s \in {SINGLE, DOUBLE} : \A a \in Sectors :
       root[g][s] # 0 /\ V1(block, root, g, s, a) # 0 =>
         /\ V1(block, root, g, s, a) \in 0..MaxBlock /\ V1(block, root, g, s, a) < n
         /\ owner[V1(block, root, g, s, a)] = P1(g, s, a)
  /\ \A g \in Files : \A a, b \in Sectors :
       root[g][DOUBLE] # 0 /\ V1(block, root, g, DOUBLE, a) # 0
       /\ V2(block, root, g, a, b) # 0 =>
         /\ V2(block, root, g, a, b) \in 0..MaxBlock /\ V2(block, root, g, a, b) < n
         /\ owner[V2(block, root, g, a, b)] = P2(g, a, b)
  /\ SINGLE \in 0..DOUBLE /\ DOUBLE \in 0..DOUBLE

LEMMA OwnerWay ==
  ASSUME NEW owner, NEW block, NEW root, NEW n \in 0..(MaxBlock + 1),
         Owner(owner, block, root, n)
  PROVE  OwnedWay(owner, block, root, n)
<1>1. \A b \in 1..(n - 1) : b \in 0..MaxBlock /\ b < n BY SizesAre
<1>2. SINGLE \in 0..DOUBLE /\ DOUBLE \in 0..DOUBLE BY IndicesAre
<1> QED BY <1>1, <1>2 DEF Owner, Owns, OwnedWay

\* A new block for an entry of a block that an index names.
LEMMA OwnerOne ==
  ASSUME NEW owner, NEW block \in Disk0, NEW root \in Roots, NEW n \in 1..MaxBlock,
         Owner(owner, block, root, n), NEW f \in Files, NEW r \in {SINGLE, DOUBLE},
         NEW k \in Sectors, root[f][r] # 0, block[root[f][r]][k] = 0
  PROVE  Owner(Settled(owner, n, P1(f, r, k)), Pointed(block, root[f][r], k, n), root, n + 1)
<1> DEFINE b0 == root[f][r]
           new == Pointed(block, b0, k, n)
           o == Settled(owner, n, P1(f, r, k))
<1>1. n \in 0..(MaxBlock + 1) /\ n \in Nat \ {0} /\ n \in 0..MaxBlock /\ n \in n..MaxBlock
      /\ (n + 1)..MaxBlock \subseteq n..MaxBlock
  BY SizesAre
<1>2. n \in 0..(MaxBlock + 1) BY <1>1
<1>3. OwnedWay(owner, block, root, n) BY <1>2, OwnerWay
<1>4. /\ \A g \in Files : \A s \in 0..DOUBLE : root[g][s] # 0 =>
           root[g][s] \in 0..MaxBlock /\ root[g][s] < n /\ owner[root[g][s]] = P0(g, s)
      /\ \A g \in Files : \A s \in {SINGLE, DOUBLE} : \A a \in Sectors :
           root[g][s] # 0 /\ V1(block, root, g, s, a) # 0 =>
             /\ V1(block, root, g, s, a) \in 0..MaxBlock /\ V1(block, root, g, s, a) < n
             /\ owner[V1(block, root, g, s, a)] = P1(g, s, a)
      /\ SINGLE \in 0..DOUBLE /\ DOUBLE \in 0..DOUBLE
  BY <1>3 DEF OwnedWay
<1>5. b0 \in 0..MaxBlock /\ b0 < n /\ owner[b0] = P0(f, r) BY <1>4
<1>6. /\ \A b, p : Owns(owner, n, b, p) => Owns(o, n + 1, b, p)
      /\ Owns(o, n + 1, n, P1(f, r, k)) /\ \A p : Owns(o, n + 1, 0, p)
  BY <1>1, SettledIs
<1>7. /\ \A c \in 0..MaxBlock : c # b0 => new[c] = block[c]
      /\ \A a \in Sectors : a # k => new[b0][a] = block[b0][a]
      /\ new[b0][k] = n
  BY <1>5, PointedIs
<1>8. \A a \in Sectors : new[n][a] = 0
  <2>1. block[n] = Zeros BY <1>1 DEF Owner
  <2>2. new[n] = block[n] BY <1>1, <1>5, <1>7
  <2> QED BY <2>1, <2>2 DEF Zeros
<1> HIDE DEF new, o
<1>9. ASSUME NEW g \in Files, NEW s \in 0..DOUBLE PROVE Owns(o, n + 1, root[g][s], P0(g, s))
  <2>1. Owns(owner, n, root[g][s], P0(g, s)) BY DEF Owner
  <2> QED BY <1>6, <2>1
<1>10. ASSUME NEW g \in Files, NEW s \in {SINGLE, DOUBLE}, NEW a \in Sectors, root[g][s] # 0
      PROVE  \/ V1(new, root, g, s, a) = V1(block, root, g, s, a)
             \/ V1(new, root, g, s, a) = n /\ g = f /\ s = r /\ a = k
  <2>1. root[g][s] \in 0..MaxBlock /\ owner[root[g][s]] = P0(g, s) BY <1>4, <1>10
  <2>2. CASE root[g][s] # b0 BY <1>7, <2>1, <2>2 DEF V1
  <2>3. CASE root[g][s] = b0
    <3>1. g = f /\ s = r BY <1>5, <2>1, <2>3, PlacesDiffer
    <3> QED BY <1>7, <3>1 DEF V1
  <2> QED BY <2>2, <2>3
<1>11. ASSUME NEW g \in Files, NEW s \in {SINGLE, DOUBLE}, NEW a \in Sectors, root[g][s] # 0
      PROVE  Owns(o, n + 1, V1(new, root, g, s, a), P1(g, s, a))
  <2>1. Owns(owner, n, V1(block, root, g, s, a), P1(g, s, a)) BY <1>11 DEF Owner
  <2> QED BY <1>6, <1>10, <1>11, <2>1
<1>12. ASSUME NEW g \in Files, NEW a \in Sectors, NEW b \in Sectors, root[g][DOUBLE] # 0,
              V1(new, root, g, DOUBLE, a) # 0
       PROVE  Owns(o, n + 1, V2(new, root, g, a, b), P2(g, a, b))
  <2> DEFINE c == V1(new, root, g, DOUBLE, a)
  <2>1. CASE c = n
    <3>1. V2(new, root, g, a, b) = 0 BY <1>8, <2>1 DEF V2
    <3> QED BY <1>6, <3>1
  <2>2. CASE c # n
    <3>1. c = V1(block, root, g, DOUBLE, a) BY <1>10, <1>12, <2>2
    <3>2. c \in 0..MaxBlock /\ owner[c] = P1(g, DOUBLE, a) BY <1>4, <1>12, <3>1
    <3>3. c # b0 BY <1>5, <3>2, PlacesDiffer
    <3>4. V2(new, root, g, a, b) = V2(block, root, g, a, b) BY <1>7, <3>1, <3>2, <3>3 DEF V2
    <3>5. Owns(owner, n, V2(block, root, g, a, b), P2(g, a, b)) BY <1>12, <3>1 DEF Owner
    <3> QED BY <1>6, <3>4, <3>5
  <2> QED BY <2>1, <2>2
<1>13. ASSUME NEW b \in (n + 1)..MaxBlock PROVE new[b] = Zeros
  <2>1. block[b] = Zeros BY <1>1 DEF Owner
  <2>2. b \in 0..MaxBlock /\ b # b0 BY <1>1, <1>5
  <2> QED BY <1>7, <2>1, <2>2
<1>14. Owner(o, new, root, n + 1) BY <1>9, <1>11, <1>12, <1>13 DEF Owner
<1> QED BY <1>14 DEF o, new

\* A new block for an entry one level further down.
LEMMA OwnerTwo ==
  ASSUME NEW owner, NEW block \in Disk0, NEW root \in Roots, NEW n \in 1..MaxBlock,
         Owner(owner, block, root, n), NEW f \in Files, NEW j \in Sectors, NEW k \in Sectors,
         root[f][DOUBLE] # 0, V1(block, root, f, DOUBLE, j) # 0, V2(block, root, f, j, k) = 0
  PROVE  Owner(Settled(owner, n, P2(f, j, k)),
               Pointed(block, V1(block, root, f, DOUBLE, j), k, n), root, n + 1)
<1> DEFINE b0 == V1(block, root, f, DOUBLE, j)
           new == Pointed(block, b0, k, n)
           o == Settled(owner, n, P2(f, j, k))
<1>1. n \in 0..(MaxBlock + 1) /\ n \in Nat \ {0} /\ n \in 0..MaxBlock /\ n \in n..MaxBlock
      /\ (n + 1)..MaxBlock \subseteq n..MaxBlock
  BY SizesAre
<1>2. n \in 0..(MaxBlock + 1) BY <1>1
<1>3. OwnedWay(owner, block, root, n) BY <1>2, OwnerWay
<1>4. /\ \A g \in Files : \A s \in 0..DOUBLE : root[g][s] # 0 =>
           root[g][s] \in 0..MaxBlock /\ root[g][s] < n /\ owner[root[g][s]] = P0(g, s)
      /\ \A g \in Files : \A s \in {SINGLE, DOUBLE} : \A a \in Sectors :
           root[g][s] # 0 /\ V1(block, root, g, s, a) # 0 =>
             /\ V1(block, root, g, s, a) \in 0..MaxBlock /\ V1(block, root, g, s, a) < n
             /\ owner[V1(block, root, g, s, a)] = P1(g, s, a)
      /\ SINGLE \in 0..DOUBLE /\ DOUBLE \in 0..DOUBLE
  BY <1>3 DEF OwnedWay
<1>5. b0 \in 0..MaxBlock /\ b0 < n /\ owner[b0] = P1(f, DOUBLE, j) BY <1>4
<1>6. /\ \A b, p : Owns(owner, n, b, p) => Owns(o, n + 1, b, p)
      /\ Owns(o, n + 1, n, P2(f, j, k)) /\ \A p : Owns(o, n + 1, 0, p)
  BY <1>1, SettledIs
<1>7. /\ \A c \in 0..MaxBlock : c # b0 => new[c] = block[c]
      /\ \A a \in Sectors : a # k => new[b0][a] = block[b0][a]
      /\ new[b0][k] = n
  BY <1>5, PointedIs
<1> HIDE DEF new, o, b0
<1>8. ASSUME NEW g \in Files, NEW s \in 0..DOUBLE PROVE Owns(o, n + 1, root[g][s], P0(g, s))
  <2>1. Owns(owner, n, root[g][s], P0(g, s)) BY DEF Owner
  <2> QED BY <1>6, <2>1
<1>9. ASSUME NEW g \in Files, NEW s \in {SINGLE, DOUBLE}, NEW a \in Sectors, root[g][s] # 0
      PROVE  V1(new, root, g, s, a) = V1(block, root, g, s, a)
  <2>1. root[g][s] \in 0..MaxBlock /\ owner[root[g][s]] = P0(g, s) BY <1>4, <1>9
  <2>2. root[g][s] # b0 BY <1>5, <2>1, PlacesDiffer
  <2> QED BY <1>7, <2>1, <2>2 DEF V1
<1>10. ASSUME NEW g \in Files, NEW s \in {SINGLE, DOUBLE}, NEW a \in Sectors, root[g][s] # 0
      PROVE  Owns(o, n + 1, V1(new, root, g, s, a), P1(g, s, a))
  <2>1. Owns(owner, n, V1(block, root, g, s, a), P1(g, s, a)) BY <1>10 DEF Owner
  <2> QED BY <1>6, <1>9, <1>10, <2>1
<1>11. ASSUME NEW g \in Files, NEW a \in Sectors, NEW b \in Sectors, root[g][DOUBLE] # 0,
              V1(new, root, g, DOUBLE, a) # 0
       PROVE  Owns(o, n + 1, V2(new, root, g, a, b), P2(g, a, b))
  <2> DEFINE c == V1(block, root, g, DOUBLE, a)
  <2>1. c = V1(new, root, g, DOUBLE, a) BY <1>9, <1>11
  <2>2. c \in 0..MaxBlock /\ owner[c] = P1(g, DOUBLE, a) BY <1>4, <1>11, <2>1
  <2>3. CASE c # b0
    <3>1. V2(new, root, g, a, b) = V2(block, root, g, a, b) BY <1>7, <2>1, <2>2, <2>3 DEF V2
    <3>2. Owns(owner, n, V2(block, root, g, a, b), P2(g, a, b)) BY <1>11, <2>1 DEF Owner
    <3> QED BY <1>6, <3>1, <3>2
  <2>4. CASE c = b0
    <3>1. g = f /\ a = j BY <1>5, <2>2, <2>4, PlacesDiffer
    <3>2. V2(block, root, g, a, b) = block[b0][b] BY <3>1 DEF V2, b0
    <3>3. V2(new, root, g, a, b) = new[b0][b] BY <2>1, <2>4 DEF V2
    <3>4. Owns(owner, n, V2(block, root, g, a, b), P2(g, a, b)) BY <1>11, <2>1 DEF Owner
    <3> QED BY <1>6, <1>7, <3>1, <3>2, <3>3, <3>4
  <2> QED BY <2>3, <2>4
<1>12. ASSUME NEW b \in (n + 1)..MaxBlock PROVE new[b] = Zeros
  <2>1. block[b] = Zeros BY <1>1 DEF Owner
  <2>2. b \in 0..MaxBlock /\ b # b0 BY <1>1, <1>5
  <2> QED BY <1>7, <2>1, <2>2
<1>13. Owner(o, new, root, n + 1) BY <1>8, <1>10, <1>11, <1>12 DEF Owner
<1> QED BY <1>13 DEF o, new, b0

\* Places of data: no pointers are read from the blocks they name.
IsLeaf(place) ==
  \/ \E f \in Files : \E r \in 0..(SINGLE - 1) : place = P0(f, r)
  \/ \E f \in Files : \E a \in Sectors : place = P1(f, SINGLE, a)
  \/ \E f \in Files : \E a, b \in Sectors : place = P2(f, a, b)

LEMMA LeafIs ==
  ASSUME NEW place, IsLeaf(place)
  PROVE  /\ \A g \in Files : \A s \in {SINGLE, DOUBLE} : place # P0(g, s)
         /\ \A g \in Files : \A a \in Sectors : place # P1(g, DOUBLE, a)
<1>1. SINGLE # DOUBLE /\ \A r \in 0..(SINGLE - 1) : r # SINGLE /\ r # DOUBLE BY IndicesAre
<1>2. ASSUME NEW g \in Files, NEW s \in {SINGLE, DOUBLE} PROVE place # P0(g, s)
  <2>1. \A r \in 0..(SINGLE - 1) : \A f \in Files : P0(f, r) # P0(g, s)
    BY <1>1, PlacesDiffer
  <2>2. \A f, a, b : P1(f, SINGLE, a) # P0(g, s) /\ P2(f, a, b) # P0(g, s) BY PlacesDiffer
  <2> QED BY <2>1, <2>2 DEF IsLeaf
<1>3. ASSUME NEW g \in Files, NEW a \in Sectors PROVE place # P1(g, DOUBLE, a)
  BY <1>1, PlacesDiffer DEF IsLeaf
<1> QED BY <1>2, <1>3

LEMMA OwnerData ==
  ASSUME NEW owner, NEW block \in Disk0, NEW root \in Roots, NEW n \in 0..(MaxBlock + 1),
         Owner(owner, block, root, n), NEW b0 \in 1..(n - 1), IsLeaf(owner[b0]), NEW data
  PROVE  Owner(owner, [block EXCEPT ![b0] = data], root, n)
<1> DEFINE new == [block EXCEPT ![b0] = data]
<1>1. OwnedWay(owner, block, root, n) BY OwnerWay
<1>2. /\ \A g \in Files : \A s \in 0..DOUBLE : root[g][s] # 0 =>
           root[g][s] \in 0..MaxBlock /\ root[g][s] < n /\ owner[root[g][s]] = P0(g, s)
      /\ \A g \in Files : \A s \in {SINGLE, DOUBLE} : \A a \in Sectors :
           root[g][s] # 0 /\ V1(block, root, g, s, a) # 0 =>
             /\ V1(block, root, g, s, a) \in 0..MaxBlock /\ V1(block, root, g, s, a) < n
             /\ owner[V1(block, root, g, s, a)] = P1(g, s, a)
      /\ SINGLE \in 0..DOUBLE /\ DOUBLE \in 0..DOUBLE
  BY <1>1 DEF OwnedWay
<1>3. \A c \in 0..MaxBlock : c # b0 => new[c] = block[c] BY DEF Disk0
<1> HIDE DEF new
<1>4. \A g \in Files : \A s \in {SINGLE, DOUBLE} : owner[b0] # P0(g, s) BY LeafIs
<1>5. \A g \in Files : \A a \in Sectors : owner[b0] # P1(g, DOUBLE, a) BY LeafIs
<1>6. ASSUME NEW g \in Files, NEW s \in {SINGLE, DOUBLE}, NEW a \in Sectors, root[g][s] # 0
      PROVE  V1(new, root, g, s, a) = V1(block, root, g, s, a)
  <2>1. root[g][s] \in 0..MaxBlock /\ root[g][s] # b0 BY <1>2, <1>4, <1>6
  <2> QED BY <1>3, <2>1 DEF V1
<1>7. ASSUME NEW g \in Files, NEW s \in {SINGLE, DOUBLE}, NEW a \in Sectors, root[g][s] # 0
      PROVE  Owns(owner, n, V1(new, root, g, s, a), P1(g, s, a))
  BY <1>6, <1>7 DEF Owner
<1>8. ASSUME NEW g \in Files, NEW a \in Sectors, NEW b \in Sectors, root[g][DOUBLE] # 0,
              V1(new, root, g, DOUBLE, a) # 0
       PROVE  Owns(owner, n, V2(new, root, g, a, b), P2(g, a, b))
  <2> DEFINE c == V1(block, root, g, DOUBLE, a)
  <2>1. c = V1(new, root, g, DOUBLE, a) BY <1>6, <1>8
  <2>2. c \in 0..MaxBlock /\ c # b0 BY <1>2, <1>5, <1>8, <2>1
  <2>3. V2(new, root, g, a, b) = V2(block, root, g, a, b) BY <1>3, <2>1, <2>2 DEF V2
  <2> QED BY <1>8, <2>1, <2>3 DEF Owner
<1>9. ASSUME NEW b \in n..MaxBlock PROVE new[b] = Zeros
  <2>1. block[b] = Zeros BY DEF Owner
  <2>2. b \in 0..MaxBlock /\ b # b0 BY SizesAre
  <2> QED BY <1>3, <2>1, <2>2
<1>10. \A g \in Files : \A s \in 0..DOUBLE : Owns(owner, n, root[g][s], P0(g, s)) BY DEF Owner
<1>11. Owner(owner, new, root, n) BY <1>7, <1>8, <1>9, <1>10 DEF Owner
<1> QED BY <1>11 DEF new

-----------------------------------------------------------------------------
(* A write keeps the owners, at every cut of its log.                      *)

RootsOf(I) == [g \in Files |-> I[g].blocks]
RootsWith(I, f, blocks) == [g \in Files |-> IF g = f THEN blocks ELSE I[g].blocks]

OwnedDisk(d) ==
  /\ d \in Disk /\ d.n_blocks >= 1
  /\ \E owner : Owner(owner, d.block, RootsOf(d.inode), d.n_blocks)

\* w is a write to f under way, on a disk that has the inodes I until it ends.
Fine(w, f, I) ==
  /\ w \in States(OnDisk) /\ w.n_blocks >= 1 /\ w.disk.n_blocks = w.n_blocks
  /\ w.disk.inode = I
  /\ \A r \in 0..DOUBLE : I[f].blocks[r] \in {0, w.blocks[r]}
  /\ \E owner : Owner(owner, w.disk.block, RootsWith(I, f, w.blocks), w.n_blocks)

\* Block b holds block n of file f: the pointers on the way to it are there.
Names(block, root, f, n, b) ==
  /\ b # 0
  /\ \/ Path(n) = <<>> /\ Root(n) \in 0..(SINGLE - 1) /\ b = root[f][Root(n)]
     \/ \E a \in Sectors : /\ Path(n) = <<a>> /\ Root(n) = SINGLE
                           /\ root[f][SINGLE] # 0 /\ b = V1(block, root, f, SINGLE, a)
     \/ \E a, c \in Sectors : /\ Path(n) = <<a, c>> /\ Root(n) = DOUBLE
                              /\ root[f][DOUBLE] # 0 /\ V1(block, root, f, DOUBLE, a) # 0
                              /\ b = V2(block, root, f, a, c)
Led(block, root, f, n) == \E b : Names(block, root, f, n, b)

\* What held a block of a file holds it, and its words are as they were, but
\* for those of f that are now what q, the blocks under way, has for them.
Kept(block, root, new, rooted, f, q) ==
  \A g \in Files : \A n \in Nat : \A b : Names(block, root, g, n, b) =>
    /\ Names(new, rooted, g, n, b)
    /\ \A s \in Sectors : \/ new[b][s] = block[b][s]
                          \/ g = f /\ n \in DOMAIN q /\ new[b][s] = q[n][s]
Grown(w, v, f, I, q) ==
  Kept(w.disk.block, RootsWith(I, f, w.blocks), v.disk.block, RootsWith(I, f, v.blocks), f, q)

\* A disk that a power failure leaves: its blocks have owners and none is lost.
Held(d, f, q) ==
  /\ OwnedDisk(d) /\ d.inode = disk.inode
  /\ Kept(disk.block, RootsOf(disk.inode), d.block, RootsOf(disk.inode), f, q)

\* Every disk that a power failure leaves of w is such a disk.
TornFine(d, e, f, q) ==
  e.part = "block" => \A t \in Sectors : Held(Torn(d, e.at, e.data, t), f, q)
Logged(w, f, q) ==
  \E g : /\ Disks(g, w.log) /\ g[Len(w.log)] = w.disk
         /\ \A k \in 0..Len(w.log) : Held(g[k], f, q)
         /\ \A k \in 1..Len(w.log) : TornFine(g[k - 1], w.log[k], f, q)

Keeps(w, v, f, I, q) ==
  Fine(v, f, I) /\ Grown(w, v, f, I, q) /\ (Logged(w, f, q) => Logged(v, f, q))

Place(f, n) == [file |-> f, root |-> Root(n), path |-> Path(n)]

\* The owner of a block that holds data is the place of that data.
LEMMA NamesOwned ==
  ASSUME NEW owner, NEW block, NEW root, NEW n, Owner(owner, block, root, n),
         NEW f \in Files, NEW m, NEW b, Names(block, root, f, m, b)
  PROVE  /\ b \in 1..(n - 1) /\ owner[b] = Place(f, m) /\ IsLeaf(owner[b])
         /\ Root(m) \in 0..DOUBLE /\ root[f][Root(m)] # 0
<1>1. /\ SINGLE \in 0..DOUBLE /\ DOUBLE \in 0..DOUBLE /\ 0..(SINGLE - 1) \subseteq 0..DOUBLE
  BY IndicesAre
<1>2. b # 0 BY DEF Names
<1>3. CASE Path(m) = <<>> /\ Root(m) \in 0..(SINGLE - 1) /\ b = root[f][Root(m)]
  <2>1. Owns(owner, n, b, P0(f, Root(m))) BY <1>1, <1>3 DEF Owner
  <2>2. Place(f, m) = P0(f, Root(m)) BY <1>3 DEF Place, P0
  <2> QED BY <1>1, <1>2, <1>3, <2>1, <2>2 DEF Owns, IsLeaf
<1>4. ASSUME NEW a \in Sectors, Path(m) = <<a>>, Root(m) = SINGLE, root[f][SINGLE] # 0,
             b = V1(block, root, f, SINGLE, a)
      PROVE  /\ b \in 1..(n - 1) /\ owner[b] = Place(f, m) /\ IsLeaf(owner[b])
             /\ Root(m) \in 0..DOUBLE /\ root[f][Root(m)] # 0
  <2>1. Owns(owner, n, b, P1(f, SINGLE, a)) BY <1>4 DEF Owner
  <2>2. Place(f, m) = P1(f, SINGLE, a) BY <1>4 DEF Place, P1
  <2> QED BY <1>1, <1>2, <1>4, <2>1, <2>2 DEF Owns, IsLeaf
<1>5. ASSUME NEW a \in Sectors, NEW c \in Sectors, Path(m) = <<a, c>>, Root(m) = DOUBLE,
             root[f][DOUBLE] # 0, V1(block, root, f, DOUBLE, a) # 0,
             b = V2(block, root, f, a, c)
      PROVE  /\ b \in 1..(n - 1) /\ owner[b] = Place(f, m) /\ IsLeaf(owner[b])
             /\ Root(m) \in 0..DOUBLE /\ root[f][Root(m)] # 0
  <2>1. Owns(owner, n, b, P2(f, a, c)) BY <1>5 DEF Owner
  <2>2. Place(f, m) = P2(f, a, c) BY <1>5 DEF Place, P2
  <2> QED BY <1>1, <1>2, <1>5, <2>1, <2>2 DEF Owns, IsLeaf
<1> QED BY <1>3, <1>4, <1>5 DEF Names

\* Two blocks of files that a write reaches have two places.
LEMMA PathsDiffer ==
  ASSUME NEW f, NEW g, NEW m \in Nat, NEW n \in Nat, Root(m) # TRIPLE_INDIRECT_INDEX,
         Place(f, m) = Place(g, n)
  PROVE  f = g /\ m = n
<1> DEFINE B == BLOCK_SIZE
           N == NUM_DIRECT_BLOCKS
           In(k) == k - N - B
<1>1. B \in Nat \ {0} /\ N \in Nat \ {0} /\ B * B \in Nat
  <2>1. B \in Nat \ {0} /\ N \in Nat \ {0} BY SizesAre
  <2> QED BY <2>1, SMTT(30)
<1>2. /\ SINGLE_INDIRECT_INDEX = N /\ DOUBLE_INDIRECT_INDEX = N + 1
      /\ TRIPLE_INDIRECT_INDEX = N + 2
  BY DEF SINGLE_INDIRECT_INDEX, DOUBLE_INDIRECT_INDEX, TRIPLE_INDIRECT_INDEX
<1>3. ASSUME NEW k \in Nat, Root(k) # TRIPLE_INDIRECT_INDEX
      PROVE  \/ k < N /\ Root(k) = k
             \/ Root(k) = N /\ Path(k) = <<k - N>>
             \/ Root(k) = N + 1 /\ Path(k) = <<In(k) \div B, In(k) % B>> /\ In(k) \in Nat
  <2>1. InSingle(k) = k - N /\ InDouble(k) = In(k) BY DEF InSingle, InDouble
  <2>2. CASE k < N BY <1>1, <2>1, <2>2 DEF Root
  <2>3. CASE ~(k < N) /\ In(k) < 0
    <3>1. Root(k) = N BY <1>1, <1>2, <2>1, <2>3 DEF Root
    <3>2. Path(k) = <<k - N>> BY <1>1, <1>2, <2>1, <3>1 DEF Path
    <3> QED BY <3>1, <3>2
  <2>4. CASE ~(k < N) /\ ~(In(k) < 0)
    <3>1. Root(k) = N + 1 /\ In(k) \in Nat BY <1>1, <1>2, <1>3, <2>1, <2>4 DEF Root
    <3>2. Path(k) = <<In(k) \div B, In(k) % B>> BY <1>1, <1>2, <2>1, <3>1 DEF Path
    <3> QED BY <3>1, <3>2
  <2> QED BY <2>2, <2>3, <2>4
<1>4. f = g /\ Root(m) = Root(n) /\ Path(m) = Path(n) BY DEF Place
<1>5. Root(n) # TRIPLE_INDIRECT_INDEX BY <1>4
<1>6. /\ \/ m < N /\ Root(m) = m
         \/ Root(m) = N /\ Path(m) = <<m - N>>
         \/ Root(m) = N + 1 /\ Path(m) = <<In(m) \div B, In(m) % B>> /\ In(m) \in Nat
      /\ \/ n < N /\ Root(n) = n
         \/ Root(n) = N /\ Path(n) = <<n - N>>
         \/ Root(n) = N + 1 /\ Path(n) = <<In(n) \div B, In(n) % B>> /\ In(n) \in Nat
  BY <1>3, <1>5
<1> DEFINE i == In(m)
           j == In(n)
<1>7. i = m - N - B /\ j = n - N - B OBVIOUS
<1> HIDE DEF N, B, In, i, j
<1>8. CASE m < N /\ Root(m) = m BY <1>1, <1>4, <1>6, <1>8
<1>9. CASE Root(m) = N /\ Path(m) = <<m - N>>
  <2>1. Path(n) = <<n - N>> BY <1>1, <1>4, <1>6, <1>9
  <2>2. <<m - N>> = <<n - N>> BY <1>4, <1>9, <2>1
  <2>3. <<m - N>>[1] = m - N /\ <<n - N>>[1] = n - N OBVIOUS
  <2>4. m - N = n - N BY <2>2, <2>3
  <2> QED BY <1>1, <1>4, <2>4
<1>10. CASE Root(m) = N + 1 /\ Path(m) = <<In(m) \div B, In(m) % B>> /\ In(m) \in Nat
  <2> DEFINE x == <<i \div B, i % B>>
             y == <<j \div B, j % B>>
  <2>1. Path(n) = y /\ j \in Nat BY <1>1, <1>4, <1>6, <1>10 DEF j
  <2>2. Path(m) = x /\ i \in Nat BY <1>10 DEF i
  <2>3. x[1] = i \div B /\ x[2] = i % B /\ y[1] = j \div B /\ y[2] = j % B OBVIOUS
  <2> HIDE DEF x, y
  <2>4. x = y BY <1>4, <2>1, <2>2
  <2>5. i \div B = j \div B /\ i % B = j % B BY <2>3, <2>4
  <2>6. i = B * (i \div B) + (i % B) /\ j = B * (j \div B) + (j % B)
    BY <1>1, <2>1, <2>2, Division
  <2>7. i = j BY <2>5, <2>6
  <2> QED BY <1>1, <1>4, <1>7, <2>7
<1> QED BY <1>6, <1>8, <1>9, <1>10

LEMMA KeptOn ==
  ASSUME NEW block, NEW root, NEW new, NEW rooted, NEW next, NEW roots, NEW f, NEW q,
         Kept(block, root, new, rooted, f, q), Kept(new, rooted, next, roots, f, q)
  PROVE  Kept(block, root, next, roots, f, q)
BY DEF Kept

\* Only the index of its root tells what block a block of a file is.
LEMMA NamesRoot ==
  ASSUME NEW block, NEW root, NEW old, NEW f, NEW n, NEW b, old[f][Root(n)] = root[f][Root(n)]
  PROVE  Names(block, old, f, n, b) <=> Names(block, root, f, n, b)
<1>1. Root(n) = SINGLE => \A a \in Sectors :
        V1(block, old, f, SINGLE, a) = V1(block, root, f, SINGLE, a)
  BY DEF V1
<1>2. Root(n) = DOUBLE => \A a, c \in Sectors :
        /\ V1(block, old, f, DOUBLE, a) = V1(block, root, f, DOUBLE, a)
        /\ V2(block, old, f, a, c) = V2(block, root, f, a, c)
  BY DEF V1, V2
<1> QED BY <1>1, <1>2 DEF Names

\* Words that stay where the pointers are, and in the blocks that hold data.
LEMMA NamesStay ==
  ASSUME NEW owner, NEW block, NEW root, NEW n \in 0..(MaxBlock + 1),
         Owner(owner, block, root, n), NEW new, NEW rooted,
         \A f \in Files : \A r \in 0..DOUBLE : root[f][r] # 0 => rooted[f][r] = root[f][r],
         \A b \in 0..MaxBlock : ~IsLeaf(owner[b]) =>
           \A s \in Sectors : block[b][s] # 0 => new[b][s] = block[b][s],
         NEW f \in Files, NEW m, NEW b, Names(block, root, f, m, b)
  PROVE  Names(new, rooted, f, m, b)
<1>1. OwnedWay(owner, block, root, n) BY OwnerWay
<1>2. SINGLE \in 0..DOUBLE /\ DOUBLE \in 0..DOUBLE /\ 0..(SINGLE - 1) \subseteq 0..DOUBLE
  BY IndicesAre
<1>3. b # 0 BY DEF Names
<1>4. ASSUME NEW r \in {SINGLE, DOUBLE}, NEW a \in Sectors, root[f][r] # 0,
             V1(block, root, f, r, a) # 0
      PROVE  rooted[f][r] # 0 /\ V1(new, rooted, f, r, a) = V1(block, root, f, r, a)
  <2>1. root[f][r] \in 0..MaxBlock /\ rooted[f][r] = root[f][r] /\ owner[root[f][r]] = P0(f, r)
    BY <1>1, <1>2, <1>4 DEF OwnedWay
  <2>2. ~IsLeaf(owner[root[f][r]]) BY <2>1, LeafIs
  <2> QED BY <1>4, <2>1, <2>2 DEF V1
<1>5. CASE Path(m) = <<>> /\ Root(m) \in 0..(SINGLE - 1) /\ b = root[f][Root(m)]
  BY <1>2, <1>3, <1>5 DEF Names
<1>6. ASSUME NEW a \in Sectors, Path(m) = <<a>> /\ Root(m) = SINGLE,
             root[f][SINGLE] # 0 /\ b = V1(block, root, f, SINGLE, a)
      PROVE  Names(new, rooted, f, m, b)
  <2>1. rooted[f][SINGLE] # 0 /\ b = V1(new, rooted, f, SINGLE, a) BY <1>3, <1>4, <1>6
  <2> QED BY <1>3, <1>6, <2>1 DEF Names
<1>7. ASSUME NEW a \in Sectors, NEW c \in Sectors, Path(m) = <<a, c>> /\ Root(m) = DOUBLE,
             root[f][DOUBLE] # 0 /\ V1(block, root, f, DOUBLE, a) # 0,
             b = V2(block, root, f, a, c)
      PROVE  Names(new, rooted, f, m, b)
  <2> DEFINE e == V1(block, root, f, DOUBLE, a)
  <2>1. rooted[f][DOUBLE] # 0 /\ V1(new, rooted, f, DOUBLE, a) = e BY <1>4, <1>7
  <2>2. e \in 0..MaxBlock /\ owner[e] = P1(f, DOUBLE, a) BY <1>1, <1>7 DEF OwnedWay
  <2>3. e # 0 BY <1>7
  <2>4. b = block[e][c] /\ V2(new, rooted, f, a, c) = new[e][c] BY <1>7, <2>1 DEF V2
  <2> HIDE DEF e
  <2>5. ~IsLeaf(owner[e]) BY <2>2, LeafIs
  <2>6. b = V2(new, rooted, f, a, c) BY <1>3, <2>2, <2>4, <2>5
  <2> QED BY <1>3, <1>7, <2>1, <2>3, <2>6 DEF Names
<1> QED BY <1>5, <1>6, <1>7 DEF Names

\* Where only zeros are written over, and no data, nothing is lost.
LEMMA KeptWords ==
  ASSUME NEW owner, NEW block, NEW root, NEW n \in 0..(MaxBlock + 1),
         Owner(owner, block, root, n), NEW new, NEW rooted, NEW f, NEW q,
         \A g \in Files : \A r \in 0..DOUBLE : root[g][r] # 0 => rooted[g][r] = root[g][r],
         \A b \in 0..MaxBlock : \A s \in Sectors : block[b][s] # 0 => new[b][s] = block[b][s],
         \A b \in 0..MaxBlock : IsLeaf(owner[b]) => new[b] = block[b]
  PROVE  Kept(block, root, new, rooted, f, q)
<1> SUFFICES ASSUME NEW g \in Files, NEW m \in Nat, NEW b, Names(block, root, g, m, b)
             PROVE  Names(new, rooted, g, m, b) /\ new[b] = block[b]
  BY DEF Kept
<1>1. b \in 1..(n - 1) /\ IsLeaf(owner[b]) BY NamesOwned
<1>2. b \in 0..MaxBlock BY <1>1, SizesAre
<1>3. Names(new, rooted, g, m, b) BY NamesStay
<1> QED BY <1>1, <1>2, <1>3

\* Data is written where no pointers are read.
LEMMA KeptData ==
  ASSUME NEW owner, NEW block \in Disk0, NEW root \in Roots, NEW n \in 0..(MaxBlock + 1),
         Owner(owner, block, root, n), NEW f \in Files, NEW m \in Nat, NEW b0,
         Names(block, root, f, m, b0), NEW q, m \in DOMAIN q, NEW data,
         \A s \in Sectors : data[s] = block[b0][s] \/ data[s] = q[m][s]
  PROVE  Kept(block, root, [block EXCEPT ![b0] = data], root, f, q)
<1> DEFINE new == [block EXCEPT ![b0] = data]
<1>1. b0 \in 1..(n - 1) /\ IsLeaf(owner[b0]) /\ owner[b0] = Place(f, m) BY NamesOwned
<1>2. b0 \in 0..MaxBlock BY <1>1, SizesAre
<1>3. new[b0] = data /\ \A c \in 0..MaxBlock : c # b0 => new[c] = block[c] BY <1>2 DEF Disk0
<1> HIDE DEF new
<1>4. Root(m) # TRIPLE_INDIRECT_INDEX
  <2>1. Root(m) \in 0..DOUBLE BY NamesOwned
  <2> QED BY <2>1, IndicesAre
<1>5. ASSUME NEW g \in Files, NEW k \in Nat, NEW b, Names(block, root, g, k, b)
      PROVE  /\ Names(new, root, g, k, b)
             /\ \A s \in Sectors : \/ new[b][s] = block[b][s]
                                   \/ g = f /\ k \in DOMAIN q /\ new[b][s] = q[k][s]
  <2>1. \A c \in 0..MaxBlock : ~IsLeaf(owner[c]) => new[c] = block[c] BY <1>1, <1>3
  <2>2. Names(new, root, g, k, b) BY <1>5, <2>1, NamesStay
  <2>3. b \in 1..(n - 1) /\ owner[b] = Place(g, k) BY <1>5, NamesOwned
  <2>4. b \in 0..MaxBlock BY <2>3, SizesAre
  <2>5. CASE b # b0 BY <1>3, <2>2, <2>4, <2>5
  <2>6. CASE b = b0
    <3>1. f = g /\ m = k BY <1>1, <1>4, <2>3, <2>6, PathsDiffer
    <3> QED BY <1>3, <2>2, <2>6, <3>1
  <2> QED BY <2>5, <2>6
<1>6. Kept(block, root, new, root, f, q) BY <1>5 DEF Kept
<1> QED BY <1>6 DEF new

\* The same with fewer indices of the inodes.
LEMMA KeptLess ==
  ASSUME NEW block, NEW root, NEW new, NEW rooted, NEW f, NEW q,
         Kept(block, root, new, rooted, f, q), NEW old,
         \A g \in Files : \A r \in 0..DOUBLE :
           old[g][r] # 0 => root[g][r] = old[g][r] /\ rooted[g][r] = old[g][r]
  PROVE  Kept(block, old, new, old, f, q)
<1>1. SINGLE \in 0..DOUBLE /\ DOUBLE \in 0..DOUBLE /\ 0..(SINGLE - 1) \subseteq 0..DOUBLE
  BY IndicesAre
<1> SUFFICES ASSUME NEW g \in Files, NEW n \in Nat, NEW b, Names(block, old, g, n, b)
             PROVE  /\ Names(new, old, g, n, b)
                    /\ \A s \in Sectors : \/ new[b][s] = block[b][s]
                                          \/ g = f /\ n \in DOMAIN q /\ new[b][s] = q[n][s]
  BY DEF Kept
<1>2. Root(n) \in 0..DOUBLE /\ old[g][Root(n)] # 0 BY <1>1 DEF Names
<1>3. old[g][Root(n)] = root[g][Root(n)] /\ old[g][Root(n)] = rooted[g][Root(n)] BY <1>2
<1>4. Names(block, root, g, n, b) BY <1>3, NamesRoot
<1>5. /\ Names(new, rooted, g, n, b)
      /\ \A s \in Sectors : \/ new[b][s] = block[b][s]
                            \/ g = f /\ n \in DOMAIN q /\ new[b][s] = q[n][s]
  BY <1>4 DEF Kept
<1>6. Names(new, old, g, n, b) BY <1>3, <1>5, NamesRoot
<1> QED BY <1>5, <1>6

\* A disk whose inodes have fewer indices than the write has.
LEMMA DiskOwned ==
  ASSUME NEW f \in Files, NEW I, NEW w, Fine(w, f, I), w.n_blocks \in Nat, NEW d \in Disk,
         d.inode = I, d.n_blocks = w.n_blocks,
         \E owner : Owner(owner, d.block, RootsWith(I, f, w.blocks), w.n_blocks)
  PROVE  OwnedDisk(d)
<1>1. PICK owner : Owner(owner, d.block, RootsWith(I, f, w.blocks), w.n_blocks) OBVIOUS
<1>2. \A g \in Files : \A r \in 0..DOUBLE :
        RootsOf(I)[g][r] = 0 \/ RootsOf(I)[g][r] = RootsWith(I, f, w.blocks)[g][r]
  BY DEF RootsOf, RootsWith, Fine
<1>3. Owner(owner, d.block, RootsOf(I), w.n_blocks) BY <1>1, <1>2, OwnerLess
<1>4. d.n_blocks >= 1 BY DEF Fine
<1> QED BY <1>3, <1>4 DEF OwnedDisk

LEMMA FineIs ==
  ASSUME NEW f \in Files, NEW I, NEW w, Fine(w, f, I)
  PROVE  /\ w.blocks \in [0..TRIPLE_INDIRECT_INDEX -> 0..MaxBlock]
         /\ RootsWith(I, f, w.blocks) \in Roots /\ RootsWith(I, f, w.blocks)[f] = w.blocks
         /\ w.n_blocks \in 1..(MaxBlock + 1) /\ w.n_blocks = w.disk.n_blocks
         /\ w.disk \in Disk /\ w.disk.block \in Disk0 /\ w.disk.inode = I
         /\ I \in [Files -> Inode] /\ OnDisk \in Counts /\ w \in States(OnDisk)
         /\ OwnedDisk(w.disk)
<1>1. OnDisk \in Counts /\ w \in States(OnDisk) BY DEF Counts, Fine
<1>2. /\ w.blocks \in [0..TRIPLE_INDIRECT_INDEX -> 0..MaxBlock]
      /\ w.disk \in Disk /\ w.n_blocks \in OnDisk
  BY <1>1, StateIs, OnDiskIs
<1>3. w.n_blocks \in 1..(MaxBlock + 1) BY <1>2, SizesAre DEF OnDisk, Fine
<1>4. w.disk.inode = I /\ w.disk.n_blocks = w.n_blocks BY DEF Fine
<1>5. I \in [Files -> Inode] /\ w.disk.block \in Disk0 BY <1>2, <1>4 DEF Disk, Disk0
<1>6. RootsWith(I, f, w.blocks) \in Roots /\ RootsWith(I, f, w.blocks)[f] = w.blocks
  BY <1>2, <1>5 DEF RootsWith, Roots, Inode
<1>7. OwnedDisk(w.disk)
  <2>1. \E owner : Owner(owner, w.disk.block, RootsWith(I, f, w.blocks), w.n_blocks) BY DEF Fine
  <2>2. w.n_blocks \in Nat BY <1>3
  <2> QED BY <1>2, <1>4, <2>1, <2>2, DiskOwned
<1> QED BY <1>1, <1>2, <1>3, <1>4, <1>5, <1>6, <1>7

\* A disk that keeps what the write's disk has keeps what the disk had.
Safe(d, w, I, f, q) ==
  /\ OwnedDisk(d) /\ d.inode = I
  /\ Kept(w.disk.block, RootsOf(I), d.block, RootsOf(I), f, q)

LEMMA HeldOn ==
  ASSUME NEW f \in Files, NEW I, NEW q, NEW w, Fine(w, f, I), Logged(w, f, q),
         NEW d, Safe(d, w, I, f, q)
  PROVE  Held(d, f, q)
<1>1. Held(w.disk, f, q)
  <2>1. Len(w.log) \in Nat
    <3>1. w.log \in Seq(EntriesAt(OnDisk)) BY FineIs, StateIs
    <3> QED BY <3>1, LenProperties
  <2>2. Len(w.log) \in 0..Len(w.log) BY <2>1
  <2> QED BY <2>2 DEF Logged
<1>2. w.disk.inode = I BY DEF Fine
<1>3. disk.inode = I BY <1>1, <1>2 DEF Held
<1>4. Kept(disk.block, RootsOf(I), d.block, RootsOf(I), f, q)
  BY <1>1, <1>2, <1>3, KeptOn DEF Held, Safe
<1> QED BY <1>3, <1>4 DEF Held, Safe

\* The pointers that the inodes on the disk lead to stay when a write's do.
LEMMA KeptOld ==
  ASSUME NEW f \in Files, NEW I, NEW q, NEW w, Fine(w, f, I), NEW new, NEW blocks,
         \A r \in 0..DOUBLE : I[f].blocks[r] \in {0, blocks[r]},
         Kept(w.disk.block, RootsWith(I, f, w.blocks), new, RootsWith(I, f, blocks), f, q)
  PROVE  Kept(w.disk.block, RootsOf(I), new, RootsOf(I), f, q)
<1>1. \A r \in 0..DOUBLE : I[f].blocks[r] \in {0, w.blocks[r]} BY DEF Fine
<1>2. \A g \in Files : \A r \in 0..DOUBLE : RootsOf(I)[g][r] # 0 =>
        /\ RootsWith(I, f, w.blocks)[g][r] = RootsOf(I)[g][r]
        /\ RootsWith(I, f, blocks)[g][r] = RootsOf(I)[g][r]
  BY <1>1 DEF RootsOf, RootsWith
<1> QED BY <1>2, KeptLess

\* One more entry of the log.
LEMMA LogMore ==
  ASSUME NEW f, NEW q, NEW w \in States(OnDisk), NEW v, NEW e \in EntriesAt(OnDisk),
         Logged(w, f, q),
         v.log = Append(w.log, e), v.disk = Apply(w.disk, e), Held(v.disk, f, q),
         TornFine(w.disk, e, f, q)
  PROVE  Logged(v, f, q)
<1> DEFINE n == Len(w.log)
<1>1. PICK g : /\ Disks(g, w.log) /\ g[n] = w.disk
               /\ \A k \in 0..n : Held(g[k], f, q)
               /\ \A k \in 1..n : TornFine(g[k - 1], w.log[k], f, q)
  BY DEF Logged
<1>2. w.log \in Seq(EntriesAt(OnDisk)) /\ n \in Nat
  <2>1. w.log \in Seq(EntriesAt(OnDisk)) BY StateIs DEF Counts
  <2> QED BY <2>1, LenProperties
<1>3. /\ Len(v.log) = n + 1 /\ v.log[n + 1] = e
      /\ \A k \in 1..n : v.log[k] = w.log[k]
  BY <1>2, AppendProperties
<1> DEFINE u == [k \in 0..(n + 1) |-> IF k = n + 1 THEN v.disk ELSE g[k]]
<1>4. /\ \A k \in 0..n : u[k] = g[k] /\ k # n + 1
      /\ u[n + 1] = v.disk
  BY <1>2
<1>5. u \in [0..(n + 1) -> Disk] /\ u[0] = disk
  <2>1. \A k \in 0..n : g[k] \in Disk BY <1>1 DEF Held, OwnedDisk
  <2>2. v.disk \in Disk BY DEF Held, OwnedDisk
  <2>3. \A k \in 0..(n + 1) : k = n + 1 \/ k \in 0..n BY <1>2
  <2>4. g[0] = disk /\ 0 \in 0..n BY <1>1, <1>2 DEF Disks
  <2> QED BY <1>4, <2>1, <2>2, <2>3, <2>4
<1> HIDE DEF u, n
<1>6. \A k \in 1..(n + 1) : k = n + 1 \/ (k \in 1..n /\ k - 1 \in 0..n /\ k \in 0..n) BY <1>2
<1>7. (n + 1) - 1 = n /\ n \in 0..n /\ u[n] = w.disk BY <1>1, <1>2, <1>4
<1>8. \A k \in 1..(n + 1) : u[k] = Apply(u[k - 1], v.log[k])
  <2>1. u[n + 1] = Apply(u[(n + 1) - 1], v.log[n + 1]) BY <1>3, <1>4, <1>7
  <2>2. \A k \in 1..n : g[k] = Apply(g[k - 1], w.log[k]) BY <1>1 DEF Disks, n
  <2> QED BY <1>3, <1>4, <1>6, <2>1, <2>2
<1>9. \A k \in 0..(n + 1) : Held(u[k], f, q)
  <2>1. \A k \in 0..(n + 1) : k = n + 1 \/ k \in 0..n BY <1>2
  <2> QED BY <1>1, <1>4, <2>1
<1>10. \A k \in 1..(n + 1) : TornFine(u[k - 1], v.log[k], f, q)
  <2>1. TornFine(u[(n + 1) - 1], v.log[n + 1], f, q) BY <1>3, <1>7
  <2> QED BY <1>1, <1>3, <1>4, <1>6, <2>1
<1>11. Disks(u, v.log) BY <1>3, <1>5, <1>8 DEF Disks
<1> QED BY <1>3, <1>4, <1>9, <1>10, <1>11 DEF Logged

\* Nothing done, and one thing done after another.
LEMMA KeepsAll ==
  ASSUME NEW f, NEW I, NEW q, NEW w, Fine(w, f, I)
  PROVE  Keeps(w, w, f, I, q)
BY DEF Keeps, Grown, Kept

LEMMA KeepsOn ==
  ASSUME NEW f, NEW I, NEW q, NEW u, NEW v, NEW w, Keeps(u, v, f, I, q), Keeps(v, w, f, I, q)
  PROVE  Keeps(u, w, f, I, q)
<1>1. Grown(u, w, f, I, q) BY KeptOn DEF Keeps, Grown
<1> QED BY <1>1 DEF Keeps

\* The super block is written: one more block is handed out.
LEMMA SuperKeeps ==
  ASSUME NEW f \in Files, NEW I, NEW q, NEW w, Fine(w, f, I), NEW blocks, NEW v \in States(OnDisk),
         v = State(blocks, w.n_blocks + 1, [w.disk EXCEPT !.n_blocks = w.n_blocks + 1],
                   Append(w.log, SuperEntry(w.n_blocks + 1))),
         \A r \in 0..DOUBLE :
           I[f].blocks[r] \in {0, blocks[r]} /\ w.blocks[r] \in {0, blocks[r]},
         \E owner : Owner(owner, w.disk.block, RootsWith(I, f, blocks), w.n_blocks + 1)
  PROVE  Keeps(w, v, f, I, q)
<1> DEFINE n == w.n_blocks
           e == SuperEntry(n + 1)
           d == [w.disk EXCEPT !.n_blocks = n + 1]
<1>1. /\ v.blocks = blocks /\ v.n_blocks = n + 1 /\ v.disk = d /\ v.log = Append(w.log, e)
  BY DEF State
<1>2. n \in Nat /\ n >= 1 /\ w.disk \in Disk /\ w.disk.inode = I BY FineIs
<1>3. d.n_blocks = n + 1 /\ d.inode = I /\ d.block = w.disk.block BY <1>2 DEF Disk
<1>4. Apply(w.disk, e) = d BY DEF Apply, SuperEntry
<1>5. TornFine(w.disk, e, f, q) BY DEF TornFine, SuperEntry
<1>6. /\ Kept(w.disk.block, RootsWith(I, f, w.blocks), w.disk.block, RootsWith(I, f, blocks), f, q)
       /\ Kept(w.disk.block, RootsOf(I), w.disk.block, RootsOf(I), f, q)
  <2>1. PICK owner : Owner(owner, w.disk.block, RootsWith(I, f, w.blocks), w.n_blocks) BY DEF Fine
  <2>2. \A g \in Files : \A r \in 0..DOUBLE : RootsWith(I, f, w.blocks)[g][r] # 0 =>
          RootsWith(I, f, blocks)[g][r] = RootsWith(I, f, w.blocks)[g][r]
    BY DEF RootsWith
  <2>3. w.n_blocks \in 1..(MaxBlock + 1) BY FineIs
  <2>4. w.n_blocks \in 0..(MaxBlock + 1) BY <2>3
  <2>5. Kept(w.disk.block, RootsWith(I, f, w.blocks), w.disk.block, RootsWith(I, f, blocks), f, q)
    BY <2>1, <2>2, <2>4, KeptWords
  <2>6. \A r \in 0..DOUBLE : I[f].blocks[r] \in {0, blocks[r]} OBVIOUS
  <2> QED BY <2>5, <2>6, KeptOld
<1>7. n + 1 \in OnDisk
  <2>1. v.n_blocks \in OnDisk BY StateIs DEF Counts
  <2> QED BY <1>1, <2>1
<1>8. e \in EntriesAt(OnDisk) BY <1>7 DEF EntriesAt, SuperEntry
<1> HIDE DEF d, e
<1>9. n + 1 >= 1 BY <1>2
<1>10. Fine(v, f, I) BY <1>1, <1>3, <1>9 DEF Fine
<1>11. Safe(v.disk, w, I, f, q)
  <2>1. OwnedDisk(v.disk) BY <1>10, FineIs
  <2> QED BY <1>1, <1>3, <1>6, <2>1 DEF Safe
<1>12. ASSUME Logged(w, f, q) PROVE Logged(v, f, q)
  <2>1. w \in States(OnDisk) /\ Held(v.disk, f, q) BY <1>11, <1>12, FineIs, HeldOn
  <2> QED BY <1>1, <1>4, <1>5, <1>8, <1>12, <2>1, LogMore
<1>13. Grown(w, v, f, I, q) BY <1>1, <1>3, <1>6 DEF Grown
<1> QED BY <1>10, <1>12, <1>13 DEF Keeps

\* A block is written.
LEMMA PutFine ==
  ASSUME NEW f \in Files, NEW I, NEW q, NEW w, Fine(w, f, I), NEW v \in States(OnDisk),
         NEW b \in 0..MaxBlock, NEW data \in Block, Wrote(v, w, b, data),
         \E owner : Owner(owner, [w.disk.block EXCEPT ![b] = data], RootsWith(I, f, w.blocks),
                          w.n_blocks)
  PROVE  /\ Fine(v, f, I) /\ v.blocks = w.blocks /\ v.n_blocks = w.n_blocks
         /\ v.disk = SetBlock(w.disk, b, data) /\ v.log = Append(w.log, BlockEntry(b, data))
         /\ v.disk.block = [w.disk.block EXCEPT ![b] = data]
<1> DEFINE d == SetBlock(w.disk, b, data)
<1>1. /\ v.blocks = w.blocks /\ v.n_blocks = w.n_blocks /\ v.disk = d
      /\ v.log = Append(w.log, BlockEntry(b, data))
  BY DEF Wrote, State
<1>2. /\ w.n_blocks >= 1 /\ w.disk \in Disk /\ w.disk.inode = I
      /\ w.disk.n_blocks = w.n_blocks
  BY FineIs
<1>3. d.n_blocks = w.n_blocks /\ d.inode = I /\ d.block = [w.disk.block EXCEPT ![b] = data]
  BY <1>2 DEF Disk, SetBlock
<1> HIDE DEF d
<1>4. \A r \in 0..DOUBLE : I[f].blocks[r] \in {0, v.blocks[r]} BY <1>1 DEF Fine
<1>5. Fine(v, f, I) BY <1>1, <1>2, <1>3, <1>4 DEF Fine
<1> QED BY <1>1, <1>3, <1>5 DEF d

LEMMA PutKeeps ==
  ASSUME NEW f \in Files, NEW I, NEW q, NEW w, Fine(w, f, I), NEW v \in States(OnDisk),
         NEW b \in 0..MaxBlock, NEW data \in Block, Wrote(v, w, b, data),
         \E owner : Owner(owner, [w.disk.block EXCEPT ![b] = data], RootsWith(I, f, w.blocks),
                          w.n_blocks),
         Kept(w.disk.block, RootsWith(I, f, w.blocks), [w.disk.block EXCEPT ![b] = data],
              RootsWith(I, f, w.blocks), f, q),
         \A t \in Sectors : Safe(Torn(w.disk, b, data, t), w, I, f, q)
  PROVE  Keeps(w, v, f, I, q)
<1> DEFINE e == BlockEntry(b, data)
<1>1. /\ Fine(v, f, I) /\ v.disk = SetBlock(w.disk, b, data)
      /\ v.log = Append(w.log, e) /\ v.blocks = w.blocks
      /\ v.disk.block = [w.disk.block EXCEPT ![b] = data]
  BY PutFine
<1>2. Apply(w.disk, e) = SetBlock(w.disk, b, data) BY DEF Apply, BlockEntry, SetBlock
<1>3. e.part = "block" /\ e.at = b /\ e.data = data BY DEF BlockEntry
<1>4. e \in EntriesAt(OnDisk)
  <2>1. b \in Words(OnDisk) BY SizesAre DEF Words, OnDisk
  <2> QED BY <2>1, OnDiskIs DEF EntriesAt, BlockEntry
<1> HIDE DEF e
<1>5. Grown(w, v, f, I, q) BY <1>1 DEF Grown
<1>6. Safe(v.disk, w, I, f, q)
  <2>1. OwnedDisk(v.disk) /\ v.disk.inode = I BY <1>1, FineIs
  <2>2. \A r \in 0..DOUBLE : I[f].blocks[r] \in {0, w.blocks[r]} BY DEF Fine
  <2>3. Kept(w.disk.block, RootsWith(I, f, w.blocks), v.disk.block, RootsWith(I, f, w.blocks), f, q)
    BY <1>1
  <2>4. Kept(w.disk.block, RootsOf(I), v.disk.block, RootsOf(I), f, q) BY <2>2, <2>3, KeptOld
  <2> QED BY <2>1, <2>4 DEF Safe
<1>7. ASSUME Logged(w, f, q) PROVE Logged(v, f, q)
  <2>1. w \in States(OnDisk) /\ Held(v.disk, f, q) BY <1>6, <1>7, FineIs, HeldOn
  <2>2. \A t \in Sectors : Held(Torn(w.disk, b, data, t), f, q) BY <1>7, HeldOn
  <2>3. TornFine(w.disk, e, f, q) BY <1>3, <2>2 DEF TornFine
  <2> QED BY <1>1, <1>2, <1>4, <1>7, <2>1, <2>3, LogMore
<1> QED BY <1>1, <1>5, <1>7 DEF Keeps

LEMMA RootKeeps ==
  ASSUME NEW f \in Files, NEW I, NEW q, NEW w, Fine(w, f, I), NEW r \in 0..DOUBLE,
         WithRoot(w, r).n_blocks \in OnDisk
  PROVE  Keeps(w, WithRoot(w, r), f, I, q) /\ WithRoot(w, r).blocks[r] # 0
<1> DEFINE v == WithRoot(w, r)
           n == w.n_blocks
           blocks == [w.blocks EXCEPT ![r] = n]
           root == RootsWith(I, f, w.blocks)
<1>1. /\ w \in States(OnDisk) /\ OnDisk \in Counts /\ root \in Roots /\ root[f] = w.blocks
      /\ n \in 1..(MaxBlock + 1) /\ w.blocks \in [0..TRIPLE_INDIRECT_INDEX -> 0..MaxBlock]
      /\ I \in [Files -> Inode]
  BY FineIs
<1>2. 0..DOUBLE \subseteq 0..TRIPLE_INDIRECT_INDEX BY IndicesAre
<1>3. /\ Grows(w, v, OnDisk)
      /\ w.blocks[r] # 0 => v = w
      /\ w.blocks[r] = 0 => Rooted(v, w, r)
  BY <1>1, <1>2, RootIs
<1>4. v \in States(OnDisk) BY <1>3 DEF Grows
<1> HIDE DEF v
<1>5. CASE w.blocks[r] # 0 BY <1>3, <1>5, KeepsAll DEF v
<1>6. CASE w.blocks[r] = 0
  <2>1. v = State(blocks, n + 1, [w.disk EXCEPT !.n_blocks = n + 1],
                  Append(w.log, SuperEntry(n + 1)))
    BY <1>3, <1>6 DEF Rooted
  <2>2. v.n_blocks = n + 1 /\ v.blocks = blocks BY <2>1 DEF State
  <2>3. n \in 1..MaxBlock BY <1>1, <2>2, SizesAre DEF OnDisk, v
  <2>4. /\ blocks[r] = n
        /\ \A s \in 0..DOUBLE : s # r => blocks[s] = w.blocks[s]
    BY <1>1, <1>2
  <2>5. \A s \in 0..DOUBLE : I[f].blocks[s] \in {0, blocks[s]} /\ w.blocks[s] \in {0, blocks[s]}
    BY <1>6, <2>4 DEF Fine
  <2>6. RootsWith(I, f, blocks) = [root EXCEPT ![f][r] = n]
    BY <1>1 DEF RootsWith
  <2>7. PICK owner : Owner(owner, w.disk.block, root, n) BY DEF Fine
  <2>8. Owner(Settled(owner, n, P0(f, r)), w.disk.block, [root EXCEPT ![f][r] = n], n + 1)
    BY <1>1, <1>6, <2>3, <2>7, OwnerRoot
  <2>9. \E o : Owner(o, w.disk.block, RootsWith(I, f, blocks), n + 1) BY <2>6, <2>8
  <2> HIDE DEF blocks
  <2>10. Keeps(w, v, f, I, q) BY <1>4, <2>1, <2>5, <2>9, SuperKeeps
  <2> QED BY <2>2, <2>3, <2>4, <2>10 DEF v
<1> QED BY <1>5, <1>6

LEMMA AllocKeeps ==
  ASSUME NEW f \in Files, NEW I, NEW q, NEW w, Fine(w, f, I), w.n_blocks + 1 \in OnDisk
  PROVE  /\ Keeps(w, alloc_block(w), f, I, q) /\ alloc_block(w).blocks = w.blocks
         /\ alloc_block(w).disk.block = w.disk.block /\ alloc_block(w).n_blocks = w.n_blocks + 1
<1> DEFINE v == alloc_block(w)
           n == w.n_blocks
<1>1. /\ w \in States(OnDisk) /\ OnDisk \in Counts /\ n \in Nat /\ w.disk \in Disk
  BY FineIs
<1>2. Allocated(v, w) /\ v \in States(OnDisk) BY <1>1, AllocIs
<1> HIDE DEF v
<1>3. v = State(w.blocks, n + 1, [w.disk EXCEPT !.n_blocks = n + 1],
                Append(w.log, SuperEntry(n + 1)))
  BY <1>2 DEF Allocated
<1>4. v.blocks = w.blocks /\ v.n_blocks = n + 1 /\ v.disk = [w.disk EXCEPT !.n_blocks = n + 1]
  BY <1>3 DEF State
<1>5. v.disk.block = w.disk.block BY <1>1, <1>4 DEF Disk
<1>6. \E o : Owner(o, w.disk.block, RootsWith(I, f, w.blocks), n + 1)
  BY <1>1, OwnerMore DEF Fine
<1>7. \A r \in 0..DOUBLE : I[f].blocks[r] \in {0, w.blocks[r]} /\ w.blocks[r] \in {0, w.blocks[r]}
  BY DEF Fine
<1>8. Keeps(w, v, f, I, q) BY <1>2, <1>3, <1>6, <1>7, SuperKeeps
<1> QED BY <1>4, <1>5, <1>8 DEF v

\* A torn pointer block is the block before or the block after.
LEMMA TornPointer ==
  ASSUME NEW d \in Disk, NEW b \in 0..MaxBlock, NEW k \in Sectors, NEW n, NEW t \in Sectors
  PROVE  Torn(d, b, [d.block[b] EXCEPT ![k] = n], t)
           \in {d, SetBlock(d, b, [d.block[b] EXCEPT ![k] = n])}
<1> DEFINE old == d.block[b]
           data == [old EXCEPT ![k] = n]
           mix == [s \in Sectors |-> IF s < t THEN data[s] ELSE old[s]]
<1>1. old \in [Sectors -> Cell] BY DEF Disk, Block
<1>2. data = [s \in Sectors |-> IF s = k THEN n ELSE old[s]] BY <1>1
<1>3. old = [s \in Sectors |-> old[s]] BY <1>1
<1>4. CASE k < t
  <2>1. mix = data BY <1>2, <1>4
  <2> QED BY <2>1 DEF Torn, SetBlock
<1>5. CASE ~(k < t)
  <2>1. mix = old BY <1>2, <1>3, <1>5
  <2>2. Torn(d, b, data, t) = SetBlock(d, b, mix) BY DEF Torn, SetBlock
  <2> HIDE DEF mix, data
  <2>3. SetBlock(d, b, old) = d
    <3>1. d.block \in [0..MaxBlock -> Block]
          /\ d = [n_blocks |-> d.n_blocks, inode |-> d.inode, block |-> d.block]
      BY DEF Disk
    <3>2. [d.block EXCEPT ![b] = d.block[b]] = d.block BY <3>1
    <3> QED BY <3>1, <3>2 DEF SetBlock
  <2> QED BY <2>1, <2>2, <2>3 DEF data
<1> QED BY <1>4, <1>5

\* Block b holds pointers of f, the index block or one that it leads to.
Points(block, root, f, b) ==
  \/ \E r \in {SINGLE, DOUBLE} : root[f][r] # 0 /\ b = root[f][r]
  \/ \E a \in Sectors : /\ root[f][DOUBLE] # 0 /\ V1(block, root, f, DOUBLE, a) # 0
                         /\ b = V1(block, root, f, DOUBLE, a)

LEMMA PointsIs ==
  ASSUME NEW owner, NEW block, NEW root, NEW n \in 0..(MaxBlock + 1),
         Owner(owner, block, root, n), NEW f \in Files, NEW b, Points(block, root, f, b)
  PROVE  ~IsLeaf(owner[b])
<1>1. OwnedWay(owner, block, root, n) BY OwnerWay
<1>2. SINGLE \in 0..DOUBLE /\ DOUBLE \in 0..DOUBLE BY IndicesAre
<1>3. ASSUME NEW r \in {SINGLE, DOUBLE}, root[f][r] # 0, b = root[f][r]
      PROVE  ~IsLeaf(owner[b])
  <2>1. owner[b] = P0(f, r) BY <1>1, <1>2, <1>3 DEF OwnedWay
  <2> QED BY <2>1, LeafIs
<1>4. ASSUME NEW a \in Sectors, root[f][DOUBLE] # 0, V1(block, root, f, DOUBLE, a) # 0,
             b = V1(block, root, f, DOUBLE, a)
      PROVE  ~IsLeaf(owner[b])
  <2>1. owner[b] = P1(f, DOUBLE, a) BY <1>1, <1>4 DEF OwnedWay
  <2> QED BY <2>1, LeafIs
<1> QED BY <1>3, <1>4 DEF Points

\* An entry of a pointer block gets a new block.
LEMMA EntryKeeps ==
  ASSUME NEW f \in Files, NEW I, NEW q, NEW w, Fine(w, f, I), NEW b \in 0..MaxBlock,
         NEW k \in Sectors,
         w.disk.block[b][k] = 0, Points(w.disk.block, RootsWith(I, f, w.blocks), f, b),
         WithEntry(w, b, k).n_blocks \in OnDisk,
         w.n_blocks \in 1..MaxBlock =>
           \E o : Owner(o, Pointed(w.disk.block, b, k, w.n_blocks), RootsWith(I, f, w.blocks),
                        w.n_blocks + 1)
  PROVE  /\ Keeps(w, WithEntry(w, b, k), f, I, q) /\ WithEntry(w, b, k).blocks = w.blocks
         /\ WithEntry(w, b, k).disk.block = Pointed(w.disk.block, b, k, w.n_blocks)
<1> DEFINE v == WithEntry(w, b, k)
           a == alloc_block(w)
           n == w.n_blocks
           data == [w.disk.block[b] EXCEPT ![k] = n]
<1>1. /\ w \in States(OnDisk) /\ OnDisk \in Counts /\ n \in 1..(MaxBlock + 1)
      /\ w.disk \in Disk /\ w.disk.block \in Disk0
  BY FineIs
<1>2. b \in Words(OnDisk) /\ ReadBlock(w.disk, b) = w.disk.block[b]
  BY <1>1, SizesAre DEF Words, OnDisk, ReadBlock, Disk0
<1>3. /\ Grows(w, v, OnDisk) /\ a \in States(Nat) /\ Wrote(v, a, b, data)
  BY <1>1, <1>2, EntryIs
<1>4. v \in States(OnDisk) BY <1>3 DEF Grows
<1> HIDE DEF v
<1>5. v.n_blocks = a.n_blocks /\ a.n_blocks = n + 1
  BY <1>1, <1>3, AllocIs DEF Wrote, Allocated, State
<1>6. n + 1 \in OnDisk BY <1>5 DEF v
<1>7. n \in 1..MaxBlock BY <1>1, <1>6, SizesAre DEF OnDisk
<1>8. Keeps(w, a, f, I, q) /\ a.blocks = w.blocks /\ a.disk.block = w.disk.block
  BY <1>6, AllocKeeps
<1> HIDE DEF a
<1>9. Fine(a, f, I) BY <1>8 DEF Keeps
<1>10. data \in Block
  <2>1. w.disk.block[b] \in [Sectors -> Cell] BY <1>1 DEF Disk0, Block
  <2>2. n \in Cell BY <1>1, SizesAre DEF Cell
  <2> QED BY <2>1, <2>2 DEF Block
<1>11. Pointed(w.disk.block, b, k, n) = [a.disk.block EXCEPT ![b] = data]
  BY <1>8 DEF Pointed
<1>12. data = [a.disk.block[b] EXCEPT ![k] = n] BY <1>8
<1> HIDE DEF data
<1>13. \E o : Owner(o, [a.disk.block EXCEPT ![b] = data], RootsWith(I, f, a.blocks), a.n_blocks)
  BY <1>5, <1>7, <1>8, <1>11
<1>14. /\ Fine(v, f, I) /\ v.blocks = a.blocks /\ v.disk = SetBlock(a.disk, b, data)
       /\ v.disk.block = [a.disk.block EXCEPT ![b] = data]
  BY <1>3, <1>4, <1>9, <1>10, <1>13, PutFine
<1>15. Kept(a.disk.block, RootsWith(I, f, a.blocks), [a.disk.block EXCEPT ![b] = data],
            RootsWith(I, f, a.blocks), f, q)
  <2>1. PICK owner : Owner(owner, a.disk.block, RootsWith(I, f, a.blocks), a.n_blocks)
    BY <1>9 DEF Fine
  <2>2. a.n_blocks \in 0..(MaxBlock + 1) BY <1>5, <1>7, SizesAre
  <2>3. \A c \in 0..MaxBlock : \A s \in Sectors : a.disk.block[c][s] # 0 =>
          Pointed(a.disk.block, b, k, n)[c][s] = a.disk.block[c][s]
    <3>1. /\ \A c \in 0..MaxBlock : c # b =>
               Pointed(a.disk.block, b, k, n)[c] = a.disk.block[c]
          /\ \A s \in Sectors : s # k =>
               Pointed(a.disk.block, b, k, n)[b][s] = a.disk.block[b][s]
      BY <1>1, <1>8, PointedIs
    <3> QED BY <1>8, <3>1
  <2>4. Pointed(a.disk.block, b, k, n) = [a.disk.block EXCEPT ![b] = data]
    BY <1>8, <1>11
  <2>5. \A c \in 0..MaxBlock : IsLeaf(owner[c]) =>
          [a.disk.block EXCEPT ![b] = data][c] = a.disk.block[c]
    <3>1. ~IsLeaf(owner[b]) BY <1>8, <2>1, <2>2, PointsIs
    <3>2. a.disk.block \in Disk0 BY <1>1, <1>8
    <3> QED BY <3>1, <3>2 DEF Disk0
  <2>6. \A c \in 0..MaxBlock : \A s \in Sectors : a.disk.block[c][s] # 0 =>
          [a.disk.block EXCEPT ![b] = data][c][s] = a.disk.block[c][s]
    <3> DEFINE old == a.disk.block
               new == [old EXCEPT ![b] = data]
    <3>1. \A c \in 0..MaxBlock : \A s \in Sectors : old[c][s] # 0 =>
            Pointed(old, b, k, n)[c][s] = old[c][s]
      BY <2>3
    <3>2. Pointed(old, b, k, n) = new BY <2>4
    <3> HIDE DEF old, new
    <3>3. \A c \in 0..MaxBlock : \A s \in Sectors : old[c][s] # 0 => new[c][s] = old[c][s]
      BY <3>1, <3>2
    <3> QED BY <3>3 DEF old, new
  <2> QED BY <2>1, <2>2, <2>5, <2>6, KeptWords
<1>16. \A t \in Sectors : Safe(Torn(a.disk, b, data, t), a, I, f, q)
  <2>1. /\ OwnedDisk(a.disk) /\ OwnedDisk(v.disk) /\ a.disk \in Disk
        /\ a.disk.inode = I /\ v.disk.inode = I
    BY <1>9, <1>14, FineIs
  <2>2. \A t \in Sectors : Torn(a.disk, b, data, t) \in {a.disk, SetBlock(a.disk, b, data)}
    BY <1>12, <2>1, TornPointer
  <2>3. \A r \in 0..DOUBLE : I[f].blocks[r] \in {0, a.blocks[r]} BY <1>9 DEF Fine
  <2>4. Kept(a.disk.block, RootsOf(I), v.disk.block, RootsOf(I), f, q)
    BY <1>9, <1>14, <1>15, <2>3, KeptOld
  <2>5. Safe(a.disk, a, I, f, q) BY <2>1 DEF Safe, Kept
  <2>6. Safe(v.disk, a, I, f, q) BY <2>1, <2>4 DEF Safe
  <2> QED BY <1>14, <2>2, <2>5, <2>6
<1>17. Keeps(a, v, f, I, q) BY <1>3, <1>4, <1>9, <1>10, <1>13, <1>16, <1>15, PutKeeps
<1>18. Keeps(w, v, f, I, q) BY <1>8, <1>17, KeepsOn
<1> QED BY <1>8, <1>11, <1>14, <1>18 DEF v

LEMMA FirstKeeps ==
  ASSUME NEW f \in Files, NEW I, NEW q, NEW w, Fine(w, f, I), NEW r \in {SINGLE, DOUBLE},
         w.blocks[r] # 0, NEW k \in Sectors,
         WithEntry(w, w.blocks[r], k).n_blocks \in OnDisk
  PROVE  /\ Keeps(w, WithEntry(w, w.blocks[r], k), f, I, q)
         /\ WithEntry(w, w.blocks[r], k).blocks = w.blocks
         /\ WithEntry(w, w.blocks[r], k).disk.block[w.blocks[r]][k] # 0
<1> DEFINE v == WithEntry(w, w.blocks[r], k)
           b == w.blocks[r]
           n == w.n_blocks
           root == RootsWith(I, f, w.blocks)
<1>1. /\ w \in States(OnDisk) /\ OnDisk \in Counts /\ root \in Roots /\ root[f] = w.blocks
      /\ n \in 1..(MaxBlock + 1) /\ w.disk \in Disk /\ w.disk.block \in Disk0
      /\ w.blocks \in [0..TRIPLE_INDIRECT_INDEX -> 0..MaxBlock]
  BY FineIs
<1>2. b \in 0..MaxBlock /\ r \in 0..DOUBLE BY <1>1, IndicesAre
<1>3. b \in Words(OnDisk) /\ ReadBlock(w.disk, b) = w.disk.block[b]
  BY <1>1, <1>2, SizesAre DEF Words, OnDisk, ReadBlock, Disk0
<1>4. CASE w.disk.block[b][k] # 0
  <2>1. v = w BY <1>1, <1>3, <1>4, EntryIs
  <2> QED BY <1>4, <2>1, KeepsAll
<1>5. CASE w.disk.block[b][k] = 0
  <2>1. PICK owner : Owner(owner, w.disk.block, root, n) BY DEF Fine
  <2>2. root[f][r] = b BY <1>1
  <2> HIDE DEF b, root
  <2>3. ASSUME n \in 1..MaxBlock
        PROVE  Owner(Settled(owner, n, P1(f, r, k)), Pointed(w.disk.block, b, k, n), root, n + 1)
    <3>1. root[f][r] # 0 /\ w.disk.block[root[f][r]][k] = 0 BY <1>5, <2>2 DEF b
    <3>2. Owner(Settled(owner, n, P1(f, r, k)), Pointed(w.disk.block, root[f][r], k, n), root,
                n + 1)
      BY <1>1, <2>1, <2>3, <3>1, OwnerOne
    <3> QED BY <2>2, <3>2
  <2>4. n \in 1..MaxBlock => \E o : Owner(o, Pointed(w.disk.block, b, k, n), root, n + 1)
    BY <2>3
  <2>5. WithEntry(w, b, k).n_blocks \in OnDisk BY DEF b
  <2>6. /\ Keeps(w, WithEntry(w, b, k), f, I, q) /\ WithEntry(w, b, k).blocks = w.blocks
        /\ WithEntry(w, b, k).disk.block = Pointed(w.disk.block, b, k, n)
    <3>1. Points(w.disk.block, root, f, b) BY <2>2 DEF Points, b
    <3> QED BY <1>2, <1>5, <2>4, <2>5, <3>1, EntryKeeps DEF root
  <2>7. Pointed(w.disk.block, b, k, n)[b][k] = n BY <1>1, <1>2, PointedIs
  <2>8. n # 0 BY <1>1
  <2> QED BY <2>6, <2>7, <2>8 DEF b
<1> QED BY <1>4, <1>5

\* The pointer block that entry j of the double-indirect block names.
Child(w, j) == w.disk.block[w.blocks[DOUBLE]][j]

LEMMA SecondKeeps ==
  ASSUME NEW f \in Files, NEW I, NEW q, NEW w, Fine(w, f, I), w.blocks[DOUBLE] # 0,
         NEW j \in Sectors, NEW k \in Sectors, Child(w, j) # 0,
         WithEntry(w, Child(w, j), k).n_blocks \in OnDisk
  PROVE  /\ Keeps(w, WithEntry(w, Child(w, j), k), f, I, q)
         /\ WithEntry(w, Child(w, j), k).blocks = w.blocks
         /\ WithEntry(w, Child(w, j), k).disk.block[w.blocks[DOUBLE]][j] = Child(w, j)
         /\ WithEntry(w, Child(w, j), k).disk.block[Child(w, j)][k] # 0
         /\ Child(w, j) \in 0..MaxBlock
<1> DEFINE b == Child(w, j)
           v == WithEntry(w, b, k)
           n == w.n_blocks
           root == RootsWith(I, f, w.blocks)
<1>1. /\ w \in States(OnDisk) /\ OnDisk \in Counts /\ root \in Roots /\ root[f] = w.blocks
      /\ n \in 1..(MaxBlock + 1) /\ w.disk \in Disk /\ w.disk.block \in Disk0
      /\ w.blocks \in [0..TRIPLE_INDIRECT_INDEX -> 0..MaxBlock]
  BY FineIs
<1>2. PICK owner : Owner(owner, w.disk.block, root, n) BY DEF Fine
<1>3. root[f][DOUBLE] # 0 /\ b = V1(w.disk.block, root, f, DOUBLE, j) BY <1>1 DEF V1, Child
<1>4. b # 0 /\ v.n_blocks \in OnDisk /\ v = WithEntry(w, b, k) OBVIOUS
<1> HIDE DEF root, b, v
<1>5. n \in 0..(MaxBlock + 1) BY <1>1
<1>6. OwnedWay(owner, w.disk.block, root, n) BY <1>2, <1>5, OwnerWay
<1>7. /\ b \in 0..MaxBlock /\ owner[b] = P1(f, DOUBLE, j)
      /\ root[f][DOUBLE] \in 0..MaxBlock /\ owner[root[f][DOUBLE]] = P0(f, DOUBLE)
  BY <1>3, <1>6, <1>4 DEF OwnedWay
<1>8. b # root[f][DOUBLE] BY <1>7, PlacesDiffer
<1>9. b \in Words(OnDisk) /\ ReadBlock(w.disk, b) = w.disk.block[b]
  <2>1. DOMAIN w.disk.block = 0..MaxBlock BY <1>1 DEF Disk0
  <2>2. b \in 0..(MaxBlock + 1) BY <1>7, SizesAre
  <2> QED BY <1>7, <2>1, <2>2 DEF Words, OnDisk, ReadBlock
<1>10. CASE w.disk.block[b][k] # 0
  <2>1. v = w BY <1>1, <1>9, <1>10, <1>4, EntryIs
  <2>2. b = w.disk.block[w.blocks[DOUBLE]][j] BY DEF b, Child
  <2> QED BY <1>7, <1>10, <2>1, <2>2, KeepsAll DEF v, b
<1>11. CASE w.disk.block[b][k] = 0
  <2>1. V2(w.disk.block, root, f, j, k) = 0 BY <1>3, <1>11 DEF V2
  <2>2. ASSUME n \in 1..MaxBlock
        PROVE  Owner(Settled(owner, n, P2(f, j, k)),
                     Pointed(w.disk.block, V1(w.disk.block, root, f, DOUBLE, j), k, n), root, n + 1)
    BY <1>1, <1>2, <1>3, <1>4, <2>1, <2>2, OwnerTwo
  <2>3. n \in 1..MaxBlock => \E o : Owner(o, Pointed(w.disk.block, b, k, n), root, n + 1)
    BY <1>3, <2>2
  <2>4. /\ Keeps(w, v, f, I, q) /\ v.blocks = w.blocks
        /\ v.disk.block = Pointed(w.disk.block, b, k, n)
    <3>1. Points(w.disk.block, root, f, b) BY <1>3, <1>4 DEF Points
    <3> QED BY <1>4, <1>7, <1>11, <2>3, <3>1, EntryKeeps DEF root
  <2>5. /\ Pointed(w.disk.block, b, k, n)[b][k] = n
        /\ Pointed(w.disk.block, b, k, n)[root[f][DOUBLE]] = w.disk.block[root[f][DOUBLE]]
    BY <1>1, <1>7, <1>8, PointedIs
  <2>6. root[f][DOUBLE] = w.blocks[DOUBLE] /\ n # 0 BY <1>1 DEF root
  <2>7. b = w.disk.block[w.blocks[DOUBLE]][j] BY DEF b, Child
  <2> QED BY <1>7, <2>4, <2>5, <2>6, <2>7 DEF v, b
<1> QED BY <1>10, <1>11

LEMMA BlockKeeps ==
  ASSUME NEW f \in Files, NEW I, NEW q, NEW w, Fine(w, f, I), NEW n \in Nat,
         Root(n) # TRIPLE_INDIRECT_INDEX, WithBlock(w, n).n_blocks \in OnDisk
  PROVE  /\ Keeps(w, WithBlock(w, n), f, I, q)
         /\ Names(WithBlock(w, n).disk.block, RootsWith(I, f, WithBlock(w, n).blocks), f, n,
                  RealBlock(WithBlock(w, n).disk, WithBlock(w, n).blocks, n))
<1> DEFINE r == Root(n)
           v == WithBlock(w, n)
           top == WithRoot(w, r)
           one(a) == WithEntry(top, top.blocks[r], a)
           two(a, b) == WithEntry(one(a), ReadBlock(one(a).disk, one(a).blocks[r])[a], b)
<1>1. /\ r < NUM_DIRECT_BLOCKS => v = top
      /\ \A a \in Sectors : Path(n) = <<a>> => v = one(a)
      /\ \A a, b \in Sectors : Path(n) = <<a, b>> => v = two(a, b)
      /\ w \in States(OnDisk) /\ OnDisk \in Counts
  BY FineIs, WithBlockIs
<1>2. RealBlock(v.disk, v.blocks, n) = Follow(v.disk, v.blocks[r], Path(n)) BY DEF RealBlock
<1>3. IsPath(r, Path(n)) /\ r \in 0..DOUBLE /\ r \in 0..TRIPLE_INDIRECT_INDEX
  BY PathIs, IndicesAre
<1>4. v.n_blocks \in OnDisk /\ r # TRIPLE_INDIRECT_INDEX OBVIOUS
<1> HIDE DEF v
<1>5. ASSUME NEW u, Fine(u, f, I), NEW b \in 0..MaxBlock
      PROVE  ReadBlock(u.disk, b) = u.disk.block[b]
  <2>1. DOMAIN u.disk.block = 0..MaxBlock BY <1>5, FineIs DEF Disk0
  <2> QED BY <2>1 DEF ReadBlock
<1>6. ASSUME NEW u, Fine(u, f, I)
      PROVE  u.blocks[r] \in 0..MaxBlock /\ RootsWith(I, f, u.blocks)[f] = u.blocks
             /\ u.n_blocks \in 0..(MaxBlock + 1)
  <2>1. u.n_blocks \in 1..(MaxBlock + 1) BY <1>6, FineIs
  <2>2. u.n_blocks \in 0..(MaxBlock + 1) BY <2>1
  <2>3. /\ u.blocks \in [0..TRIPLE_INDIRECT_INDEX -> 0..MaxBlock]
        /\ RootsWith(I, f, u.blocks)[f] = u.blocks
    BY <1>6, FineIs
  <2> QED BY <1>3, <2>2, <2>3
<1>7. ASSUME top.n_blocks \in OnDisk PROVE Keeps(w, top, f, I, q) /\ top.blocks[r] # 0
  BY <1>3, <1>7, RootKeeps
<1>8. top \in States(Nat) BY <1>1, <1>3, RootIs DEF Grows
<1>9. ASSUME NEW u \in States(Nat), NEW a \in Sectors, NEW b \in Words(Nat)
      PROVE  /\ WithEntry(u, b, a) \in States(Nat)
             /\ WithEntry(u, b, a).n_blocks \in OnDisk => u.n_blocks \in OnDisk
  <2>1. Nat \in Counts BY DEF Counts
  <2>2. Grows(u, WithEntry(u, b, a), Nat) BY <2>1, EntryIs
  <2>3. u.n_blocks \in Nat BY <2>1, StateIs
  <2> QED BY <2>2, <2>3, SizesAre DEF Grows, OnDisk
<1>10. ASSUME NEW u \in States(Nat), NEW a \in Sectors
       PROVE  u.blocks[r] \in Words(Nat) /\ ReadBlock(u.disk, u.blocks[r])[a] \in Words(Nat)
  <2>1. Nat \in Counts BY DEF Counts
  <2>2. u.blocks \in RootsAt(Nat) /\ u.disk \in DisksAt(Nat) BY <2>1, StateIs
  <2>3. u.blocks[r] \in Nat BY <1>3, <2>2 DEF RootsAt
  <2>4. ReadBlock(u.disk, u.blocks[r]) \in BlocksAt(Nat) BY <2>1, <2>2, ReadBlockType
  <2> QED BY <2>3, <2>4 DEF BlocksAt, Words
<1>11. r # DOUBLE /\ r # SINGLE => r \in 0..(SINGLE - 1) BY <1>3, IndicesAre
<1> HIDE DEF r, top
<1>12. ASSUME NEW a \in Sectors
       PROVE  /\ one(a) \in States(Nat)
              /\ one(a).n_blocks \in OnDisk => top.n_blocks \in OnDisk
  BY <1>8, <1>9, <1>10
<1>13. CASE Path(n) = <<>> /\ r < NUM_DIRECT_BLOCKS
  <2>1. v = top /\ Keeps(w, v, f, I, q) /\ v.blocks[r] # 0 BY <1>1, <1>4, <1>7, <1>13
  <2>2. RealBlock(v.disk, v.blocks, n) = v.blocks[r] BY <1>2, <1>13, FollowIs
  <2>3. Fine(v, f, I) BY <2>1 DEF Keeps
  <2>4. r \in 0..(SINGLE - 1) BY <1>3, <1>13, IndicesAre
  <2>5. RootsWith(I, f, v.blocks)[f][r] = v.blocks[r] BY <1>6, <2>3
  <2>6. Names(v.disk.block, RootsWith(I, f, v.blocks), f, n, v.blocks[r])
    BY <1>13, <2>1, <2>4, <2>5 DEF Names, r
  <2> QED BY <2>1, <2>2, <2>6 DEF v
<1>14. ASSUME NEW a \in Sectors, Path(n) = <<a>>, r = SINGLE
       PROVE  /\ Keeps(w, v, f, I, q)
              /\ Names(v.disk.block, RootsWith(I, f, v.blocks), f, n,
                       RealBlock(v.disk, v.blocks, n))
  <2>1. v = one(a) /\ Keeps(w, top, f, I, q) /\ top.blocks[r] # 0
    BY <1>1, <1>4, <1>7, <1>12, <1>14
  <2>2. Fine(top, f, I) /\ r \in {SINGLE, DOUBLE} BY <1>14, <2>1 DEF Keeps
  <2>3. /\ Keeps(top, v, f, I, q) /\ v.blocks = top.blocks
        /\ v.disk.block[top.blocks[r]][a] # 0
    <3>1. WithEntry(top, top.blocks[r], a).n_blocks \in OnDisk BY <1>4, <2>1
    <3>2. /\ Keeps(top, WithEntry(top, top.blocks[r], a), f, I, q)
          /\ WithEntry(top, top.blocks[r], a).blocks = top.blocks
          /\ WithEntry(top, top.blocks[r], a).disk.block[top.blocks[r]][a] # 0
      <4> DEFINE x == top.blocks[r]
      <4>1. x # 0 /\ WithEntry(top, x, a).n_blocks \in OnDisk BY <2>1, <3>1
      <4> QED BY <2>2, <4>1, FirstKeeps
    <3> QED BY <2>1, <3>2
  <2>4. Fine(v, f, I) BY <2>3 DEF Keeps
  <2>5. RealBlock(v.disk, v.blocks, n) = v.disk.block[v.blocks[r]][a]
    <3>1. RealBlock(v.disk, v.blocks, n) = ReadBlock(v.disk, v.blocks[r])[a]
      BY <1>2, <1>14, FollowIs
    <3> QED BY <1>5, <1>6, <2>4, <3>1
  <2>6. Names(v.disk.block, RootsWith(I, f, v.blocks), f, n, v.disk.block[v.blocks[r]][a])
    <3> DEFINE root == RootsWith(I, f, v.blocks)
    <3>1. root[f][r] = v.blocks[r] /\ v.blocks[r] # 0 BY <1>6, <2>1, <2>3, <2>4
    <3>2. V1(v.disk.block, root, f, r, a) = v.disk.block[v.blocks[r]][a] BY <3>1 DEF V1
    <3> HIDE DEF root
    <3> QED BY <1>14, <2>3, <3>1, <3>2 DEF Names, r, root
  <2> QED BY <2>1, <2>3, <2>5, <2>6, KeepsOn
<1>15. ASSUME NEW a \in Sectors, NEW c \in Sectors, Path(n) = <<a, c>>, r = DOUBLE
       PROVE  /\ Keeps(w, v, f, I, q)
              /\ Names(v.disk.block, RootsWith(I, f, v.blocks), f, n,
                       RealBlock(v.disk, v.blocks, n))
  <2> DEFINE b == one(a).disk.block[one(a).blocks[r]][a]
  <2>1. one(a).n_blocks \in OnDisk
    <3>1. v = two(a, c) BY <1>1, <1>15
    <3> HIDE DEF one
    <3> QED BY <1>4, <1>9, <1>10, <1>12, <3>1
  <2>2. Keeps(w, top, f, I, q) /\ top.blocks[r] # 0 BY <1>7, <1>12, <2>1
  <2>3. Fine(top, f, I) /\ r \in {SINGLE, DOUBLE} BY <1>15, <2>2 DEF Keeps
  <2>4. /\ Keeps(top, one(a), f, I, q) /\ one(a).blocks = top.blocks
        /\ one(a).disk.block[top.blocks[r]][a] # 0
    BY <2>2, <2>3, <2>1, FirstKeeps
  <2> HIDE DEF one
  <2>5. Fine(one(a), f, I) BY <2>4 DEF Keeps
  <2>6. b # 0 /\ one(a).blocks[r] # 0 /\ ReadBlock(one(a).disk, one(a).blocks[r])[a] = b
    BY <1>5, <1>6, <2>2, <2>4, <2>5
  <2>7. v = WithEntry(one(a), b, c) BY <1>1, <1>15, <2>6
  <2>8. b = one(a).disk.block[one(a).blocks[DOUBLE]][a] BY <1>15
  <2> HIDE DEF b
  <2>9. /\ Keeps(one(a), v, f, I, q) /\ v.blocks = one(a).blocks
        /\ v.disk.block[one(a).blocks[r]][a] = b /\ v.disk.block[b][c] # 0
        /\ b \in 0..MaxBlock
    <3>1. one(a).blocks[DOUBLE] # 0 BY <1>15, <2>6
    <3>2. WithEntry(one(a), b, c).n_blocks \in OnDisk BY <1>4, <2>7
    <3>3. /\ Keeps(one(a), WithEntry(one(a), b, c), f, I, q)
          /\ WithEntry(one(a), b, c).blocks = one(a).blocks
          /\ WithEntry(one(a), b, c).disk.block[one(a).blocks[DOUBLE]][a] = b
          /\ WithEntry(one(a), b, c).disk.block[b][c] # 0 /\ b \in 0..MaxBlock
      <4> DEFINE u == one(a)
      <4>1. b = Child(u, a) /\ Fine(u, f, I) /\ u.blocks[DOUBLE] # 0
        BY <2>5, <2>8, <3>1 DEF Child
      <4>2. Child(u, a) # 0 /\ WithEntry(u, Child(u, a), c).n_blocks \in OnDisk
        BY <2>6, <3>2, <4>1
      <4> HIDE DEF u
      <4>3. /\ Keeps(u, WithEntry(u, Child(u, a), c), f, I, q)
            /\ WithEntry(u, Child(u, a), c).blocks = u.blocks
            /\ WithEntry(u, Child(u, a), c).disk.block[u.blocks[DOUBLE]][a] = Child(u, a)
            /\ WithEntry(u, Child(u, a), c).disk.block[Child(u, a)][c] # 0
            /\ Child(u, a) \in 0..MaxBlock
        BY <4>1, <4>2, SecondKeeps
      <4> QED BY <4>1, <4>3 DEF u
    <3> QED BY <1>15, <2>7, <3>3
  <2>10. Fine(v, f, I) BY <2>9 DEF Keeps
  <2>11. RealBlock(v.disk, v.blocks, n) = v.disk.block[b][c]
    <3>1. RealBlock(v.disk, v.blocks, n) = ReadBlock(v.disk, ReadBlock(v.disk, v.blocks[r])[a])[c]
      BY <1>2, <1>15, FollowIs
    <3>2. ReadBlock(v.disk, v.blocks[r])[a] = b BY <1>5, <1>6, <2>9, <2>10
    <3> QED BY <1>5, <2>9, <2>10, <3>1, <3>2
  <2>12. Names(v.disk.block, RootsWith(I, f, v.blocks), f, n, v.disk.block[b][c])
    <3> DEFINE root == RootsWith(I, f, v.blocks)
    <3>1. root[f][DOUBLE] = v.blocks[r] /\ v.blocks[r] # 0 BY <1>6, <1>15, <2>6, <2>9, <2>10
    <3>2. V1(v.disk.block, root, f, DOUBLE, a) = b BY <2>9, <3>1 DEF V1
    <3>3. V2(v.disk.block, root, f, a, c) = v.disk.block[b][c] BY <3>2 DEF V2
    <3> HIDE DEF root
    <3> QED BY <1>15, <2>6, <2>9, <3>1, <3>2, <3>3 DEF Names, r, root
  <2>13. Keeps(w, v, f, I, q) BY <2>2, <2>4, <2>9, KeepsOn
  <2> QED BY <2>11, <2>12, <2>13
<1>16. \/ Path(n) = <<>> /\ r < NUM_DIRECT_BLOCKS
       \/ r = SINGLE /\ \E a \in Sectors : Path(n) = <<a>>
       \/ r = DOUBLE /\ \E a, c \in Sectors : Path(n) = <<a, c>>
  <2>1. \A s \in 0..(NUM_DIRECT_BLOCKS - 1) : s < NUM_DIRECT_BLOCKS BY SizesAre
  <2> QED BY <1>3, <1>4, <2>1 DEF IsPath, SINGLE, DOUBLE
<1> QED BY <1>13, <1>14, <1>15, <1>16 DEF v

LEMMA TornData ==
  ASSUME NEW d \in Disk, NEW b \in 0..MaxBlock, NEW data \in Block, NEW t \in Sectors
  PROVE  \E mix \in Block :
           /\ Torn(d, b, data, t) = SetBlock(d, b, mix)
           /\ \A s \in Sectors : mix[s] = d.block[b][s] \/ mix[s] = data[s]
<1> DEFINE mix == [s \in Sectors |-> IF s < t THEN data[s] ELSE d.block[b][s]]
<1>1. mix \in Block
  <2>1. d.block[b] \in [Sectors -> Cell] /\ data \in [Sectors -> Cell] BY DEF Disk, Block
  <2> QED BY <2>1 DEF Block
<1>2. Torn(d, b, data, t) = SetBlock(d, b, mix) BY DEF Torn, SetBlock
<1>3. \A s \in Sectors : mix[s] = d.block[b][s] \/ mix[s] = data[s] OBVIOUS
<1> HIDE DEF mix
<1> QED BY <1>1, <1>2, <1>3

LEMMA LedOn ==
  ASSUME NEW block, NEW root, NEW new, NEW rooted, NEW f, NEW q,
         Kept(block, root, new, rooted, f, q), NEW g \in Files, NEW n \in Nat,
         Led(block, root, g, n)
  PROVE  Led(new, rooted, g, n)
BY DEF Kept, Led

\* Block n of f is on the disk, with the words that q has for it.
Filed(block, root, f, n, q) ==
  \E b : Names(block, root, f, n, b) /\ \A s \in Sectors : block[b][s] = q[n][s]

LEMMA FiledOn ==
  ASSUME NEW block, NEW root, NEW new, NEW rooted, NEW f \in Files, NEW q,
         Kept(block, root, new, rooted, f, q), NEW n \in Nat, Filed(block, root, f, n, q)
  PROVE  Filed(new, rooted, f, n, q)
<1>1. PICK b : Names(block, root, f, n, b) /\ \A s \in Sectors : block[b][s] = q[n][s]
  BY DEF Filed
<1>2. Names(new, rooted, f, n, b) /\ \A s \in Sectors : new[b][s] = q[n][s] BY <1>1 DEF Kept
<1> QED BY <1>2 DEF Filed

LEMMA WriteKeeps ==
  ASSUME NEW f \in Files, NEW I, NEW w, Fine(w, f, I), NEW n \in Nat, NEW data \in Block,
         WriteBlock(w, n, data).n_blocks \in OnDisk, NEW q, n \in DOMAIN q, q[n] = data
  PROVE  /\ Keeps(w, WriteBlock(w, n, data), f, I, q)
         /\ Root(n) # TRIPLE_INDIRECT_INDEX =>
              Filed(WriteBlock(w, n, data).disk.block,
                    RootsWith(I, f, WriteBlock(w, n, data).blocks), f, n, q)
<1> DEFINE v == WithBlock(w, n)
           u == WriteBlock(w, n, data)
           b == RealBlock(v.disk, v.blocks, n)
<1>1. CASE Root(n) = TRIPLE_INDIRECT_INDEX
  <2>1. u = w BY <1>1 DEF WriteBlock
  <2> QED BY <1>1, <2>1, KeepsAll
<1>2. CASE Root(n) # TRIPLE_INDIRECT_INDEX
  <2>1. w \in States(OnDisk) /\ OnDisk \in Counts BY FineIs
  <2>2. Grows(w, u, OnDisk) /\ Wrote(u, v, b, data) BY <1>2, <2>1, WriteBlockIs
  <2>3. u \in States(OnDisk) BY <2>2 DEF Grows
  <2>4. u.n_blocks = v.n_blocks BY <2>2 DEF Wrote, State
  <2>5. v.n_blocks \in OnDisk BY <2>4
  <2>6. Keeps(w, v, f, I, q) /\ Names(v.disk.block, RootsWith(I, f, v.blocks), f, n, b)
    BY <1>2, <2>5, BlockKeeps
  <2> HIDE DEF v, u, b
  <2>7. Fine(v, f, I) BY <2>6 DEF Keeps
  <2>8. /\ v.disk \in Disk /\ v.disk.block \in Disk0 /\ v.disk.inode = I
        /\ v.disk.n_blocks = v.n_blocks /\ v.n_blocks \in 1..(MaxBlock + 1)
        /\ RootsWith(I, f, v.blocks) \in Roots
    BY <2>7, FineIs
  <2>9. PICK owner : Owner(owner, v.disk.block, RootsWith(I, f, v.blocks), v.n_blocks)
    BY <2>7 DEF Fine
  <2>10. b \in 1..(v.n_blocks - 1) /\ IsLeaf(owner[b]) BY <2>6, <2>9, NamesOwned
  <2>11. v.n_blocks \in 0..(MaxBlock + 1) /\ v.n_blocks \in Nat /\ b \in 0..MaxBlock
    BY <2>8, <2>10, SizesAre
  <2>12. \A mix : Owner(owner, [v.disk.block EXCEPT ![b] = mix], RootsWith(I, f, v.blocks),
                        v.n_blocks)
    BY <2>8, <2>9, <2>10, <2>11, OwnerData
  <2> DEFINE Mixed(mix) == \A s \in Sectors : mix[s] = v.disk.block[b][s] \/ mix[s] = data[s]
  <2>13. ASSUME NEW mix, Mixed(mix)
         PROVE  Kept(v.disk.block, RootsWith(I, f, v.blocks), [v.disk.block EXCEPT ![b] = mix],
                     RootsWith(I, f, v.blocks), f, q)
    BY <2>6, <2>8, <2>9, <2>11, <2>13, KeptData
  <2>14. \A r \in 0..DOUBLE : I[f].blocks[r] \in {0, v.blocks[r]} BY <2>7 DEF Fine
  <2>15. ASSUME NEW mix \in Block, Mixed(mix) PROVE Safe(SetBlock(v.disk, b, mix), v, I, f, q)
    <3> DEFINE d == SetBlock(v.disk, b, mix)
    <3>1. d \in Disk BY <2>8, BlockSet
    <3>2. d.inode = I /\ d.n_blocks = v.n_blocks /\ d.block = [v.disk.block EXCEPT ![b] = mix]
      BY <2>8 DEF SetBlock, Disk
    <3> HIDE DEF d
    <3>3. \E o : Owner(o, d.block, RootsWith(I, f, v.blocks), v.n_blocks) BY <2>12, <3>2
    <3>4. OwnedDisk(d) BY <2>7, <2>11, <3>1, <3>2, <3>3, DiskOwned
    <3>5. Kept(v.disk.block, RootsWith(I, f, v.blocks), d.block, RootsWith(I, f, v.blocks), f, q)
      BY <2>13, <2>15, <3>2
    <3>6. Kept(v.disk.block, RootsOf(I), d.block, RootsOf(I), f, q)
      BY <2>7, <2>14, <3>5, KeptOld
    <3> QED BY <3>2, <3>4, <3>6 DEF Safe, d
  <2>16. \A t \in Sectors : Safe(Torn(v.disk, b, data, t), v, I, f, q)
    BY <2>8, <2>11, <2>15, TornData
  <2>17. Mixed(data) OBVIOUS
  <2>18. /\ Kept(v.disk.block, RootsWith(I, f, v.blocks), [v.disk.block EXCEPT ![b] = data],
                 RootsWith(I, f, v.blocks), f, q)
         /\ \E o : Owner(o, [v.disk.block EXCEPT ![b] = data], RootsWith(I, f, v.blocks),
                         v.n_blocks)
    BY <2>12, <2>13, <2>17
  <2> HIDE DEF Mixed
  <2>19. Keeps(v, u, f, I, q) BY <2>2, <2>3, <2>7, <2>11, <2>16, <2>18, PutKeeps
  <2>20. Filed(u.disk.block, RootsWith(I, f, u.blocks), f, n, q)
    <3>1. u.disk.block = [v.disk.block EXCEPT ![b] = data] /\ u.blocks = v.blocks
      BY <2>2, <2>3, <2>7, <2>11, <2>18, PutFine
    <3>2. Names(u.disk.block, RootsWith(I, f, u.blocks), f, n, b)
      BY <2>6, <2>19 DEF Keeps, Grown, Kept
    <3>3. u.disk.block[b] = data BY <2>8, <2>11, <3>1 DEF Disk0
    <3> QED BY <3>2, <3>3 DEF Filed
  <2> QED BY <2>6, <2>19, <2>20, KeepsOn DEF u
<1> QED BY <1>1, <1>2

\* The blocks of its buffer that a write of count blocks writes.
Finds(v, f, I, n, q) ==
  Root(n) # TRIPLE_INDIRECT_INDEX => Filed(v.disk.block, RootsWith(I, f, v.blocks), f, n, q)
First(hd) == hd.range_low \div BLOCK_SIZE
Parts(hd, count) ==
  [n \in First(hd)..(First(hd) + count - 1) |-> Part(hd, n - First(hd) + 1)]

LEMMA PassesKeep ==
  ASSUME NEW f \in Files, NEW I, NEW w, Fine(w, f, I), NEW hd, NEW count \in Nat,
         hd.range_low \in Nat, \A k \in 1..count : Part(hd, k) \in Block,
         NEW p, Passes(p, w, hd, count), \A k \in 0..count : p[k] \in States(OnDisk)
  PROVE  /\ Keeps(w, p[count], f, I, Parts(hd, count))
         /\ First(hd) \in Nat
         /\ \A n \in DOMAIN Parts(hd, count) : Finds(p[count], f, I, n, Parts(hd, count))
<1> DEFINE first == First(hd)
           q == Parts(hd, count)
           All(k) == \A n \in first..(first + k - 1) : Finds(p[k], f, I, n, q)
           P == {k \in Nat : k <= count => Keeps(w, p[k], f, I, q) /\ All(k)}
<1>1. first \in Nat BY SizesAre, Division DEF First
<1>2. /\ p[0] = w
      /\ \A k \in 1..count : p[k] = WriteBlock(p[k - 1], first + k - 1, Part(hd, k))
  BY DEF Passes, First
<1>3. /\ DOMAIN q = first..(first + count - 1)
      /\ \A k \in 1..count : first + k - 1 \in DOMAIN q /\ q[first + k - 1] = Part(hd, k)
  <2>1. DOMAIN q = first..(first + count - 1) BY DEF Parts
  <2>2. ASSUME NEW k \in 1..count
        PROVE  first + k - 1 \in DOMAIN q /\ q[first + k - 1] = Part(hd, k)
    <3>1. first + k - 1 \in first..(first + count - 1) /\ (first + k - 1) - first + 1 = k
      BY <1>1
    <3> QED BY <2>1, <3>1 DEF Parts
  <2> QED BY <2>1, <2>2
<1> HIDE DEF first, q
<1>4. 0 \in P
  <2>1. Keeps(w, p[0], f, I, q) BY <1>2, KeepsAll
  <2>2. All(0) BY <1>1
  <2> QED BY <2>1, <2>2
<1>5. ASSUME NEW k \in P, k < count PROVE k + 1 \in P
  <2>1. /\ k \in Nat /\ k + 1 \in 1..count /\ (k + 1) - 1 = k
        /\ first + (k + 1) - 1 \in Nat /\ k + 1 \in 0..count
    BY <1>1, <1>5
  <2>2. Keeps(w, p[k], f, I, q) /\ All(k) BY <1>5, <2>1
  <2>3. p[k + 1] = WriteBlock(p[k], first + (k + 1) - 1, Part(hd, k + 1)) BY <1>2, <2>1
  <2>4. p[k + 1].n_blocks \in OnDisk /\ Part(hd, k + 1) \in Block
    <3>1. OnDisk \in Counts /\ p[k + 1] \in States(OnDisk) BY <2>1 DEF Counts
    <3> QED BY <2>1, <3>1, StateIs
  <2>5. Fine(p[k], f, I) BY <2>2 DEF Keeps
  <2>6. Keeps(p[k], p[k + 1], f, I, q) /\ Finds(p[k + 1], f, I, first + (k + 1) - 1, q)
    <3>1. first + (k + 1) - 1 \in DOMAIN q /\ q[first + (k + 1) - 1] = Part(hd, k + 1)
      BY <1>3, <2>1
    <3> QED BY <2>1, <2>3, <2>4, <2>5, <3>1, WriteKeeps DEF Finds
  <2>7. Keeps(w, p[k + 1], f, I, q) BY <2>2, <2>6, KeepsOn
  <2>8. All(k + 1)
    <3> SUFFICES ASSUME NEW n \in first..(first + (k + 1) - 1)
                 PROVE  Finds(p[k + 1], f, I, n, q)
      OBVIOUS
    <3>1. CASE n = first + (k + 1) - 1 BY <2>6, <3>1
    <3>2. CASE n # first + (k + 1) - 1
      <4>1. n \in first..(first + k - 1) /\ n \in Nat BY <1>1, <2>1, <3>2
      <4>2. Finds(p[k], f, I, n, q) BY <2>2, <4>1
      <4> QED BY <2>6, <4>1, <4>2, FiledOn DEF Finds, Keeps, Grown
    <3> QED BY <3>1, <3>2
  <2> HIDE DEF All
  <2> QED BY <2>1, <2>7, <2>8
<1>6. P \in SUBSET Nat OBVIOUS
<1> HIDE DEF P
<1>7. 0..count \subseteq P BY <1>4, <1>5, <1>6, CountingUp
<1>8. count \in P BY <1>7
<1>9. Keeps(w, p[count], f, I, q) /\ All(count) BY <1>8 DEF P
<1> QED BY <1>1, <1>3, <1>9 DEF q, first

\* Cut off anywhere, a write leaves a disk with owners.
LEMMA CutOwned ==
  ASSUME disk \in Disk, NEW f, NEW q, NEW w \in States(OnDisk), Logged(w, f, q),
         NEW e \in Entries, e.part # "block"
  PROVE  LET all == Append(w.log, e)
         IN /\ Survivor(all, Len(w.log), 0) = w.disk
            /\ \A k \in 0..(Len(all) - 1) : \A t \in Sectors :
                 (t > 0 => all[k + 1].part = "block") => Held(Survivor(all, k, t), f, q)
<1> DEFINE all == Append(w.log, e)
           n == Len(w.log)
<1>1. PICK g : /\ Disks(g, w.log) /\ g[n] = w.disk
               /\ \A k \in 0..n : Held(g[k], f, q)
               /\ \A k \in 1..n : TornFine(g[k - 1], w.log[k], f, q)
  BY DEF Logged
<1>2. w.log \in Seq(EntriesAt(OnDisk)) /\ n \in Nat /\ w.log \in Seq(Entries)
  <2>1. w.log \in Seq(EntriesAt(OnDisk)) BY StateIs DEF Counts
  <2>2. w.log \in [1..n -> EntriesAt(OnDisk)] /\ n \in Nat BY <2>1, LenProperties
  <2>3. w.log \in [1..n -> Entries] BY <2>2 DEF Entries
  <2> QED BY <2>1, <2>2, <2>3, SeqDef
<1>3. /\ all \in Seq(Entries) /\ Len(all) = n + 1 /\ all[n + 1] = e
      /\ \A k \in 1..n : all[k] = w.log[k]
  BY <1>2, AppendProperties
<1> HIDE DEF all
<1>4. PICK u : /\ Disks(u, all)
               /\ \A k \in 0..Len(all) :
                    /\ Survivor(all, k, 0) = u[k]
                    /\ \A t \in Sectors : t # 0 =>
                         Survivor(all, k, t) = Torn(u[k], all[k + 1].at, all[k + 1].data, t)
  BY <1>3, SurvivorIs
<1> HIDE DEF n
<1> DEFINE P == {k \in Nat : k <= n => u[k] = g[k]}
<1>5. 0 \in P BY <1>1, <1>4 DEF Disks
<1>6. ASSUME NEW k \in P, k < n PROVE k + 1 \in P
  <2>1. k \in Nat /\ k + 1 \in 1..n /\ k + 1 \in 1..(n + 1) /\ (k + 1) - 1 = k /\ u[k] = g[k]
    BY <1>2, <1>6
  <2>2. u[k + 1] = Apply(u[k], all[k + 1]) BY <1>3, <1>4, <2>1 DEF Disks
  <2>3. g[k + 1] = Apply(g[k], w.log[k + 1]) BY <1>1, <2>1 DEF Disks, n
  <2> QED BY <1>3, <2>1, <2>2, <2>3
<1>7. P \in SUBSET Nat OBVIOUS
<1> HIDE DEF P
<1>8. 0..n \subseteq P BY <1>2, <1>5, <1>6, <1>7, CountingUp
<1>9. \A k \in 0..n : u[k] = g[k] /\ k \in 0..Len(all) BY <1>2, <1>3, <1>8 DEF P
<1>10. n \in 0..n /\ \A k \in 0..(Len(all) - 1) : k \in 0..n BY <1>2, <1>3
<1>11. Survivor(all, n, 0) = w.disk BY <1>1, <1>4, <1>9, <1>10
<1>12. ASSUME NEW k \in 0..n, NEW t \in Sectors, t > 0 => all[k + 1].part = "block"
       PROVE  Held(Survivor(all, k, t), f, q)
  <2>1. CASE t = 0 BY <1>1, <1>4, <1>9, <2>1
  <2>2. CASE t # 0
    <3>1. t > 0 BY <2>2, SizesAre DEF Sectors
    <3>2. k # n BY <1>3, <1>12, <3>1
    <3>3. k + 1 \in 1..n /\ (k + 1) - 1 = k BY <1>2, <3>2
    <3>4. TornFine(g[(k + 1) - 1], w.log[k + 1], f, q) BY <1>1, <3>3
    <3>5. all[k + 1] = w.log[k + 1] BY <1>3, <3>3
    <3>6. Held(Torn(g[k], all[k + 1].at, all[k + 1].data, t), f, q)
      BY <1>12, <3>1, <3>3, <3>4, <3>5 DEF TornFine
    <3> QED BY <1>4, <1>9, <2>2, <3>6
  <2> QED BY <2>1, <2>2
<1> QED BY <1>10, <1>11, <1>12 DEF all, n

\* The inode is written: the disk has the indices that the write has.
LEMMA EndOwned ==
  ASSUME NEW f \in Files, NEW I, NEW w, Fine(w, f, I), NEW i, i.blocks = w.blocks, NEW d \in Disk,
         d.n_blocks = w.n_blocks, d.block = w.disk.block, d.inode = [I EXCEPT ![f] = i]
  PROVE  OwnedDisk(d) /\ RootsOf(d.inode) = RootsWith(I, f, w.blocks)
<1>1. I \in [Files -> Inode] /\ w.n_blocks >= 1 BY FineIs
<1>2. RootsOf(d.inode) = RootsWith(I, f, w.blocks)
  <2>1. \A g \in Files : d.inode[g].blocks = IF g = f THEN w.blocks ELSE I[g].blocks BY <1>1
  <2> QED BY <2>1 DEF RootsOf, RootsWith
<1> QED BY <1>1, <1>2 DEF OwnedDisk, Fine

OwnInv == IInv /\ inode = disk.inode /\ n_blocks = disk.n_blocks /\ OwnedDisk(disk)

LEMMA InitOwned ==
  ASSUME Init
  PROVE  /\ OwnedDisk(disk)
         /\ \E f \in Files, size \in {0, OldSize} :
              /\ \A g \in Files : disk.inode[g].size = IF g = f THEN size ELSE 0
              /\ \A j \in 0..(OldCount(size) - 1) : Root(j) # TRIPLE_INDIRECT_INDEX =>
                   Led(disk.block, RootsOf(disk.inode), f, j)
<1>1. PICK boot \in Block, f \in Files, size \in {0, OldSize} : \E p :
           LET d == Blank(boot)
               count == OldCount(size)
               v == p[count]
           IN /\ Passes(p, Start(d, f), Old(size), count) /\ count \in Nat
              /\ \A k \in 0..count : p[k] \in States(OnDisk)
              /\ v.disk.inode = d.inode /\ disk \in Disk
              /\ disk = [n_blocks |-> v.n_blocks, block |-> v.disk.block,
                         inode |-> [d.inode EXCEPT ![f] = [size |-> size, blocks |-> v.blocks]]]
  BY InitIs
<1> DEFINE d == Blank(boot)
           count == OldCount(size)
<1>2. PICK p :
        /\ Passes(p, Start(d, f), Old(size), count) /\ count \in Nat
        /\ \A k \in 0..count : p[k] \in States(OnDisk)
        /\ disk \in Disk
        /\ disk = [n_blocks |-> p[count].n_blocks, block |-> p[count].disk.block,
                   inode |-> [d.inode EXCEPT ![f] = [size |-> size, blocks |-> p[count].blocks]]]
  BY <1>1
<1>3. /\ d \in Disk /\ d.n_blocks = 1 /\ \A g \in Files : d.inode[g].size = 0
      /\ \A g \in Files : d.inode[g].blocks = [b \in 0..TRIPLE_INDIRECT_INDEX |-> 0]
      /\ \A b \in 1..MaxBlock : d.block[b] = Zeros
  BY BlankIs DEF Zeros
<1> HIDE DEF d, count
<1>4. Fine(Start(d, f), f, d.inode)
  <2> DEFINE w == Start(d, f)
             root == RootsWith(d.inode, f, w.blocks)
  <2>1. w.blocks = d.inode[f].blocks /\ w.n_blocks = 1 /\ w.disk = d BY <1>3 DEF Start
  <2>2. p[0] = w /\ 0 \in 0..count BY <1>2 DEF Passes
  <2>3. w \in States(OnDisk) BY <1>2, <2>2
  <2> HIDE DEF w
  <2>4. \A g \in Files : \A r \in 0..TRIPLE_INDIRECT_INDEX : root[g][r] = 0
    <3>1. \A g \in Files : root[g] = d.inode[g].blocks BY <2>1 DEF RootsWith
    <3> HIDE DEF root
    <3>2. \A g \in Files : root[g] = [b \in 0..TRIPLE_INDIRECT_INDEX |-> 0] BY <1>3, <3>1
    <3> QED BY <3>2
  <2> HIDE DEF root
  <2>5. 0..DOUBLE \subseteq 0..TRIPLE_INDIRECT_INDEX /\ {SINGLE, DOUBLE} \subseteq 0..DOUBLE
    BY IndicesAre
  <2>6. \A owner : Owner(owner, d.block, root, 1)
    <3>1. \A g \in Files : \A r \in 0..DOUBLE : root[g][r] = 0 BY <2>4, <2>5
    <3> QED BY <1>3, <2>5, <3>1 DEF Owner, Owns
  <2>7. \E owner : Owner(owner, w.disk.block, root, w.n_blocks) BY <2>1, <2>6
  <2>8. w.disk.n_blocks = w.n_blocks /\ w.n_blocks >= 1 BY <1>3, <2>1
  <2>9. \A r \in 0..DOUBLE : d.inode[f].blocks[r] \in {0, w.blocks[r]} BY <2>1
  <2> QED BY <2>1, <2>3, <2>7, <2>8, <2>9 DEF Fine, root, w
<1>5. \A k \in 1..count : Part(Old(size), k) \in Block
  <2>1. size \in Nat BY SizesAre
  <2> QED BY <2>1, OldIs DEF count
<1>6. Old(size).range_low \in Nat BY DEF Old
<1> DEFINE q == Parts(Old(size), count)
<1>7. /\ Keeps(Start(d, f), p[count], f, d.inode, q)
      /\ \A j \in 0..(count - 1) : Finds(p[count], f, d.inode, j, q)
  <2>1. First(Old(size)) = 0 BY SizesAre DEF First, Old
  <2>2. DOMAIN q = 0..(count - 1)
    <3>1. DOMAIN q = 0..(0 + count - 1) BY <2>1 DEF Parts
    <3> QED BY <1>2, <3>1
  <2> HIDE DEF q
  <2>3. /\ Keeps(Start(d, f), p[count], f, d.inode, q)
        /\ \A j \in DOMAIN q : Finds(p[count], f, d.inode, j, q)
    BY <1>2, <1>4, <1>5, <1>6, PassesKeep DEF q
  <2> QED BY <2>2, <2>3
<1> HIDE DEF q
<1>8. OwnedDisk(disk) /\ RootsOf(disk.inode) = RootsWith(d.inode, f, p[count].blocks)
  <2> DEFINE i == [size |-> size, blocks |-> p[count].blocks]
  <2>1. i.blocks = p[count].blocks OBVIOUS
  <2>2. disk.inode = [d.inode EXCEPT ![f] = i] /\ disk.n_blocks = p[count].n_blocks
        /\ disk.block = p[count].disk.block
    BY <1>2
  <2> HIDE DEF i
  <2> QED BY <1>2, <1>7, <2>1, <2>2, EndOwned DEF Keeps
<1>9. \A g \in Files : disk.inode[g].size = IF g = f THEN size ELSE 0
  <2>1. d.inode \in [Files -> Inode] BY <1>3 DEF Disk
  <2> DEFINE i == [size |-> size, blocks |-> p[count].blocks]
  <2>2. i.size = size OBVIOUS
  <2>3. disk.inode = [d.inode EXCEPT ![f] = i] BY <1>2
  <2> HIDE DEF i
  <2> QED BY <1>3, <2>1, <2>2, <2>3
<1>10. \A j \in 0..(count - 1) : Root(j) # TRIPLE_INDIRECT_INDEX =>
         Led(disk.block, RootsOf(disk.inode), f, j)
  <2>1. disk.block = p[count].disk.block BY <1>2
  <2> QED BY <1>7, <1>8, <2>1 DEF Finds, Filed, Led
<1> QED BY <1>8, <1>9, <1>10 DEF count

LEMMA InitOwn == Init => OwnInv
BY InitOwned, InitInv DEF OwnInv, Init

\* What a write that returned leaves: file f has the blocks that it wrote.
Grew(d, f, size, q) ==
  /\ OwnedDisk(d) /\ Kept(disk.block, RootsOf(disk.inode), d.block, RootsOf(d.inode), f, q)
  /\ \E blocks : d.inode = [disk.inode EXCEPT ![f] = [size |-> size, blocks |-> blocks]]
  /\ \A n \in DOMAIN q : Root(n) # TRIPLE_INDIRECT_INDEX =>
       Filed(d.block, RootsOf(d.inode), f, n, q)

\* The handles behind it: h has the cache it wrote from, the others of f are stale.
Stirred(h, new) ==
  handle' = [g \in Handles |->
    IF g = h THEN new
    ELSE IF g \in Open(handle[h].file) THEN [handle[g] EXCEPT !.stale = TRUE] ELSE handle[g]]

LEMMA WriteOwned ==
  ASSUME OwnInv, NEW h \in Handles, NEW n \in Requests, NEW v \in Data, fs_write(h, n, v)
  PROVE  LET f == handle[h].file
             size == Greatest(inode[f].size, handle[h].position + n)
             new == Patched(Filled(inode[f], handle[h], n), n, v)
             q == Parts(new, Count(size))
         IN \/ \E d : Boot(d) /\ Held(d, f, q)
            \/ /\ inode' = disk'.inode /\ n_blocks' = disk'.n_blocks
               /\ \E d : disk' = d /\ Grew(d, f, size, q)
               /\ Stirred(h, new)
<1>1. IInv /\ inode = disk.inode /\ n_blocks = disk.n_blocks /\ OwnedDisk(disk) BY DEF OwnInv
<1> DEFINE f == handle[h].file
           done == Written(h, n, v)
<1>2. /\ MayWrite(h, n) /\ Meets(inode[f], handle[h], n) = "served"
      /\ done.n_blocks <= MaxBlock + 1 /\ (Returns(h, done) \/ PowerFailsAmid(done.log))
  BY DEF fs_write
<1>3. PICK p : Writing(p, h, n, v) BY <1>1, <1>2, WrittenIs
<1> DEFINE i == inode[f]
           new == Patched(Filled(i, handle[h], n), n, v)
           size == Greatest(i.size, handle[h].position + n)
           count == Count(size)
           written == [size |-> size, blocks |-> p[count].blocks]
           e == InodeEntry(f, written)
           w == p[count]
<1>4. /\ Passes(p, Fresh(i), new, count) /\ count \in 0..BUFFER_SIZE_BLOCKS
      /\ \A k \in 0..count : p[k] \in States(OnDisk)
      /\ new \in FileData /\ new.data \in Buffers /\ written \in Inode
      /\ done = [hd |-> new, n_blocks |-> w.n_blocks, inode |-> written,
                 log |-> Append(w.log, e)]
  BY <1>3 DEF Writing
<1>5. f \in Files BY <1>1, <1>2, HandleIs DEF MayWrite
<1>6. e \in Entries /\ e.part # "block" BY <1>4, <1>5 DEF Entries, InodeEntry
<1>7. written.blocks = w.blocks OBVIOUS
<1>8. e = InodeEntry(f, written) OBVIOUS
<1>9. i = disk.inode[f] BY <1>1
<1> HIDE DEF new, size, count, written, e
<1>10. done.hd = new BY <1>4
<1>11. /\ done.n_blocks = w.n_blocks /\ done.inode = written /\ done.log = Append(w.log, e)
      /\ w \in States(OnDisk) /\ count \in Nat
  BY <1>4, SizesAre
<1>12. disk \in Disk BY <1>1 DEF OwnedDisk
<1>13. Fresh(i) \in States(OnDisk) /\ Fresh(i) = p[0]
  <2>1. 0 \in 0..count /\ p[0] = Fresh(i) BY <1>4, <1>11 DEF Passes
  <2> QED BY <1>4, <2>1
<1> HIDE DEF done, f, i
<1>14. Fine(Fresh(i), f, disk.inode)
  <2> DEFINE u == Fresh(i)
  <2>1. u.blocks = i.blocks /\ u.n_blocks = n_blocks /\ u.disk = disk BY DEF Fresh
  <2> HIDE DEF u
  <2>2. RootsWith(disk.inode, f, u.blocks) = RootsOf(disk.inode)
    BY <1>9, <2>1 DEF RootsWith, RootsOf
  <2>3. n_blocks >= 1 BY <1>1 DEF OwnedDisk
  <2>4. \E owner : Owner(owner, u.disk.block, RootsWith(disk.inode, f, u.blocks), u.n_blocks)
    BY <1>1, <2>1, <2>2 DEF OwnedDisk
  <2>5. \A r \in 0..DOUBLE : disk.inode[f].blocks[r] \in {0, u.blocks[r]} BY <1>9, <2>1
  <2> QED BY <1>1, <1>13, <2>1, <2>3, <2>4, <2>5 DEF Fine, u
<1> DEFINE q == Parts(new, count)
<1> HIDE DEF q
<1>15. Logged(Fresh(i), f, q)
  <2> DEFINE g == [k \in 0..0 |-> disk]
  <2>1. Fresh(i).log = <<>> /\ Fresh(i).disk = disk BY DEF Fresh
  <2>2. Disks(g, <<>>) /\ g[0] = disk /\ Len(<<>>) = 0 BY <1>12 DEF Disks
  <2>3. Held(disk, f, q) BY <1>1 DEF Held, Kept
  <2> QED BY <2>1, <2>2, <2>3 DEF Logged
<1>16. \A k \in 1..count : Part(new, k) \in Block BY <1>4, PartIs, SizesAre
<1>17. new.range_low \in Nat BY <1>4, SizesAre DEF FileData
<1>18. /\ Keeps(Fresh(i), w, f, disk.inode, q)
       /\ \A j \in DOMAIN q : Finds(w, f, disk.inode, j, q)
  BY <1>4, <1>5, <1>11, <1>14, <1>16, <1>17, PassesKeep DEF q
<1> HIDE DEF w
<1>19. Fine(w, f, disk.inode) /\ Grown(Fresh(i), w, f, disk.inode, q) /\ Logged(w, f, q)
  BY <1>15, <1>18 DEF Keeps
<1> DEFINE all == Append(w.log, e)
<1>20. /\ Survivor(all, Len(w.log), 0) = w.disk
       /\ \A k \in 0..(Len(all) - 1) : \A t \in Sectors :
            (t > 0 => all[k + 1].part = "block") => Held(Survivor(all, k, t), f, q)
  BY <1>6, <1>11, <1>12, <1>19, CutOwned
<1>21. CASE PowerFailsAmid(done.log)
  <2>1. done.log = all BY <1>11
  <2> HIDE DEF all
  <2>2. PICK k \in 0..(Len(all) - 1), t \in Sectors :
          /\ t > 0 => all[k + 1].part = "block"
          /\ Boot(Survivor(all, k, t))
    BY <1>21, <2>1 DEF PowerFailsAmid
  <2>3. Boot(Survivor(all, k, t)) /\ Held(Survivor(all, k, t), f, q) BY <1>20, <2>2
  <2> QED BY <2>3 DEF q, count, new, size, i, f
<1>22. CASE Returns(h, done)
  <2> DEFINE d == Survivor(all, Len(all), 0)
  <2>1. /\ disk' = d /\ n_blocks' = w.n_blocks /\ inode' = [inode EXCEPT ![f] = written]
    BY <1>11, <1>22 DEF Returns, f
  <2>2. w.log \in Seq(EntriesAt(OnDisk)) BY <1>11, StateIs DEF Counts
  <2>3. /\ d \in Disk /\ d.inode = [disk.inode EXCEPT ![f] = written]
        /\ d.block = Survivor(all, Len(w.log), 0).block
        /\ d.n_blocks = Survivor(all, Len(w.log), 0).n_blocks
    BY <1>4, <1>5, <1>8, <1>12, <2>2, WholeType
  <2> HIDE DEF d, all
  <2>4. d.block = w.disk.block /\ d.n_blocks = w.n_blocks
    BY <1>20, <2>3, <1>19 DEF Fine
  <2>5. OwnedDisk(d) /\ RootsOf(d.inode) = RootsWith(disk.inode, f, w.blocks)
    BY <1>5, <1>7, <1>19, <2>3, <2>4, EndOwned
  <2>6. inode' = disk'.inode /\ n_blocks' = disk'.n_blocks BY <1>1, <2>1, <2>3, <2>4
  <2>7. Kept(disk.block, RootsOf(disk.inode), d.block, RootsOf(d.inode), f, q)
    <3>1. Fresh(i).disk = disk /\ RootsWith(disk.inode, f, Fresh(i).blocks) = RootsOf(disk.inode)
      BY <1>9, <1>1 DEF Fresh, RootsWith, RootsOf
    <3> QED BY <1>19, <2>4, <2>5, <3>1 DEF Grown
  <2>8. \A j \in DOMAIN q : Root(j) # TRIPLE_INDIRECT_INDEX =>
          Filed(d.block, RootsOf(d.inode), f, j, q)
    BY <1>18, <2>4, <2>5 DEF Finds
  <2>9. Grew(d, f, size, q) BY <2>3, <2>5, <2>7, <2>8 DEF Grew, written
  <2>10. Stirred(h, new) BY <1>10, <1>22 DEF Returns, Stirred
  <2> QED BY <2>1, <2>6, <2>9, <2>10 DEF q, count, new, size, i, f
<1> QED BY <1>2, <1>21, <1>22 DEF f, done

LEMMA NextOwn == OwnInv /\ [Next]_vars => OwnInv'
<1> SUFFICES ASSUME OwnInv, [Next]_vars PROVE OwnInv' OBVIOUS
<1>1. IInv' BY NextInv DEF OwnInv
<1>2. IInv /\ inode = disk.inode /\ n_blocks = disk.n_blocks /\ OwnedDisk(disk) BY DEF OwnInv
<1>3. ASSUME NEW d, Boot(d), OwnedDisk(d) PROVE OwnInv'
  BY <1>1, <1>3 DEF Boot, OwnInv, OwnedDisk
<1>4. CASE PowerFails BY <1>2, <1>3, <1>4 DEF PowerFails
<1>5. CASE UNCHANGED <<disk, n_blocks, inode>>
  BY <1>1, <1>2, <1>5 DEF OwnInv, OwnedDisk, Owner, Owns
<1>6. ASSUME NEW h \in Handles, NEW n \in Requests, NEW v \in Data, fs_write(h, n, v)
      PROVE  OwnInv'
  BY <1>1, <1>2, <1>3, <1>6, WriteOwned DEF Held, Grew, OwnInv, OwnedDisk
<1>7. CASE \E h \in Handles, n \in Requests, v \in Data : fs_write(h, n, v) BY <1>6, <1>7
<1>8. CASE UNCHANGED vars BY <1>5, <1>8 DEF vars
<1>9. CASE \E h \in Handles, f \in Files : fs_open(h, f) BY <1>5, <1>9 DEF fs_open
<1>10. CASE \E h \in Handles : fs_close(h) BY <1>5, <1>10 DEF fs_close
<1>11. ASSUME NEW h \in Handles, NEW n \in Requests, fs_read(h, n)
       PROVE  UNCHANGED <<disk, n_blocks, inode>>
  <2> DEFINE i == inode[handle[h].file]
             size == Least(n, i.size - handle[h].position)
             piece == Least(size, BufferSize)
             last == Reading(i, handle[h], size, piece)[size \div piece]
  <2>1. \/ Fault(last.is, size) \/ Fault("underflow", size)
        \/ UNCHANGED <<disk, n_blocks, inode, dirty, writes, fault>>
    BY <1>11 DEF fs_read, Served, Reading
  <2> QED BY <2>1 DEF Fault
<1>12. CASE \E h \in Handles, n \in Requests : fs_read(h, n) BY <1>5, <1>12, <1>11
<1>13. CASE \E h \in Handles, n \in Requests : WriteRefused(h, n) \/ WriteFaults(h, n)
  BY <1>5, <1>13 DEF WriteRefused, WriteFaults, Fault
<1>14. CASE \E h \in Handles, offset \in Offsets, whence \in {"VFS_BEG", "VFS_CUR", "VFS_END"} :
             fs_seek(h, offset, whence)
  BY <1>5, <1>14 DEF fs_seek
<1> QED BY <1>4, <1>7, <1>8, <1>9, <1>10, <1>12, <1>13, <1>14 DEF Next

LEMMA AppendTwo ==
  ASSUME NEW S, NEW a \in S, NEW k \in S
  PROVE  Append(<<a>>, k) = <<a, k>>
<1> DEFINE l == Append(<<a>>, k)
           m == <<a, k>>
<1>1. <<a>> \in Seq(S) /\ Len(<<a>>) = 1 /\ <<a>>[1] = a OBVIOUS
<1>2. l \in Seq(S) /\ Len(l) = 2 /\ l[1] = a /\ l[2] = k BY <1>1, AppendProperties
<1>3. m \in Seq(S) /\ Len(m) = 2 /\ m[1] = a /\ m[2] = k OBVIOUS
<1> HIDE DEF l, m
<1>4. \A i \in 1..2 : l[i] = m[i] BY <1>2, <1>3
<1>5. l = m BY <1>2, <1>3, <1>4, SeqEqual
<1> QED BY <1>5 DEF l, m

\* The places that Pointers collects, with what they name.
LivePlace(x, block, root) ==
  \/ \E f \in Files : \E r \in 0..DOUBLE :
       x = P0(f, r) /\ Target(x) = root[f][r]
  \/ \E f \in Files : \E r \in {SINGLE, DOUBLE} : \E a \in Sectors :
       /\ x = P1(f, r, a) /\ root[f][r] # 0 /\ Target(x) = V1(block, root, f, r, a)
  \/ \E f \in Files : \E a, b \in Sectors :
       /\ x = P2(f, a, b) /\ root[f][DOUBLE] # 0 /\ V1(block, root, f, DOUBLE, a) # 0
       /\ Target(x) = V2(block, root, f, a, b)

LEMMA TargetIs ==
  ASSUME NEW owner, disk \in Disk, NEW root, root = RootsOf(disk.inode),
         Owner(owner, disk.block, root, disk.n_blocks)
  PROVE  /\ \A f \in Files : \A r \in 0..DOUBLE : Target(P0(f, r)) = root[f][r]
         /\ \A f \in Files : \A r \in {SINGLE, DOUBLE} : \A a \in Sectors : root[f][r] # 0 =>
              Target(P1(f, r, a)) = V1(disk.block, root, f, r, a)
         /\ \A f \in Files : \A a, b \in Sectors :
              root[f][DOUBLE] # 0 /\ V1(disk.block, root, f, DOUBLE, a) # 0 =>
                Target(P2(f, a, b)) = V2(disk.block, root, f, a, b)
<1> DEFINE block == disk.block
           n == disk.n_blocks
<1>1. n \in 0..(MaxBlock + 1) /\ DOMAIN block = 0..MaxBlock BY DEF Disk
<1>2. OwnedWay(owner, block, root, n) BY <1>1, OwnerWay
<1>3. \A b \in 0..MaxBlock : ReadBlock(disk, b) = block[b] BY <1>1 DEF ReadBlock
<1>4. \A f \in Files : disk.inode[f].blocks = root[f] BY DEF RootsOf
<1> HIDE DEF block, n
<1>5. ASSUME NEW f \in Files, NEW r \in 0..DOUBLE PROVE Target(P0(f, r)) = root[f][r]
  <2>1. P0(f, r).file = f /\ P0(f, r).root = r /\ P0(f, r).path = <<>> BY DEF P0
  <2> QED BY <1>4, <2>1, FollowIs DEF Target
<1>6. ASSUME NEW f \in Files, NEW r \in {SINGLE, DOUBLE}, NEW a \in Sectors, root[f][r] # 0
      PROVE  Target(P1(f, r, a)) = V1(block, root, f, r, a)
  <2>1. P1(f, r, a).file = f /\ P1(f, r, a).root = r /\ P1(f, r, a).path = <<a>> BY DEF P1
  <2>2. Target(P1(f, r, a)) = ReadBlock(disk, root[f][r])[a]
    BY <1>4, <2>1, FollowIs DEF Target
  <2>3. root[f][r] \in 0..MaxBlock BY <1>2, <1>6 DEF OwnedWay
  <2> QED BY <1>3, <2>2, <2>3 DEF V1
<1>7. ASSUME NEW f \in Files, NEW a \in Sectors, NEW b \in Sectors, root[f][DOUBLE] # 0,
             V1(block, root, f, DOUBLE, a) # 0
      PROVE  Target(P2(f, a, b)) = V2(block, root, f, a, b)
  <2>1. P2(f, a, b).file = f /\ P2(f, a, b).root = DOUBLE /\ P2(f, a, b).path = <<a, b>>
    BY DEF P2
  <2>2. Target(P2(f, a, b)) = ReadBlock(disk, ReadBlock(disk, root[f][DOUBLE])[a])[b]
    BY <1>4, <2>1, FollowIs DEF Target
  <2>3. root[f][DOUBLE] \in 0..MaxBlock /\ V1(block, root, f, DOUBLE, a) \in 0..MaxBlock
    BY <1>2, <1>7 DEF OwnedWay
  <2>4. ReadBlock(disk, root[f][DOUBLE])[a] = V1(block, root, f, DOUBLE, a)
    BY <1>3, <2>3 DEF V1
  <2> QED BY <1>3, <2>2, <2>3, <2>4 DEF V2
<1> QED BY <1>5, <1>6, <1>7 DEF block

LEMMA LiveIs ==
  ASSUME NEW owner, disk \in Disk, NEW root, root = RootsOf(disk.inode),
         Owner(owner, disk.block, root, disk.n_blocks), NEW x \in Pointers
  PROVE  LivePlace(x, disk.block, root) /\ Target(x) # 0
<1> DEFINE roots == Live([file : Files, root : 0..DOUBLE_INDIRECT_INDEX, path : {<<>>}])
           ones == Below(roots, SINGLE_INDIRECT_INDEX)
           twos == Below(ones, DOUBLE_INDIRECT_INDEX)
           block == disk.block
<1>1. x \in roots \/ x \in ones \/ x \in twos BY DEF Pointers
<1>2. DOUBLE = DOUBLE_INDIRECT_INDEX /\ SINGLE = SINGLE_INDIRECT_INDEX BY DEF SINGLE, DOUBLE
<1> HIDE DEF block
<1>3. \A f \in Files : \A r \in 0..DOUBLE : Target(P0(f, r)) = root[f][r] BY TargetIs
<1>4. \A f \in Files : \A r \in {SINGLE, DOUBLE} : \A a \in Sectors : root[f][r] # 0 =>
        Target(P1(f, r, a)) = V1(block, root, f, r, a)
  BY TargetIs DEF block
<1>5. \A f \in Files : \A a, b \in Sectors :
        root[f][DOUBLE] # 0 /\ V1(block, root, f, DOUBLE, a) # 0 =>
          Target(P2(f, a, b)) = V2(block, root, f, a, b)
  BY TargetIs DEF block
<1>6. ASSUME NEW y \in roots
      PROVE  \E f \in Files : \E r \in 0..DOUBLE : y = P0(f, r) /\ Target(y) # 0
  <2>1. y \in [file : Files, root : 0..DOUBLE_INDIRECT_INDEX, path : {<<>>}] /\ Target(y) # 0
    BY DEF Live
  <2>2. y = P0(y.file, y.root) /\ y.file \in Files /\ y.root \in 0..DOUBLE
    BY <1>2, <2>1 DEF P0
  <2> QED BY <2>1, <2>2
<1>7. ASSUME NEW xs, NEW r, NEW y \in Below(xs, r)
       PROVE  /\ Target(y) # 0
              /\ \E z \in xs : \E k \in Sectors : z.root >= r /\ y = [z EXCEPT !.path = Append(@, k)]
  BY DEF Below, Live
<1>8. ASSUME NEW y \in ones
       PROVE  \E f \in Files : \E r \in {SINGLE, DOUBLE} : \E a \in Sectors :
                y = P1(f, r, a) /\ root[f][r] # 0 /\ Target(y) # 0
  <2> HIDE DEF roots
  <2>1. PICK z \in roots, k \in Sectors :
          z.root >= SINGLE /\ y = [z EXCEPT !.path = Append(@, k)]
    BY <1>2, <1>7
  <2>2. PICK f \in Files, r \in 0..DOUBLE : z = P0(f, r) /\ Target(z) # 0 BY <1>6
  <2>3. r \in {SINGLE, DOUBLE}
    <3>1. z.root = r BY <2>2 DEF P0
    <3> QED BY <2>1, <3>1, IndicesAre
  <2>4. y = P1(f, r, k)
    <3>1. Append(<<>>, k) = <<k>> OBVIOUS
    <3>2. z.path = <<>> BY <2>2 DEF P0
    <3>3. y = [z EXCEPT !.path = <<k>>] BY <2>1, <3>1, <3>2
    <3> QED BY <2>2, <3>3 DEF P0, P1
  <2>5. root[f][r] # 0 BY <1>3, <2>2
  <2>6. Target(y) # 0 BY <1>7
  <2> QED BY <2>3, <2>4, <2>5, <2>6
<1>9. ASSUME NEW y \in twos
       PROVE  \E f \in Files : \E a, b \in Sectors :
                /\ y = P2(f, a, b) /\ root[f][DOUBLE] # 0 /\ V1(block, root, f, DOUBLE, a) # 0
                /\ Target(y) # 0
  <2> HIDE DEF ones
  <2>1. PICK z \in ones, k \in Sectors :
          z.root >= DOUBLE /\ y = [z EXCEPT !.path = Append(@, k)]
    BY <1>2, <1>7
  <2>2. PICK f \in Files, r \in {SINGLE, DOUBLE}, a \in Sectors :
          z = P1(f, r, a) /\ root[f][r] # 0 /\ Target(z) # 0
    BY <1>8
  <2>3. r = DOUBLE
    <3>1. z.root = r BY <2>2 DEF P1
    <3> QED BY <2>1, <3>1, IndicesAre
  <2>4. y = P2(f, a, k)
    <3>1. Append(<<a>>, k) = <<a, k>> BY AppendTwo
    <3>2. z.path = <<a>> BY <2>2 DEF P1
    <3>3. y = [z EXCEPT !.path = <<a, k>>] BY <2>1, <3>1, <3>2
    <3> QED BY <2>2, <2>3, <3>3 DEF P1, P2
  <2>5. V1(block, root, f, DOUBLE, a) # 0 BY <1>4, <2>2, <2>3
  <2>6. Target(y) # 0 BY <1>7
  <2> QED BY <2>2, <2>3, <2>4, <2>5, <2>6
<1>10. CASE x \in roots BY <1>3, <1>6, <1>10 DEF LivePlace
<1> HIDE DEF roots, ones, twos
<1>11. CASE x \in ones
  <2>1. PICK f \in Files, r \in {SINGLE, DOUBLE}, a \in Sectors :
          x = P1(f, r, a) /\ root[f][r] # 0 /\ Target(x) # 0
    BY <1>8, <1>11
  <2>2. Target(x) = V1(block, root, f, r, a) BY <1>4, <2>1
  <2> QED BY <2>1, <2>2 DEF LivePlace, block
<1>12. CASE x \in twos
  <2>1. PICK f \in Files, a \in Sectors, b \in Sectors :
          /\ x = P2(f, a, b) /\ root[f][DOUBLE] # 0 /\ V1(block, root, f, DOUBLE, a) # 0
          /\ Target(x) # 0
    BY <1>9, <1>12
  <2>2. Target(x) = V2(block, root, f, a, b) BY <1>5, <2>1
  <2> QED BY <2>1, <2>2 DEF LivePlace, block
<1> QED BY <1>1, <1>10, <1>11, <1>12

LEMMA OneOwner ==
  ASSUME OwnedDisk(disk)
  PROVE  BlocksHaveOneOwner
<1> DEFINE pointers == Pointers
           targets == {Target(x) : x \in pointers}
           n == disk.n_blocks
<1>1. PICK owner : Owner(owner, disk.block, RootsOf(disk.inode), n) BY DEF OwnedDisk
<1>2. disk \in Disk /\ n \in Nat BY SizesAre DEF OwnedDisk, Disk
<1> HIDE DEF n
<1>3. ASSUME NEW x \in pointers PROVE Target(x) \in 1..(n - 1) /\ owner[Target(x)] = x
  <2> DEFINE root == RootsOf(disk.inode)
  <2>1. LivePlace(x, disk.block, root) /\ Target(x) # 0 BY <1>1, <1>2, LiveIs DEF n
  <2> HIDE DEF root
  <2>2. Owner(owner, disk.block, root, n) BY <1>1 DEF root
  <2>3. Owns(owner, n, Target(x), x) BY <2>1, <2>2 DEF LivePlace, Owner
  <2> QED BY <2>1, <2>3 DEF Owns
<1> HIDE DEF pointers
<1>4. targets \subseteq 1..(n - 1) BY <1>3
<1>5. IsFiniteSet(targets)
  <2>1. IsFiniteSet(1..(n - 1)) BY <1>2, FS_Interval
  <2> QED BY <1>4, <2>1, FS_Subset
<1> DEFINE g == [b \in targets |-> owner[b]]
<1>6. g \in Bijection(targets, pointers)
  <2>1. g \in [targets -> pointers] BY <1>3
  <2>2. \A x \in pointers : \E b \in targets : g[b] = x BY <1>3
  <2>3. \A b, c \in targets : g[b] = g[c] => b = c BY <1>3
  <2> HIDE DEF g, targets
  <2> QED BY <2>1, <2>2, <2>3 DEF Bijection, Injection, Surjection, IsInjective
<1> HIDE DEF g, targets
<1>7. Cardinality(pointers) = Cardinality(targets) BY <1>5, <1>6, FS_Bijection DEF ExistsBijection
<1> QED BY <1>4, <1>7 DEF BlocksHaveOneOwner, pointers, targets, n

LEMMA InductiveOwn == Spec => []OwnInv
BY InitOwn, NextOwn, PTL DEF Spec

\* Whatever is written and wherever power fails, no block is data or pointers of two places
\* or still to be handed out, on the disk as on what a power failure left
\* (estros-fs.c:79-147, 186-330).
THEOREM OwnersAreOne == Spec => []BlocksHaveOneOwner
<1>1. OwnInv => BlocksHaveOneOwner BY OneOwner DEF OwnInv
<1> QED BY <1>1, InductiveOwn, PTL

-----------------------------------------------------------------------------
(* Files have the blocks that their sizes claim, but for triple-indirect   *)
(* ones, which harddrive_write_blocks drops.                               *)

\* A place that Led finds is one that Pointers collects.
LEMMA LedIs ==
  ASSUME NEW owner, disk \in Disk,
         Owner(owner, disk.block, RootsOf(disk.inode), disk.n_blocks), NEW f \in Files,
         NEW n, Led(disk.block, RootsOf(disk.inode), f, n)
  PROVE  [file |-> f, root |-> Root(n), path |-> Path(n)] \in Pointers
<1> DEFINE root == RootsOf(disk.inode)
           block == disk.block
           x == [file |-> f, root |-> Root(n), path |-> Path(n)]
           roots == Live([file : Files, root : 0..DOUBLE_INDIRECT_INDEX, path : {<<>>}])
           ones == Below(roots, SINGLE_INDIRECT_INDEX)
           twos == Below(ones, DOUBLE_INDIRECT_INDEX)
<1>1. Pointers = roots \cup ones \cup twos BY DEF Pointers
<1>2. /\ \A g \in Files : \A r \in 0..DOUBLE : Target(P0(g, r)) = root[g][r]
      /\ \A g \in Files : \A r \in {SINGLE, DOUBLE} : \A a \in Sectors : root[g][r] # 0 =>
           Target(P1(g, r, a)) = V1(block, root, g, r, a)
      /\ \A g \in Files : \A a, b \in Sectors :
           root[g][DOUBLE] # 0 /\ V1(block, root, g, DOUBLE, a) # 0 =>
             Target(P2(g, a, b)) = V2(block, root, g, a, b)
  BY TargetIs
<1>3. DOUBLE = DOUBLE_INDIRECT_INDEX /\ SINGLE = SINGLE_INDIRECT_INDEX BY DEF SINGLE, DOUBLE
<1>4. PICK word : Names(block, root, f, n, word) BY DEF Led
<1> HIDE DEF root, block
<1>5. SINGLE \in 0..DOUBLE /\ DOUBLE \in 0..DOUBLE /\ DOUBLE >= SINGLE /\ SINGLE >= SINGLE
      /\ DOUBLE >= DOUBLE
  BY IndicesAre
<1>6. ASSUME NEW r \in 0..DOUBLE, root[f][r] # 0 PROVE P0(f, r) \in roots
  <2>1. P0(f, r) \in [file : Files, root : 0..DOUBLE_INDIRECT_INDEX, path : {<<>>}]
    BY <1>3 DEF P0
  <2> QED BY <1>2, <1>6, <2>1 DEF Live
<1>7. ASSUME NEW xs, NEW r, NEW z \in xs, z.root >= r, NEW k \in Sectors,
             Target([z EXCEPT !.path = Append(@, k)]) # 0
      PROVE  [z EXCEPT !.path = Append(@, k)] \in Below(xs, r)
  <2>1. z \in {y \in xs : y.root >= r} BY <1>7
  <2> QED BY <1>7, <2>1 DEF Below, Live
<1> HIDE DEF roots
<1>8. ASSUME NEW r \in {SINGLE, DOUBLE}, NEW a \in Sectors, root[f][r] # 0,
             V1(block, root, f, r, a) # 0
      PROVE  P1(f, r, a) \in ones
  <2>1. P0(f, r) \in roots BY <1>5, <1>6, <1>8
  <2>2. [P0(f, r) EXCEPT !.path = Append(@, a)] = P1(f, r, a)
    <3>1. Append(<<>>, a) = <<a>> OBVIOUS
    <3> QED BY <3>1 DEF P0, P1
  <2>3. P0(f, r).root >= SINGLE_INDIRECT_INDEX BY <1>3, <1>5, <1>8 DEF P0
  <2>4. Target(P1(f, r, a)) # 0 BY <1>2, <1>8
  <2> QED BY <1>7, <2>1, <2>2, <2>3, <2>4
<1> HIDE DEF ones
<1>9. ASSUME NEW a \in Sectors, NEW b \in Sectors, root[f][DOUBLE] # 0,
             V1(block, root, f, DOUBLE, a) # 0, V2(block, root, f, a, b) # 0
      PROVE  P2(f, a, b) \in twos
  <2>1. P1(f, DOUBLE, a) \in ones BY <1>8, <1>9
  <2>2. [P1(f, DOUBLE, a) EXCEPT !.path = Append(@, b)] = P2(f, a, b)
    <3>1. Append(<<a>>, b) = <<a, b>> BY AppendTwo
    <3> QED BY <3>1 DEF P1, P2
  <2>3. P1(f, DOUBLE, a).root >= DOUBLE_INDIRECT_INDEX BY <1>3, <1>5 DEF P1
  <2>4. Target(P2(f, a, b)) # 0 BY <1>2, <1>9
  <2> QED BY <1>7, <2>1, <2>2, <2>3, <2>4
<1> HIDE DEF twos
<1>10. word # 0 BY <1>4 DEF Names
<1>11. CASE Path(n) = <<>> /\ Root(n) \in 0..(SINGLE - 1) /\ word = root[f][Root(n)]
  <2>1. x = P0(f, Root(n)) BY <1>11 DEF P0
  <2>2. Root(n) \in 0..DOUBLE BY <1>11, IndicesAre
  <2> QED BY <1>1, <1>6, <1>10, <1>11, <2>1, <2>2
<1>12. ASSUME NEW a \in Sectors, Path(n) = <<a>> /\ Root(n) = SINGLE,
              root[f][SINGLE] # 0 /\ V1(block, root, f, SINGLE, a) # 0
       PROVE  x \in Pointers
  <2>1. x = P1(f, SINGLE, a) BY <1>12 DEF P1
  <2> QED BY <1>1, <1>8, <1>12, <2>1
<1>13. ASSUME NEW a \in Sectors, NEW b \in Sectors, Path(n) = <<a, b>> /\ Root(n) = DOUBLE,
              root[f][DOUBLE] # 0 /\ V1(block, root, f, DOUBLE, a) # 0,
              V2(block, root, f, a, b) # 0
       PROVE  x \in Pointers
  <2>1. x = P2(f, a, b) BY <1>13 DEF P2
  <2> QED BY <1>1, <1>9, <1>13, <2>1
<1> QED BY <1>4, <1>10, <1>11, <1>12, <1>13 DEF Names

\* The blocks of a size, rounded up.
LEMMA RoundedUp ==
  ASSUME NEW size \in Nat, NEW e \in Nat, e < size
  PROVE  e \div BLOCK_SIZE \in 0..((size + BLOCK_SIZE - 1) \div BLOCK_SIZE - 1)
<1> DEFINE a == size + BLOCK_SIZE - 1
           c == a \div BLOCK_SIZE
           r == a % BLOCK_SIZE
<1>1. a \in Nat BY SizesAre
<1>2. c \in Nat /\ r \in 0..(BLOCK_SIZE - 1) /\ a = BLOCK_SIZE * c + r BY <1>1, SizesAre, Division
<1>3. BLOCK_SIZE * c \in Nat BY <1>2, SizesAre, SMTT(30)
<1> DEFINE m == BLOCK_SIZE * c
<1>4. m \in Nat /\ size + BLOCK_SIZE - 1 = m + r BY <1>2, <1>3
<1> HIDE DEF c, r, m
<1>5. e < m BY <1>2, <1>4, SizesAre
<1>6. BLOCK_SIZE \in Nat \ {0} /\ e < BLOCK_SIZE * c BY <1>5, SizesAre DEF m
<1>7. e \div BLOCK_SIZE \in 0..(c - 1) BY <1>2, <1>6, QuotientBelow
<1> QED BY <1>7 DEF c

\* The part of a file that a buffer holds is in the blocks that a write of it writes.
LEMMA Reached ==
  ASSUME NEW low \in Nat, Aligned(low), NEW p \in Nat, low <= p, p < low + BufferSize,
         NEW size \in Nat, p < size
  PROVE  /\ p \div BLOCK_SIZE \in
              (low \div BLOCK_SIZE)..(low \div BLOCK_SIZE + Count(size) - 1)
         /\ p - low = BLOCK_SIZE * (p \div BLOCK_SIZE - low \div BLOCK_SIZE) + (p % BLOCK_SIZE)
         /\ low \div BLOCK_SIZE \in Nat
<1>1. PICK q \in Nat : low = q * BLOCK_SIZE BY DEF Aligned
<1>2. BLOCK_SIZE \in Nat \ {0} BY SizesAre
<1> DEFINE e == p - low
           d == e \div BLOCK_SIZE
           r == e % BLOCK_SIZE
<1>3. e \in Nat /\ e < BufferSize /\ e < size /\ p = low + e BY SizesAre
<1> HIDE DEF e
<1>4. d \in Nat /\ r \in 0..(BLOCK_SIZE - 1) /\ e = BLOCK_SIZE * d + r BY <1>2, <1>3, Division
<1>5. d \in 0..(Count(size) - 1)
  <2>1. d \in 0..(BUFFER_SIZE_BLOCKS - 1)
    <3>1. BufferSize = BLOCK_SIZE * BUFFER_SIZE_BLOCKS BY SizesAre DEF BufferSize
    <3>2. e < BLOCK_SIZE * BUFFER_SIZE_BLOCKS BY <1>3, <3>1
    <3> QED BY <1>2, <1>3, <3>2, SizesAre, QuotientBelow
  <2>2. d \in 0..((size + BLOCK_SIZE - 1) \div BLOCK_SIZE - 1) BY <1>3, RoundedUp
  <2> QED BY <2>1, <2>2 DEF Count
<1> HIDE DEF d, r
<1>6. p \div BLOCK_SIZE = q + d /\ p % BLOCK_SIZE = r /\ low \div BLOCK_SIZE = q
  <2>1. BLOCK_SIZE * (q + d) = BLOCK_SIZE * q + BLOCK_SIZE * d BY <1>2, <1>4, SMTT(30)
  <2>2. BLOCK_SIZE * q = low BY <1>1, <1>2, SMTT(30)
  <2>3. BLOCK_SIZE * d \in Nat BY <1>2, <1>4, SMTT(30)
  <2>4. p = BLOCK_SIZE * (q + d) + r BY <1>3, <1>4, <2>1, <2>2, <2>3
  <2>5. q + d \in Nat BY <1>4
  <2>6. p \div BLOCK_SIZE = q + d /\ p % BLOCK_SIZE = r BY <1>2, <1>4, <2>4, <2>5, QuotientIs
  <2>7. 0 \in 0..(BLOCK_SIZE - 1) /\ low = BLOCK_SIZE * q + 0 BY <1>2, <2>2
  <2>8. low \div BLOCK_SIZE = q BY <1>2, <2>7, QuotientIs
  <2> QED BY <2>6, <2>8
<1>7. Count(size) \in Nat BY CountFits, SizesAre
<1>8. p \div BLOCK_SIZE \in (low \div BLOCK_SIZE)..(low \div BLOCK_SIZE + Count(size) - 1)
  BY <1>4, <1>5, <1>6, <1>7
<1>9. low \div BLOCK_SIZE \in Nat BY <1>6
<1> DEFINE k == p \div BLOCK_SIZE - low \div BLOCK_SIZE
<1>10. k = d BY <1>4, <1>6
<1>11. p - low = e BY DEF e
<1> HIDE DEF k
<1>12. p - low = BLOCK_SIZE * k + (p % BLOCK_SIZE) BY <1>4, <1>6, <1>10, <1>11, Zenon
<1> QED BY <1>8, <1>9, <1>12 DEF k

\* A block that a write adds to a file is one of those it wrote.
LEMMA Covered ==
  ASSUME NEW low \in Nat, Aligned(low), NEW position \in Nat, low <= position,
         NEW old \in Nat, position <= old, NEW n \in Nat,
         n > 0 => position - low + n <= BufferSize,
         NEW b \in BlocksOf(Greatest(old, position + n))
  PROVE  \/ b \in BlocksOf(old)
         \/ b \in (low \div BLOCK_SIZE)..
                    (low \div BLOCK_SIZE + Count(Greatest(old, position + n)) - 1)
<1> DEFINE size == Greatest(old, position + n)
<1>1. PICK p \in 0..(size - 1) : b = p \div BLOCK_SIZE BY DEF BlocksOf
<1>2. CASE p < old
  <2>1. p \in 0..(old - 1) BY <1>1, <1>2
  <2> QED BY <1>1, <2>1 DEF BlocksOf
<1>3. CASE ~(p < old)
  <2>1. size \in Nat /\ p \in Nat /\ p < size BY <1>1 DEF Greatest
  <2>2. size = position + n /\ n > 0 BY <1>3, <2>1 DEF Greatest
  <2> HIDE DEF size
  <2>3. low <= p /\ p < low + BufferSize BY <1>3, <2>1, <2>2, SizesAre
  <2> QED BY <1>1, <2>1, <2>3, Reached DEF size
<1> QED BY <1>2, <1>3

LEMMA ShorterHasFewer ==
  ASSUME NEW size \in 0..MaxSize
  PROVE  BlocksOf(size) \subseteq BlocksOf(MaxSize)
<1>1. 0..(size - 1) \subseteq 0..(MaxSize - 1) BY SizesAre
<1> QED BY <1>1 DEF BlocksOf

\* Whatever a file has, but for what a soiled one claims, it is led to.
SizedOn(d, files) ==
  \A f \in files : \A b \in BlocksOf(d.inode[f].size) : Led(d.block, RootsOf(d.inode), f, b)
SizedInv == OwnInv /\ SizedOn(disk, Files \ dirty)

\* No file of the model is so long that it needs a triple-indirect block.
NoTriple == \A b \in BlocksOf(MaxSize) : Root(b) # TRIPLE_INDIRECT_INDEX

LEMMA InitSized ==
  ASSUME NoTriple, Init
  PROVE  SizedInv
<1>1. PICK f \in Files, size \in {0, OldSize} :
        /\ \A g \in Files : disk.inode[g].size = IF g = f THEN size ELSE 0
        /\ \A j \in 0..(OldCount(size) - 1) : Root(j) # TRIPLE_INDIRECT_INDEX =>
             Led(disk.block, RootsOf(disk.inode), f, j)
  BY InitOwned
<1>2. OwnInv BY InitOwn
<1>3. ASSUME NEW g \in Files, NEW b \in BlocksOf(disk.inode[g].size)
      PROVE  Led(disk.block, RootsOf(disk.inode), g, b)
  <2>1. PICK p \in 0..(disk.inode[g].size - 1) : b = p \div BLOCK_SIZE BY <1>3 DEF BlocksOf
  <2>2. g = f
    <3>1. CASE disk.inode[g].size = 0
      <4>1. FALSE BY <2>1, <3>1
      <4> QED BY <4>1
    <3> QED BY <1>1, <3>1
  <2>3. disk.inode[g].size = size /\ size \in 0..MaxSize BY <1>1, <2>2, SizesAre
  <2>4. p \in Nat /\ p < size /\ size \in Nat BY <2>1, <2>3
  <2>5. b \in 0..(OldCount(size) - 1) BY <2>1, <2>4, RoundedUp DEF OldCount
  <2>6. b \in BlocksOf(MaxSize) BY <1>3, <2>3, ShorterHasFewer
  <2> QED BY <1>1, <2>2, <2>5, <2>6 DEF NoTriple
<1> QED BY <1>2, <1>3 DEF SizedInv, SizedOn

\* Write n words at hd, a handle that has what it needs in its cache.
Poised(f, hd, n, old, size) ==
  /\ f \in Files /\ n \in Nat /\ old \in 0..MaxSize /\ size \in 0..MaxSize
  /\ size = Greatest(old, hd.position + n)
  /\ hd \in Loose /\ hd.data \in Buffers /\ hd.file = f
  /\ Aligned(hd.range_low) /\ hd.range_low <= hd.position
  /\ hd.range_high = hd.range_low + BufferSize
  /\ n > 0 => hd.position - hd.range_low + n <= BufferSize
  /\ dirty \subseteq dirty' /\ (f \notin dirty' => ~hd.stale /\ hd.position <= old)

LEMMA WriteIs ==
  ASSUME IInv, NEW h \in Handles, NEW n \in Requests, NEW v \in Data, fs_write(h, n, v)
  PROVE  LET f == handle[h].file
             old == inode[f].size
             hd == Filled(inode[f], handle[h], n)
         IN /\ Poised(f, hd, n, old, Greatest(old, handle[h].position + n))
            /\ Slid(hd, handle[h], Misses(handle[h], n))
            /\ handle[h] # Closed /\ handle[h].data \in Buffers
<1> DEFINE f == handle[h].file
           hd == Filled(inode[f], handle[h], n)
           low == hd.range_low
           position == handle[h].position
           old == inode[f].size
           size == Greatest(old, position + n)
<1>1. /\ MayWrite(h, n) /\ Meets(inode[f], handle[h], n) = "served" /\ dirty' = Soiled(h, n)
      /\ disk \in Disk
  BY DEF fs_write, IInv, TypeOK
<1>2. /\ handle[h] # Closed /\ handle[h] \in Loose /\ Ranged(handle[h]) /\ f \in Files
      /\ position \in Nat /\ old \in 0..MaxSize /\ n \in Nat /\ position + n <= MaxSize
  BY <1>1, HandleIs, SizesAre DEF MayWrite, Placed
<1>3. handle[h].data \in Buffers BY <1>1, <1>2, MeetsIs
<1>4. Slid(hd, handle[h], Misses(handle[h], n)) BY <1>1, <1>2, <1>3, FilledIs
<1>5. /\ hd.position = position /\ hd \in Loose /\ hd.data \in Buffers /\ hd.file = f
  BY <1>4 DEF Slid
<1>6. /\ f \notin dirty' => ~hd.stale /\ position <= old
      /\ dirty \subseteq dirty'
  <2>1. dirty' = IF hd.stale \/ hd.position > old THEN dirty \cup {f} ELSE dirty
    BY <1>1 DEF Soiled
  <2> HIDE DEF hd, old, position, f
  <2>2. f \notin dirty' => ~(position > old) /\ ~hd.stale BY <1>5, <2>1
  <2> QED BY <1>2, <2>1, <2>2
<1>7. n > 0 => position - low + n <= BufferSize
  <2>1. handle[h].data # NULL /\ (n > 0 => ~(hd.position - hd.range_low + n > BufferSize))
    BY <1>1 DEF Meets
  <2>2. low \in Nat BY <1>5 DEF Loose
  <2> HIDE DEF hd, position
  <2> QED BY <1>2, <1>5, <2>1, <2>2, SizesAre
<1>8. Aligned(low) /\ low <= position /\ hd.range_high = low + BufferSize
  <2>1. CASE Misses(handle[h], n)
    <3>1. low = Low(handle[h]) /\ hd.range_high = Low(handle[h]) + BufferSize
      BY <1>4, <2>1 DEF Slid
    <3>2. Low(handle[h]) \in Nat /\ Low(handle[h]) <= position /\ Aligned(Low(handle[h]))
      BY <1>2, LowIs
    <3> HIDE DEF hd
    <3> QED BY <3>1, <3>2
  <2>2. CASE ~Misses(handle[h], n)
    <3>1. hd = handle[h] BY <1>4, <2>2 DEF Slid
    <3> HIDE DEF hd, f
    <3>2. /\ ~(position < handle[h].range_low)
          /\ handle[h].range_high # handle[h].range_low
      BY <2>2 DEF Misses
    <3>3. handle[h].range_low \in Nat BY <1>2 DEF Loose
    <3>4. /\ Aligned(handle[h].range_low)
          /\ handle[h].range_high = handle[h].range_low + BufferSize
      BY <1>2, <3>2 DEF Ranged
    <3> QED BY <1>2, <3>1, <3>2, <3>3, <3>4
  <2> QED BY <2>1, <2>2
<1>9. size \in 0..MaxSize BY <1>2 DEF Greatest
<1> HIDE DEF hd, old, position, f
<1>10. Poised(f, hd, n, old, size) BY <1>2, <1>5, <1>6, <1>7, <1>8, <1>9 DEF Poised
<1> QED BY <1>2, <1>3, <1>4, <1>10 DEF size, hd, old, position, f

\* The blocks that such a write writes.
LEMMA PoisedParts ==
  ASSUME NEW f, NEW hd, NEW n, NEW old, NEW size, Poised(f, hd, n, old, size), NEW v \in Data
  PROVE  /\ Count(size) \in 0..BUFFER_SIZE_BLOCKS /\ hd.range_low \in Nat /\ First(hd) \in Nat
         /\ DOMAIN Parts(Patched(hd, n, v), Count(size)) =
              First(hd)..(First(hd) + Count(size) - 1)
<1>1. /\ hd \in Loose /\ hd.data \in Buffers /\ n \in Nat /\ size \in 0..MaxSize BY DEF Poised
<1>2. size \in Nat /\ hd.range_low \in Nat BY <1>1 DEF Loose
<1>3. Count(size) \in 0..BUFFER_SIZE_BLOCKS BY <1>2, CountFits
<1>4. First(Patched(hd, n, v)) = First(hd) BY <1>1, PatchedIs DEF First
<1>5. First(hd) \in Nat BY <1>2, SizesAre, Division DEF First
<1> QED BY <1>2, <1>3, <1>4, <1>5 DEF Parts

\* What a write leaves, cut off or not, leads to what its file claims.
LEMMA WriteSized ==
  ASSUME NoTriple, SizedInv, NEW h \in Handles, NEW n \in Requests, NEW v \in Data,
         fs_write(h, n, v)
  PROVE  SizedOn(disk', Files \ dirty')
<1> DEFINE f == handle[h].file
           hd == Filled(inode[f], handle[h], n)
           low == hd.range_low
           old == inode[f].size
           size == Greatest(old, handle[h].position + n)
           q == Parts(Patched(hd, n, v), Count(size))
<1>1. /\ IInv /\ inode = disk.inode /\ OwnedDisk(disk) /\ OwnInv
      /\ SizedOn(disk, Files \ dirty)
  BY DEF SizedInv, OwnInv
<1>2. Poised(f, hd, n, old, size) BY <1>1, WriteIs
<1>3. /\ \/ \E d : Boot(d) /\ Held(d, f, q)
         \/ \E d : disk' = d /\ Grew(d, f, size, q)
      /\ disk \in Disk
  BY <1>1, WriteOwned DEF OwnedDisk
<1>4. old = disk.inode[f].size BY <1>1
<1> HIDE DEF f, hd, old, size
<1>5. DOMAIN q = First(hd)..(First(hd) + Count(size) - 1) /\ low \in Nat BY <1>2, PoisedParts
<1> HIDE DEF q, low
<1>6. f \in Files /\ size \in 0..MaxSize /\ dirty \subseteq dirty' BY <1>2 DEF Poised
<1>7. \A g \in Files : \A b \in BlocksOf(disk.inode[g].size) : b \in Nat
  <2>1. \A g \in Files : disk.inode[g].size \in Nat
    <3>1. disk.inode \in [Files -> Inode] BY <1>3 DEF Disk
    <3> QED BY <3>1, SizesAre DEF Inode
  <2>2. \A g \in Files : \A p \in 0..(disk.inode[g].size - 1) : p \div BLOCK_SIZE \in Nat
    BY <2>1, SizesAre
  <2> QED BY <2>2 DEF BlocksOf
<1>8. \A g \in Files \ dirty' : \A b \in BlocksOf(disk.inode[g].size) :
        Led(disk.block, RootsOf(disk.inode), g, b)
  BY <1>1, <1>6 DEF SizedOn
<1>9. CASE \E d : Boot(d) /\ Held(d, f, q)
  <2>1. PICK d : Boot(d) /\ Held(d, f, q) BY <1>9
  <2>2. disk' = d /\ d.inode = disk.inode
        /\ Kept(disk.block, RootsOf(disk.inode), d.block, RootsOf(d.inode), f, q)
    BY <2>1 DEF Boot, Held
  <2> QED BY <1>7, <1>8, <2>2, LedOn DEF SizedOn
<1>10. CASE \E d : disk' = d /\ Grew(d, f, size, q)
  <2>1. PICK d : disk' = d /\ Grew(d, f, size, q) BY <1>10
  <2>2. PICK blocks : d.inode = [disk.inode EXCEPT ![f] = [size |-> size, blocks |-> blocks]]
    BY <2>1 DEF Grew
  <2>3. disk.inode \in [Files -> Inode] BY <1>3 DEF Disk
  <2>4. /\ d.inode[f].size = size
        /\ \A g \in Files \ {f} : d.inode[g].size = disk.inode[g].size
    BY <1>6, <2>2, <2>3
  <2>5. /\ Kept(disk.block, RootsOf(disk.inode), d.block, RootsOf(d.inode), f, q)
        /\ \A m \in DOMAIN q : Root(m) # TRIPLE_INDIRECT_INDEX =>
             Led(d.block, RootsOf(d.inode), f, m)
    BY <2>1 DEF Grew, Filed, Led
  <2>6. \A g \in Files \ dirty' : \A b \in BlocksOf(disk.inode[g].size) :
          Led(d.block, RootsOf(d.inode), g, b)
    BY <1>7, <1>8, <2>5, LedOn
  <2>7. ASSUME f \notin dirty', NEW b \in BlocksOf(size)
        PROVE  Led(d.block, RootsOf(d.inode), f, b)
    <3>1. Root(b) # TRIPLE_INDIRECT_INDEX BY <1>6, <2>7, ShorterHasFewer DEF NoTriple
    <3>2. b \in BlocksOf(old) \/ b \in DOMAIN q
      <4> DEFINE position == hd.position
      <4>1. /\ position \in Nat /\ old \in Nat /\ n \in Nat /\ position <= old
            /\ Aligned(low) /\ low <= position /\ (n > 0 => position - low + n <= BufferSize)
            /\ size = Greatest(old, position + n)
        BY <1>2, <2>7 DEF Poised, Loose, low
      <4> HIDE DEF position
      <4>2. \/ b \in BlocksOf(old)
            \/ b \in (low \div BLOCK_SIZE)..(low \div BLOCK_SIZE + Count(size) - 1)
        BY <1>5, <2>7, <4>1, Covered
      <4> QED BY <1>5, <4>2 DEF First, low
    <3> QED BY <1>4, <1>6, <2>5, <2>6, <2>7, <3>1, <3>2
  <2> QED BY <2>1, <2>4, <2>6, <2>7 DEF SizedOn
<1> QED BY <1>3, <1>9, <1>10

LEMMA NextSized ==
  ASSUME NoTriple, SizedInv, [Next]_vars
  PROVE  SizedInv'
<1>1. OwnInv' BY NextOwn DEF SizedInv
<1>2. SizedOn(disk, Files \ dirty) BY DEF SizedInv
<1>3. CASE UNCHANGED <<disk, dirty>> BY <1>1, <1>2, <1>3 DEF SizedInv
<1>4. CASE \E h \in Handles, n \in Requests, v \in Data : fs_write(h, n, v)
  BY <1>1, <1>4, WriteSized DEF SizedInv
<1>5. CASE UNCHANGED vars BY <1>3, <1>5 DEF vars
<1>6. CASE PowerFails BY <1>3, <1>6 DEF PowerFails, Boot
<1>7. CASE \E h \in Handles, f \in Files : fs_open(h, f) BY <1>3, <1>7 DEF fs_open
<1>8. CASE \E h \in Handles : fs_close(h) BY <1>3, <1>8 DEF fs_close
<1>9. ASSUME NEW h \in Handles, NEW n \in Requests, fs_read(h, n)
      PROVE  UNCHANGED <<disk, dirty>>
  <2> DEFINE i == inode[handle[h].file]
             size == Least(n, i.size - handle[h].position)
             piece == Least(size, BufferSize)
             last == Reading(i, handle[h], size, piece)[size \div piece]
  <2>1. \/ Fault(last.is, size) \/ Fault("underflow", size)
        \/ UNCHANGED <<disk, n_blocks, inode, dirty, writes, fault>>
    BY <1>9 DEF fs_read, Served, Reading
  <2> QED BY <2>1 DEF Fault
<1>10. CASE \E h \in Handles, n \in Requests : fs_read(h, n) BY <1>3, <1>9, <1>10
<1>11. CASE \E h \in Handles, n \in Requests : WriteRefused(h, n) \/ WriteFaults(h, n)
  BY <1>3, <1>11 DEF WriteRefused, WriteFaults, Fault
<1>12. CASE \E h \in Handles, offset \in Offsets, whence \in {"VFS_BEG", "VFS_CUR", "VFS_END"} :
             fs_seek(h, offset, whence)
  BY <1>3, <1>12 DEF fs_seek
<1> QED BY <1>4, <1>5, <1>6, <1>7, <1>8, <1>10, <1>11, <1>12 DEF Next

\* An inode on the disk never claims more than the blocks it leads to, wherever power fails
\* in a write, in files that were not written past their end or through a stale cache, as long
\* as none is so long that it needs a triple-indirect block: harddrive_write_blocks drops what
\* belongs there and fs_write counts it all the same (estros-fs.c:289-335, 448-457).
THEOREM SizesAreBacked ==
  ASSUME \A b \in BlocksOf(MaxSize) : Root(b) # TRIPLE_INDIRECT_INDEX
  PROVE  Spec => []SizeIsBacked
<1>1. NoTriple BY DEF NoTriple
<1>2. Init => SizedInv BY <1>1, InitSized
<1>3. SizedInv /\ [Next]_vars => SizedInv' BY <1>1, NextSized
<1>4. SizedInv => SizeIsBacked
  <2> SUFFICES ASSUME SizedInv PROVE SizeIsBacked OBVIOUS
  <2>1. OwnedDisk(disk) /\ SizedOn(disk, Files \ dirty) BY DEF SizedInv, OwnInv
  <2>2. PICK owner : Owner(owner, disk.block, RootsOf(disk.inode), disk.n_blocks)
    BY <2>1 DEF OwnedDisk
  <2>3. disk \in Disk BY <2>1 DEF OwnedDisk
  <2>4. ASSUME NEW f \in Files \ dirty, NEW b \in BlocksOf(disk.inode[f].size)
        PROVE  [file |-> f, root |-> Root(b), path |-> Path(b)] \in Pointers
    <3>1. Led(disk.block, RootsOf(disk.inode), f, b) BY <2>1 DEF SizedOn
    <3> HIDE DEF Pointers
    <3> QED BY <2>2, <2>3, <3>1, LedIs
  <2> QED BY <2>4 DEF SizeIsBacked
<1> QED BY <1>2, <1>3, <1>4, PTL DEF Spec

-----------------------------------------------------------------------------
(* The contents of a file, word by word.                                   *)
Word(d, f, p) ==
  ReadBlock(d, RealBlock(d, d.inode[f].blocks, p \div BLOCK_SIZE))[p % BLOCK_SIZE]
ContentOf(d, f) == [p \in 0..(d.inode[f].size - 1) |-> Word(d, f, p)]

LEMMA ContentIs ==
  ASSUME NEW f PROVE Content(f) = ContentOf(disk, f) /\ Content(f)' = ContentOf(disk', f)
<1>1. ASSUME NEW d
      PROVE  LET i == d.inode[f]
                 block == [b \in BlocksOf(i.size) |-> ReadBlock(d, RealBlock(d, i.blocks, b))]
             IN [p \in 0..(i.size - 1) |-> block[p \div BLOCK_SIZE][p % BLOCK_SIZE]]
                  = ContentOf(d, f)
  <2> DEFINE i == d.inode[f]
             at(b) == ReadBlock(d, RealBlock(d, i.blocks, b))
             block == [b \in BlocksOf(i.size) |-> at(b)]
  <2>1. \A p \in 0..(i.size - 1) : p \div BLOCK_SIZE \in BlocksOf(i.size) BY DEF BlocksOf
  <2>2. ContentOf(d, f) = [p \in 0..(i.size - 1) |-> at(p \div BLOCK_SIZE)[p % BLOCK_SIZE]]
    BY DEF ContentOf, Word, at
  <2> HIDE DEF at
  <2>3. \A p \in 0..(i.size - 1) : block[p \div BLOCK_SIZE] = at(p \div BLOCK_SIZE) BY <2>1
  <2> HIDE DEF block, i
  <2>4. [p \in 0..(i.size - 1) |-> block[p \div BLOCK_SIZE][p % BLOCK_SIZE]] = ContentOf(d, f)
    BY <2>2, <2>3
  <2> QED BY <2>4 DEF block, at, i
<1> QED BY <1>1 DEF Content

\* The block that holds block n of a file is the one the driver finds.
LEMMA NamedIs ==
  ASSUME NEW d, OwnedDisk(d), NEW f \in Files, NEW n, NEW b,
         Names(d.block, RootsOf(d.inode), f, n, b)
  PROVE  /\ RealBlock(d, d.inode[f].blocks, n) = b /\ b \in 0..MaxBlock /\ b # 0
         /\ ReadBlock(d, b) = d.block[b]
<1> DEFINE root == RootsOf(d.inode)
           block == d.block
           N == d.n_blocks
<1>1. PICK owner : Owner(owner, block, root, N) BY DEF OwnedDisk
<1>2. N \in 0..(MaxBlock + 1) /\ block \in Disk0 /\ root[f] = d.inode[f].blocks
  BY DEF OwnedDisk, Disk, Disk0, RootsOf
<1>3. OwnedWay(owner, block, root, N) BY <1>1, <1>2, OwnerWay
<1>4. \A c \in 0..MaxBlock : ReadBlock(d, c) = block[c] BY <1>2 DEF ReadBlock, Disk0
<1>5. b \in 0..MaxBlock /\ b # 0
  <2>1. b \in 1..(N - 1) BY <1>1, NamesOwned
  <2> QED BY <1>2, <2>1, SizesAre
<1>6. RealBlock(d, d.inode[f].blocks, n) = Follow(d, root[f][Root(n)], Path(n))
  BY <1>2 DEF RealBlock
<1> HIDE DEF root, block, N
<1>7. CASE Path(n) = <<>> /\ Root(n) \in 0..(SINGLE - 1) /\ b = root[f][Root(n)]
  BY <1>4, <1>5, <1>6, <1>7, FollowIs DEF block
<1>8. ASSUME NEW a \in Sectors, Path(n) = <<a>>, Root(n) = SINGLE, root[f][SINGLE] # 0,
             b = V1(block, root, f, SINGLE, a)
      PROVE  RealBlock(d, d.inode[f].blocks, n) = b
  <2>1. root[f][SINGLE] \in 0..MaxBlock BY <1>3, <1>8 DEF OwnedWay
  <2>2. Follow(d, root[f][SINGLE], <<a>>) = ReadBlock(d, root[f][SINGLE])[a] BY FollowIs
  <2> QED BY <1>4, <1>6, <1>8, <2>1, <2>2 DEF V1
<1>9. ASSUME NEW a \in Sectors, NEW c \in Sectors, Path(n) = <<a, c>>, Root(n) = DOUBLE,
             root[f][DOUBLE] # 0, V1(block, root, f, DOUBLE, a) # 0,
             b = V2(block, root, f, a, c)
      PROVE  RealBlock(d, d.inode[f].blocks, n) = b
  <2>1. root[f][DOUBLE] \in 0..MaxBlock /\ V1(block, root, f, DOUBLE, a) \in 0..MaxBlock
    BY <1>3, <1>9 DEF OwnedWay
  <2>2. Follow(d, root[f][DOUBLE], <<a, c>>) = ReadBlock(d, ReadBlock(d, root[f][DOUBLE])[a])[c]
    BY FollowIs
  <2>3. ReadBlock(d, root[f][DOUBLE])[a] = V1(block, root, f, DOUBLE, a) BY <1>4, <2>1 DEF V1
  <2> QED BY <1>4, <1>6, <1>9, <2>1, <2>2, <2>3 DEF V2
<1>10. RealBlock(d, d.inode[f].blocks, n) = b
  <2>1. \/ Path(n) = <<>> /\ Root(n) \in 0..(SINGLE - 1) /\ b = root[f][Root(n)]
        \/ \E a \in Sectors : /\ Path(n) = <<a>> /\ Root(n) = SINGLE
                              /\ root[f][SINGLE] # 0 /\ b = V1(block, root, f, SINGLE, a)
        \/ \E a, c \in Sectors : /\ Path(n) = <<a, c>> /\ Root(n) = DOUBLE
                                 /\ root[f][DOUBLE] # 0 /\ V1(block, root, f, DOUBLE, a) # 0
                                 /\ b = V2(block, root, f, a, c)
    BY DEF Names, root, block
  <2> QED BY <1>7, <1>8, <1>9, <2>1
<1> QED BY <1>4, <1>5, <1>10 DEF block

LEMMA WordIs ==
  ASSUME NEW d, OwnedDisk(d), NEW f \in Files, NEW p, NEW b,
         Names(d.block, RootsOf(d.inode), f, p \div BLOCK_SIZE, b)
  PROVE  Word(d, f, p) = d.block[b][p % BLOCK_SIZE]
<1> DEFINE n == p \div BLOCK_SIZE
<1>1. RealBlock(d, d.inode[f].blocks, n) = b /\ ReadBlock(d, b) = d.block[b] BY NamedIs
<1> QED BY <1>1 DEF Word

\* A word of g is on disk d what it was on e, or what q, the blocks that f gets, has.
Carried(e, d, f, q, g, p) ==
  \/ Word(d, g, p) = Word(e, g, p)
  \/ /\ g = f /\ p \div BLOCK_SIZE \in DOMAIN q
     /\ Word(d, g, p) = q[p \div BLOCK_SIZE][p % BLOCK_SIZE]

LEMMA WordsKept ==
  ASSUME NEW e, OwnedDisk(e), NEW d, OwnedDisk(d), NEW f, NEW q,
         Kept(e.block, RootsOf(e.inode), d.block, RootsOf(d.inode), f, q),
         NEW g \in Files, NEW p \in Nat, Led(e.block, RootsOf(e.inode), g, p \div BLOCK_SIZE)
  PROVE  Carried(e, d, f, q, g, p)
<1> DEFINE n == p \div BLOCK_SIZE
           s == p % BLOCK_SIZE
<1>1. n \in Nat /\ s \in Sectors BY SizesAre, Division DEF Sectors
<1>2. PICK b : Names(e.block, RootsOf(e.inode), g, n, b) BY DEF Led
<1> HIDE DEF n, s
<1>3. /\ Names(d.block, RootsOf(d.inode), g, n, b)
      /\ \/ d.block[b][s] = e.block[b][s]
         \/ g = f /\ n \in DOMAIN q /\ d.block[b][s] = q[n][s]
  BY <1>1, <1>2 DEF Kept
<1>4. Word(e, g, p) = e.block[b][s] /\ Word(d, g, p) = d.block[b][s]
  BY <1>2, <1>3, WordIs DEF n, s
<1> QED BY <1>3, <1>4 DEF Carried, n, s

LEMMA WordFiled ==
  ASSUME NEW d, OwnedDisk(d), NEW f \in Files, NEW q, NEW p \in Nat,
         Filed(d.block, RootsOf(d.inode), f, p \div BLOCK_SIZE, q)
  PROVE  Word(d, f, p) = q[p \div BLOCK_SIZE][p % BLOCK_SIZE]
<1> DEFINE n == p \div BLOCK_SIZE
           s == p % BLOCK_SIZE
<1>1. s \in Sectors BY SizesAre, Division DEF Sectors
<1>2. PICK b : /\ Names(d.block, RootsOf(d.inode), f, n, b)
               /\ \A t \in Sectors : d.block[b][t] = q[n][t]
  BY DEF Filed
<1> HIDE DEF n, s
<1>3. Word(d, f, p) = d.block[b][s] BY <1>2, WordIs DEF n, s
<1> QED BY <1>1, <1>2, <1>3 DEF n, s

\* A word of the blocks that a write writes is one of its buffer.
LEMMA PartsAre ==
  ASSUME NEW hd, hd.range_low \in Nat, Aligned(hd.range_low),
         NEW count \in 0..BUFFER_SIZE_BLOCKS, NEW p \in Nat,
         p \div BLOCK_SIZE \in DOMAIN Parts(hd, count)
  PROVE  /\ Parts(hd, count)[p \div BLOCK_SIZE][p % BLOCK_SIZE] = hd.data[p - hd.range_low]
         /\ hd.range_low <= p /\ p < hd.range_low + BufferSize
<1> DEFINE n == p \div BLOCK_SIZE
           s == p % BLOCK_SIZE
           low == hd.range_low
           first == low \div BLOCK_SIZE
           j == n - first
<1>1. BLOCK_SIZE \in Nat \ {0} /\ BUFFER_SIZE_BLOCKS \in Nat BY SizesAre
<1>2. n \in Nat /\ s \in 0..(BLOCK_SIZE - 1) /\ p = BLOCK_SIZE * n + s BY <1>1, Division
<1>3. PICK m \in Nat : low = m * BLOCK_SIZE BY DEF Aligned
<1>4. first = m
  <2>1. 0 \in 0..(BLOCK_SIZE - 1) BY <1>1
  <2>2. low = BLOCK_SIZE * m + 0
    <3>1. m * BLOCK_SIZE = BLOCK_SIZE * m /\ BLOCK_SIZE * m \in Nat BY <1>1, SMTT(30)
    <3> QED BY <1>3, <3>1
  <2> QED BY <1>1, <2>1, <2>2, QuotientIs
<1>5. DOMAIN Parts(hd, count) = m..(m + count - 1) BY <1>4 DEF Parts, First
<1>6. j \in 0..(count - 1) BY <1>2, <1>4, <1>5
<1>7. Parts(hd, count)[n] = Part(hd, j + 1) BY <1>4, <1>5 DEF Parts, First
<1>8. s \in Sectors BY <1>2 DEF Sectors
<1> HIDE DEF s, j
<1>9. Parts(hd, count)[n][s] = hd.data[j * BLOCK_SIZE + s]
  <2>1. (j + 1) - 1 = j BY <1>6
  <2> QED BY <1>7, <1>8, <2>1 DEF Part
<1>10. BLOCK_SIZE * j \in Nat /\ BLOCK_SIZE * j + BLOCK_SIZE <= BufferSize
       /\ j * BLOCK_SIZE = BLOCK_SIZE * j
  <2>1. j + 1 \in Nat /\ j + 1 <= BUFFER_SIZE_BLOCKS /\ j \in Nat BY <1>1, <1>6
  <2>2. /\ BLOCK_SIZE * (j + 1) <= BLOCK_SIZE * BUFFER_SIZE_BLOCKS
        /\ BLOCK_SIZE * j \in Nat /\ BLOCK_SIZE * (j + 1) = BLOCK_SIZE * j + BLOCK_SIZE
    <3>1. BLOCK_SIZE \in Nat /\ j <= BUFFER_SIZE_BLOCKS BY <1>1, <2>1
    <3>2. BLOCK_SIZE * (j + 1) <= BLOCK_SIZE * BUFFER_SIZE_BLOCKS BY <1>1, <2>1, <3>1, Scaled
    <3> QED BY <1>1, <2>1, <3>1, <3>2, Scaled
  <2>3. BufferSize = BLOCK_SIZE * BUFFER_SIZE_BLOCKS BY SizesAre DEF BufferSize
  <2>4. j * BLOCK_SIZE = BLOCK_SIZE * j BY <1>1, <2>1, SMTT(30)
  <2>5. BufferSize \in Nat BY SizesAre
  <2> DEFINE x == BLOCK_SIZE * (j + 1)
             y == BLOCK_SIZE * j
             z == BLOCK_SIZE * BUFFER_SIZE_BLOCKS
  <2>6. x <= z /\ y \in Nat /\ x = y + BLOCK_SIZE /\ BufferSize = z BY <2>2, <2>3
  <2> HIDE DEF x, y, z
  <2>7. y + BLOCK_SIZE <= BufferSize BY <2>6
  <2> QED BY <2>4, <2>6, <2>7 DEF y
<1>11. p = low + BLOCK_SIZE * j + s /\ low \in Nat
  <2>1. n = m + j BY <1>2, <1>4 DEF j
  <2>2. BLOCK_SIZE * (m + j) = m * BLOCK_SIZE + BLOCK_SIZE * j BY <1>1, <1>6, SMTT(30)
  <2> QED BY <1>2, <1>3, <2>1, <2>2
<1> DEFINE y == BLOCK_SIZE * j
<1>12. y \in Nat /\ y + BLOCK_SIZE <= BufferSize /\ p = low + y + s BY <1>10, <1>11
<1>13. Parts(hd, count)[n][s] = hd.data[y + s] BY <1>9, <1>10, Zenon
<1> HIDE DEF y, n, low
<1>14. low <= p /\ p < low + BufferSize /\ p - low = y + s
  BY <1>1, <1>2, <1>11, <1>12, SizesAre
<1> QED BY <1>13, <1>14 DEF n, s, low

\* What a write puts into its buffer.
LEMMA PatchedWord ==
  ASSUME NEW hd \in Loose, hd.data \in Buffers, NEW n \in Nat, NEW v,
         hd.range_low <= hd.position,
         NEW p \in Nat, hd.range_low <= p, p < hd.range_low + BufferSize
  PROVE  Patched(hd, n, v).data[p - hd.range_low] =
           IF p \in hd.position..(hd.position + n - 1) THEN v ELSE hd.data[p - hd.range_low]
<1> DEFINE w == p - hd.range_low
           from == hd.position - hd.range_low
           data == [u \in DOMAIN hd.data |->
                      IF u \in from..(from + n - 1) THEN v ELSE hd.data[u]]
<1>1. hd.range_low \in Nat /\ hd.position \in Nat BY DEF Loose
<1>2. w \in 0..(BufferSize - 1) BY <1>1, SizesAre
<1>3. w \in DOMAIN hd.data BY <1>2 DEF Buffers
<1>4. w \in from..(from + n - 1) <=> p \in hd.position..(hd.position + n - 1) BY <1>1
<1>5. data[w] = IF p \in hd.position..(hd.position + n - 1) THEN v ELSE hd.data[w]
  BY <1>3, <1>4
<1>6. Patched(hd, n, v) = [hd EXCEPT !.position = @ + n, !.data = data] BY DEF Patched
<1> HIDE DEF data, w
<1>7. Patched(hd, n, v).data = data BY <1>6 DEF Loose
<1> QED BY <1>5, <1>7 DEF w

-----------------------------------------------------------------------------
(* What the cache of an open file holds of the file is what the disk has.  *)
Matches(d, hd) ==
  hd.data # NULL /\ ~hd.stale =>
    \A p \in 0..(d.inode[hd.file].size - 1) :
      hd.range_low <= p /\ p < hd.range_high => hd.data[p - hd.range_low] = Word(d, hd.file, p)
CachesMatch ==
  \A h \in Handles : handle[h] # Closed /\ handle[h].file \notin dirty => Matches(disk, handle[h])
CacheInv == SizedInv /\ CachesMatch

\* Where word p of a file is in the buffer that is loaded for position x.
LEMMA InWindow ==
  ASSUME NEW x \in Nat, NEW p \in Nat, (x \div BLOCK_SIZE) * BLOCK_SIZE <= p
  PROVE  LET w == p - (x \div BLOCK_SIZE) * BLOCK_SIZE
         IN /\ w \in Nat /\ x \div BLOCK_SIZE \in Nat /\ w \div BLOCK_SIZE \in Nat
            /\ x \div BLOCK_SIZE + w \div BLOCK_SIZE = p \div BLOCK_SIZE
            /\ w % BLOCK_SIZE = p % BLOCK_SIZE
<1> DEFINE m == x \div BLOCK_SIZE
           n == p \div BLOCK_SIZE
           r == p % BLOCK_SIZE
           low == m * BLOCK_SIZE
           w == p - low
           j == n - m
<1>1. BLOCK_SIZE \in Nat \ {0} /\ m \in Nat BY SizesAre, Division
<1>2. n \in Nat /\ r \in 0..(BLOCK_SIZE - 1) /\ p = BLOCK_SIZE * n + r BY <1>1, Division
<1> HIDE DEF m, n, r
<1>3. low = BLOCK_SIZE * m /\ low \in Nat BY <1>1, SMTT(30)
<1>4. m <= n
  <2> SUFFICES ASSUME n < m PROVE FALSE BY <1>1, <1>2
  <2>1. n + 1 <= m /\ n + 1 \in Nat /\ n <= n BY <1>1, <1>2
  <2>2. BLOCK_SIZE * (n + 1) <= BLOCK_SIZE * m BY <1>1, <2>1, Scaled
  <2>3. BLOCK_SIZE * (n + 1) = BLOCK_SIZE * n + BLOCK_SIZE BY <1>1, <1>2, <2>1, Scaled
  <2> DEFINE y == BLOCK_SIZE * n
  <2>4. low <= p BY DEF m
  <2>5. y \in Nat BY <1>1, <1>2, SMTT(30)
  <2>6. y + BLOCK_SIZE <= low /\ p = y + r BY <1>2, <1>3, <2>2, <2>3
  <2> HIDE DEF y, low
  <2> QED BY <1>1, <1>2, <1>3, <2>4, <2>5, <2>6
<1>5. j \in Nat /\ n = m + j BY <1>1, <1>2, <1>4
<1> HIDE DEF j
<1>6. w = BLOCK_SIZE * j + r
  <2>1. BLOCK_SIZE * (m + j) = BLOCK_SIZE * m + BLOCK_SIZE * j BY <1>1, <1>5, SMTT(30)
  <2>2. BLOCK_SIZE * j \in Nat BY <1>1, <1>5, SMTT(30)
  <2> DEFINE y == BLOCK_SIZE * j
  <2>3. y \in Nat /\ p = low + y + r BY <1>2, <1>3, <1>5, <2>1, <2>2
  <2> HIDE DEF y, low
  <2>4. w = y + r BY <1>2, <1>3, <2>3
  <2> QED BY <2>4 DEF y
<1>7. w \div BLOCK_SIZE = j /\ w % BLOCK_SIZE = r BY <1>1, <1>2, <1>5, <1>6, QuotientIs
<1>8. w \in Nat
  <2>1. BLOCK_SIZE * j \in Nat BY <1>1, <1>5, SMTT(30)
  <2> QED BY <1>2, <1>6, <2>1
<1> QED BY <1>1, <1>5, <1>7, <1>8 DEF m, n, r

LEMMA BlocksBefore ==
  ASSUME NEW size \in Nat, NEW p \in 0..(size - 1), NEW b \in 0..(p \div BLOCK_SIZE)
  PROVE  b \in BlocksOf(size)
<1> DEFINE n == p \div BLOCK_SIZE
           y == BLOCK_SIZE * b
<1>1. BLOCK_SIZE \in Nat \ {0} /\ p \in Nat /\ p < size BY SizesAre
<1>2. n \in Nat /\ p % BLOCK_SIZE \in 0..(BLOCK_SIZE - 1) /\ p = BLOCK_SIZE * n + (p % BLOCK_SIZE)
  BY <1>1, Division
<1>3. b \in Nat /\ b <= n BY <1>2
<1>4. y \in Nat /\ y <= BLOCK_SIZE * n /\ BLOCK_SIZE * n \in Nat BY <1>1, <1>2, <1>3, Scaled
<1>5. y \div BLOCK_SIZE = b
  <2>1. 0 \in 0..(BLOCK_SIZE - 1) BY <1>1
  <2>2. y + 0 = y BY <1>4
  <2>3. (y + 0) \div BLOCK_SIZE = b BY <1>1, <1>3, <2>1, QuotientIs
  <2> QED BY <2>2, <2>3
<1> HIDE DEF n, y
<1>6. y \in 0..(size - 1)
  <2> DEFINE z == BLOCK_SIZE * n
             r == p % BLOCK_SIZE
  <2>1. z \in Nat /\ y <= z /\ p = z + r /\ r \in Nat BY <1>1, <1>2, <1>4
  <2> HIDE DEF z, r
  <2> QED BY <1>1, <1>4, <2>1
<1> QED BY <1>5, <1>6 DEF BlocksOf

\* A load fills the buffer with what the disk has of the file.
LEMMA LoadMatches ==
  ASSUME OwnedDisk(disk), NEW f \in Files, NEW i, i = disk.inode[f],
         \A b \in BlocksOf(i.size) : Led(disk.block, RootsOf(disk.inode), f, b),
         NEW hd \in Loose, NEW p \in 0..(i.size - 1),
         Low(hd) <= p, p < Low(hd) + BufferSize
  PROVE  harddrive_load_blocks(i, hd)[p - Low(hd)] = Word(disk, f, p)
<1> DEFINE x == hd.position
           m == x \div BLOCK_SIZE
           w == p - Low(hd)
           k == w \div BLOCK_SIZE
           n == p \div BLOCK_SIZE
<1>1. x \in Nat /\ i.size \in Nat /\ p \in Nat
  <2>1. i \in Inode BY DEF OwnedDisk, Disk
  <2> QED BY <2>1, SizesAre DEF Inode, Loose
<1>2. w \in Nat /\ m \in Nat /\ k \in Nat /\ m + k = n /\ w % BLOCK_SIZE = p % BLOCK_SIZE
  BY <1>1, InWindow DEF Low
<1>3. w \in 0..(BufferSize - 1)
  <2>1. Low(hd) \in Nat BY LowIs
  <2> QED BY <1>1, <1>2, <2>1, SizesAre
<1> HIDE DEF w, m, n, k
<1>4. \A j \in 0..k : RealBlock(disk, i.blocks, m + j) # 0
  <2> SUFFICES ASSUME NEW j \in 0..k PROVE RealBlock(disk, i.blocks, m + j) # 0 OBVIOUS
  <2>1. m + j \in 0..n BY <1>2
  <2>2. m + j \in BlocksOf(i.size) BY <1>1, <2>1, BlocksBefore DEF n
  <2> DEFINE c == m + j
  <2>3. PICK b : Names(disk.block, RootsOf(disk.inode), f, c, b) BY <2>2 DEF Led
  <2> HIDE DEF c
  <2>4. RealBlock(disk, disk.inode[f].blocks, c) = b /\ b # 0 BY <2>3, NamedIs
  <2> QED BY <2>4 DEF c
<1>5. Present(i, hd, k) BY <1>4 DEF Present, m
<1>6. harddrive_load_blocks(i, hd)[w] =
        ReadBlock(disk, RealBlock(disk, i.blocks, m + k))[w % BLOCK_SIZE]
  BY <1>3, <1>5 DEF harddrive_load_blocks, m, k
<1> QED BY <1>2, <1>6 DEF Word, w, n

\* A handle that fills its cache goes on holding what the disk has.
LEMMA FilledMatches ==
  ASSUME OwnedDisk(disk), NEW f \in Files, NEW i, i = disk.inode[f],
         \A b \in BlocksOf(i.size) : Led(disk.block, RootsOf(disk.inode), f, b),
         NEW hd \in Loose, hd.data \in Buffers, hd.file = f, Matches(disk, hd), NEW n
  PROVE  Matches(disk, Filled(i, hd, n))
<1> DEFINE v == Filled(i, hd, n)
<1>1. disk \in Disk BY DEF OwnedDisk
<1>2. /\ Slid(v, hd, Misses(hd, n))
      /\ Misses(hd, n) /\ i.size # 0 => v.data = harddrive_load_blocks(i, hd)
  BY <1>1, FilledIs
<1> HIDE DEF v
<1>3. CASE ~Misses(hd, n)
  <2>1. v = hd BY <1>2, <1>3 DEF Slid
  <2> QED BY <2>1 DEF v
<1>4. CASE Misses(hd, n)
  <2>1. v.file = f /\ v.range_low = Low(hd) /\ v.range_high = Low(hd) + BufferSize
    BY <1>2, <1>4 DEF Slid
  <2>2. i.size \in Nat
    <3>1. i \in Inode BY <1>1 DEF Disk
    <3> QED BY <3>1, SizesAre DEF Inode
  <2>3. ASSUME NEW p \in 0..(i.size - 1), v.range_low <= p, p < v.range_high
        PROVE  v.data[p - v.range_low] = Word(disk, f, p)
    <3>1. i.size # 0 BY <2>2, <2>3
    <3>2. v.data = harddrive_load_blocks(i, hd) BY <1>2, <1>4, <3>1
    <3> QED BY <2>1, <2>3, <3>2, LoadMatches
  <2> QED BY <2>1, <2>3 DEF Matches, v
<1> QED BY <1>3, <1>4

LEMMA MatchesAlike ==
  ASSUME NEW d, NEW hd, Matches(d, hd), NEW v, v.file = hd.file, v.range_low = hd.range_low,
         v.range_high = hd.range_high, v.data = hd.data, v.stale = hd.stale
  PROVE  Matches(d, v)
BY DEF Matches

LEMMA ServedMatches ==
  ASSUME OwnedDisk(disk), NEW f \in Files, NEW i, i = disk.inode[f],
         f \notin dirty =>
           \A b \in BlocksOf(i.size) : Led(disk.block, RootsOf(disk.inode), f, b),
         NEW piece \in Nat, NEW r \in Readings, r.hd.file = f,
         f \notin dirty => Matches(disk, r.hd)
  PROVE  /\ Served(i, piece, r).hd.file = f
         /\ f \notin dirty => Matches(disk, Served(i, piece, r).hd)
<1> DEFINE v == Filled(i, r.hd, piece)
           u == [v EXCEPT !.position = @ + piece]
<1>1. r.hd \in Loose /\ disk \in Disk BY DEF Readings, OwnedDisk
<1>2. CASE r.is # "served"
  <2>1. Served(i, piece, r) = r BY <1>2 DEF Served
  <2> QED BY <2>1
<1>3. CASE r.is = "served" /\ Meets(i, r.hd, piece) # "served"
  <2>1. Served(i, piece, r).hd = r.hd BY <1>3 DEF Served
  <2> QED BY <2>1
<1>4. CASE r.is = "served" /\ Meets(i, r.hd, piece) = "served"
  <2>1. Served(i, piece, r).hd = u BY <1>4 DEF Served
  <2>2. r.hd.data \in Buffers BY <1>1, <1>4, MeetsIs
  <2>3. Slid(v, r.hd, Misses(r.hd, piece)) BY <1>1, <2>2, FilledIs
  <2>4. f \notin dirty => Matches(disk, v) BY <1>1, <2>2, FilledMatches
  <2> HIDE DEF v
  <2>5. v \in Loose /\ v.file = f BY <2>3 DEF Slid
  <2>6. /\ u.file = v.file /\ u.range_low = v.range_low /\ u.range_high = v.range_high
        /\ u.data = v.data /\ u.stale = v.stale
    BY <2>5 DEF Loose
  <2> HIDE DEF u
  <2>7. f \notin dirty => Matches(disk, u) BY <2>4, <2>6, MatchesAlike
  <2> QED BY <2>1, <2>5, <2>6, <2>7
<1> QED BY <1>2, <1>3, <1>4

\* The turns of a read leave a handle whose cache is right.
LEMMA ReadingMatches ==
  ASSUME OwnedDisk(disk), NEW f \in Files, NEW i, i = disk.inode[f],
         f \notin dirty =>
           \A b \in BlocksOf(i.size) : Led(disk.block, RootsOf(disk.inode), f, b),
         NEW hd \in Loose, hd.file = f, f \notin dirty => Matches(disk, hd),
         NEW size \in Nat, NEW piece \in Nat \ {0}
  PROVE  LET last == Reading(i, hd, size, piece)[size \div piece]
         IN last.hd.file = f /\ (f \notin dirty => Matches(disk, last.hd))
<1> DEFINE N == size \div piece
           start == [is |-> "served", hd |-> hd]
           after == Reading(i, hd, size, piece)
           P == {k \in Nat : k <= N => /\ after[k] \in Readings /\ after[k].hd.file = f
                                       /\ f \notin dirty => Matches(disk, after[k].hd)}
<1>1. disk \in Disk BY DEF OwnedDisk
<1>2. N \in Nat BY <1>1, ReadingTurns
<1>3. after[0] = start /\ \A k \in 1..N : after[k] = Served(i, piece, after[k - 1])
  BY <1>1, ReadingTurns
<1> HIDE DEF N, after
<1>4. 0 \in P
  <2>1. start \in Readings /\ start.hd = hd BY DEF Readings, Outcomes
  <2> QED BY <1>3, <2>1
<1>5. ASSUME NEW k \in P, k < N PROVE k + 1 \in P
  <2> DEFINE r == after[k]
  <2>1. k + 1 \in 1..N /\ (k + 1) - 1 = k /\ k \in Nat /\ k <= N BY <1>2, <1>5
  <2>2. after[k + 1] = Served(i, piece, r) BY <1>3, <2>1
  <2>3. r \in Readings /\ r.hd.file = f /\ (f \notin dirty => Matches(disk, r.hd)) BY <1>5, <2>1
  <2> HIDE DEF r
  <2>4. Served(i, piece, r) \in Readings BY <1>1, <2>3, ServedIs
  <2>5. /\ Served(i, piece, r).hd.file = f
        /\ f \notin dirty => Matches(disk, Served(i, piece, r).hd)
    BY <2>3, ServedMatches
  <2> QED BY <2>1, <2>2, <2>4, <2>5
<1>6. P \in SUBSET Nat OBVIOUS
<1> HIDE DEF P, start
<1>7. 0..N \subseteq P BY <1>2, <1>4, <1>5, <1>6, CountingUp
<1>8. after[N].hd.file = f /\ (f \notin dirty => Matches(disk, after[N].hd))
  BY <1>2, <1>7 DEF P
<1> QED BY <1>8 DEF N, after

\* A step that changes one handle, and neither disk nor rules.
LEMMA HandleMatches ==
  ASSUME IInv, CachesMatch, NEW h \in Handles, NEW v, handle' = [handle EXCEPT ![h] = v],
         UNCHANGED <<disk, dirty>>,
         v # Closed /\ v.file \notin dirty => Matches(disk, v)
  PROVE  CachesMatch'
<1>1. handle \in [Handles -> FileData \cup {Closed}] BY DEF IInv, TypeOK
<1>2. \A g \in Handles : handle'[g] = IF g = h THEN v ELSE handle[g] BY <1>1
<1>3. \A g \in Handles : handle'[g] # Closed /\ handle'[g].file \notin dirty
        => Matches(disk, handle'[g])
  BY <1>2 DEF CachesMatch
<1> QED BY <1>3 DEF CachesMatch

LEMMA ReadMatches ==
  ASSUME CacheInv, NEW h \in Handles, NEW n \in Requests, fs_read(h, n)
  PROVE  CachesMatch'
<1> DEFINE f == handle[h].file
           i == inode[f]
           size == Least(n, i.size - handle[h].position)
           piece == Least(size, BufferSize)
           last == Reading(i, handle[h], size, piece)[size \div piece]
<1>1. /\ IInv /\ OwnedDisk(disk) /\ inode = disk.inode /\ SizedOn(disk, Files \ dirty)
      /\ CachesMatch
  BY DEF CacheInv, SizedInv, OwnInv
<1>2. handle[h] # Closed /\ n > 0 /\ handle[h].position < i.size BY DEF fs_read
<1>3. \/ Fault(last.is, size) \/ Fault("underflow", size)
      \/ /\ handle' = [handle EXCEPT ![h] = last.hd]
         /\ UNCHANGED <<disk, n_blocks, inode, dirty, writes, fault>>
  BY DEF fs_read, Served, Reading
<1>4. /\ handle[h] \in Loose /\ f \in Files /\ i = disk.inode[f]
      /\ handle[h].position \in Nat /\ i.size \in 0..MaxSize /\ n \in Nat
  BY <1>1, <1>2, HandleIs, SizesAre
<1>5. f \notin dirty => Matches(disk, handle[h]) BY <1>1, <1>2 DEF CachesMatch
<1>6. f \notin dirty => \A b \in BlocksOf(i.size) : Led(disk.block, RootsOf(disk.inode), f, b)
  BY <1>1, <1>4 DEF SizedOn
<1> HIDE DEF i
<1>7. size \in Nat \ {0} BY <1>2, <1>4, SizesAre DEF Least
<1> HIDE DEF size
<1>8. piece \in Nat \ {0} BY <1>7, SizesAre DEF Least
<1> HIDE DEF piece
<1>9. last.hd.file = f /\ (f \notin dirty => Matches(disk, last.hd))
  BY <1>1, <1>4, <1>5, <1>6, <1>7, <1>8, ReadingMatches
<1> HIDE DEF last, f
<1>10. CASE \/ Fault(last.is, size) \/ Fault("underflow", size)
  BY <1>1, <1>10 DEF Fault, CachesMatch
<1>11. CASE /\ handle' = [handle EXCEPT ![h] = last.hd]
            /\ UNCHANGED <<disk, n_blocks, inode, dirty, writes, fault>>
  <2>1. UNCHANGED <<disk, dirty>> BY <1>11
  <2> QED BY <1>1, <1>9, <1>11, <2>1, HandleMatches
<1> QED BY <1>3, <1>10, <1>11

-----------------------------------------------------------------------------
(* The words that a write leaves.                                          *)

\* What the buffer of the write held is on the disk.
LEMMA WroteWord ==
  ASSUME NoTriple, NEW f, NEW hd, NEW n, NEW old, NEW size, Poised(f, hd, n, old, size),
         NEW v \in Data, NEW q, q = Parts(Patched(hd, n, v), Count(size)),
         NEW d, OwnedDisk(d),
         \A m \in DOMAIN q : Root(m) # TRIPLE_INDIRECT_INDEX =>
           Filed(d.block, RootsOf(d.inode), f, m, q),
         NEW p \in 0..(size - 1), hd.range_low <= p, p < hd.range_low + BufferSize
  PROVE  Word(d, f, p) = Patched(hd, n, v).data[p - hd.range_low]
<1> DEFINE new == Patched(hd, n, v)
           m == p \div BLOCK_SIZE
           low == hd.range_low
<1>1. /\ f \in Files /\ size \in 0..MaxSize /\ Aligned(low) /\ low \in Nat /\ new.range_low = low
  BY PatchedIs DEF Poised, Loose
<1>2. /\ Count(size) \in 0..BUFFER_SIZE_BLOCKS
      /\ DOMAIN q = First(hd)..(First(hd) + Count(size) - 1)
  BY PoisedParts
<1>3. p \in Nat /\ p < size /\ size \in Nat BY <1>1
<1>4. m \in DOMAIN q
  <2> HIDE DEF low
  <2>1. low <= p /\ p < low + BufferSize BY DEF low
  <2>2. m \in (low \div BLOCK_SIZE)..(low \div BLOCK_SIZE + Count(size) - 1)
    BY <1>1, <1>3, <2>1, Reached
  <2> QED BY <1>2, <2>2 DEF First, low
<1>5. m \in BlocksOf(size) BY DEF BlocksOf
<1>6. Root(m) # TRIPLE_INDIRECT_INDEX BY <1>1, <1>5, ShorterHasFewer DEF NoTriple
<1>7. Filed(d.block, RootsOf(d.inode), f, m, q) BY <1>4, <1>6
<1>8. Word(d, f, p) = q[m][p % BLOCK_SIZE] BY <1>1, <1>3, <1>7, WordFiled
<1> HIDE DEF new
<1>9. q = Parts(new, Count(size)) BY DEF new
<1>10. q[m][p % BLOCK_SIZE] = new.data[p - low]
  <2>1. m \in DOMAIN Parts(new, Count(size)) BY <1>4, <1>9
  <2> HIDE DEF low
  <2>2. Parts(new, Count(size))[m][p % BLOCK_SIZE] = new.data[p - new.range_low]
    BY <1>1, <1>2, <1>3, <2>1, PartsAre
  <2> QED BY <1>1, <1>9, <2>2
<1> QED BY <1>8, <1>10 DEF new

\* A word is on disk d what it was on e, or what the buffer of a write of f had for it.
Brought(e, d, f, hd, new, g, p) ==
  \/ Word(d, g, p) = Word(e, g, p)
  \/ /\ g = f /\ hd.range_low <= p /\ p < hd.range_low + BufferSize
     /\ Word(d, g, p) = new.data[p - hd.range_low]

LEMMA OldWord ==
  ASSUME NEW f, NEW hd, NEW n, NEW old, NEW size, Poised(f, hd, n, old, size),
         NEW v \in Data, NEW q, q = Parts(Patched(hd, n, v), Count(size)),
         NEW e, OwnedDisk(e), NEW d, OwnedDisk(d),
         Kept(e.block, RootsOf(e.inode), d.block, RootsOf(d.inode), f, q),
         NEW g \in Files, NEW p \in Nat, Led(e.block, RootsOf(e.inode), g, p \div BLOCK_SIZE)
  PROVE  Brought(e, d, f, hd, Patched(hd, n, v), g, p)
<1> DEFINE new == Patched(hd, n, v)
           low == hd.range_low
           m == p \div BLOCK_SIZE
<1>1. /\ Aligned(low) /\ low \in Nat /\ new.range_low = low BY PatchedIs DEF Poised, Loose
<1>2. Count(size) \in 0..BUFFER_SIZE_BLOCKS BY PoisedParts
<1>3. \/ Word(d, g, p) = Word(e, g, p)
      \/ g = f /\ m \in DOMAIN q /\ Word(d, g, p) = q[m][p % BLOCK_SIZE]
  <2>1. Carried(e, d, f, q, g, p) BY WordsKept
  <2> QED BY <2>1 DEF Carried
<1> HIDE DEF new, low
<1>4. q = Parts(new, Count(size)) BY DEF new
<1>5. ASSUME m \in DOMAIN q
      PROVE  q[m][p % BLOCK_SIZE] = new.data[p - low] /\ low <= p /\ p < low + BufferSize
  <2>1. m \in DOMAIN Parts(new, Count(size)) BY <1>4, <1>5
  <2>2. /\ Parts(new, Count(size))[m][p % BLOCK_SIZE] = new.data[p - new.range_low]
        /\ new.range_low <= p /\ p < new.range_low + BufferSize
    BY <1>1, <1>2, <2>1, PartsAre
  <2> QED BY <1>1, <1>4, <2>2
<1> HIDE DEF m
<1> QED BY <1>3, <1>5 DEF Brought, new, low

LEMMA WriteMatches ==
  ASSUME NoTriple, CacheInv, NEW h \in Handles, NEW n \in Requests, NEW v \in Data,
         fs_write(h, n, v)
  PROVE  CachesMatch'
<1> DEFINE f == handle[h].file
           hd == Filled(inode[f], handle[h], n)
           old == inode[f].size
           size == Greatest(old, handle[h].position + n)
           new == Patched(hd, n, v)
           q == Parts(new, Count(size))
<1>1. /\ IInv /\ inode = disk.inode /\ OwnedDisk(disk) /\ OwnInv /\ disk \in Disk
      /\ SizedOn(disk, Files \ dirty) /\ CachesMatch
  BY DEF CacheInv, SizedInv, OwnInv, OwnedDisk
<1>2. Poised(f, hd, n, old, size) BY <1>1, WriteIs
<1>3. \/ \E d : Boot(d) /\ Held(d, f, q)
      \/ /\ \E d : disk' = d /\ Grew(d, f, size, q)
         /\ Stirred(h, new)
  BY <1>1, WriteOwned
<1> HIDE DEF hd, old, size, q, new
<1>4. f \in Files /\ dirty \subseteq dirty' BY <1>2 DEF Poised
<1>5. CASE \E d : Boot(d) /\ Held(d, f, q)
  <2>1. handle' = [g \in Handles |-> Closed] BY <1>5 DEF Boot
  <2>2. \A g \in Handles : handle'[g] = Closed BY <2>1
  <2> QED BY <2>2 DEF CachesMatch
<1>6. CASE \E d : disk' = d /\ Grew(d, f, size, q) /\ Stirred(h, new)
  <2>1. PICK d : disk' = d /\ Grew(d, f, size, q) BY <1>6
  <2>2. PICK blocks : d.inode = [disk.inode EXCEPT ![f] = [size |-> size, blocks |-> blocks]]
    BY <2>1 DEF Grew
  <2>3. disk.inode \in [Files -> Inode] BY <1>1 DEF Disk
  <2>4. /\ d.inode[f].size = size
        /\ \A g \in Files \ {f} : d.inode[g].size = disk.inode[g].size
    BY <1>4, <2>2, <2>3
  <2>5. /\ OwnedDisk(d)
        /\ Kept(disk.block, RootsOf(disk.inode), d.block, RootsOf(d.inode), f, q)
        /\ \A m \in DOMAIN q : Root(m) # TRIPLE_INDIRECT_INDEX =>
             Filed(d.block, RootsOf(d.inode), f, m, q)
    BY <2>1 DEF Grew
  <2>6. \A g \in Handles : handle'[g] =
          IF g = h THEN new
          ELSE IF g \in Open(f) THEN [handle[g] EXCEPT !.stale = TRUE] ELSE handle[g]
    BY <1>6 DEF Stirred
  <2>7. Matches(d, new)
    <3>1. /\ new.file = f /\ new.range_low = hd.range_low
          /\ new.range_high = hd.range_low + BufferSize
      BY <1>2, PatchedIs DEF Poised, new
    <3>2. ASSUME NEW p \in 0..(size - 1), hd.range_low <= p, p < hd.range_low + BufferSize
          PROVE  new.data[p - hd.range_low] = Word(d, f, p)
      BY <1>2, <2>5, <3>2, WroteWord DEF new, q
    <3> QED BY <2>4, <3>1, <3>2 DEF Matches
  <2>8. ASSUME NEW g \in Handles, g # h, handle'[g] # Closed, handle'[g].file \notin dirty'
        PROVE  Matches(d, handle'[g])
    <3>1. handle[g] \in FileData \cup {Closed} BY <1>1 DEF IInv, TypeOK
    <3>2. CASE g \in Open(f)
      <4>1. handle[g].file = f BY <3>2 DEF Open
      <4>2. handle[g] \in FileData
        <5>1. Closed.file \notin Files BY GeometryAssumption DEF Closed
        <5> QED BY <1>4, <3>1, <4>1, <5>1
      <4>3. handle'[g] = [handle[g] EXCEPT !.stale = TRUE] BY <2>6, <2>8, <3>2
      <4>4. handle'[g].stale = TRUE BY <4>2, <4>3 DEF FileData
      <4> QED BY <4>4 DEF Matches
    <3>3. CASE g \notin Open(f)
      <4> DEFINE x == handle[g]
      <4>1. handle'[g] = x /\ x # Closed BY <2>6, <2>8, <3>3
      <4>2. x.file \notin dirty' /\ x.file # f BY <2>8, <3>3, <4>1 DEF Open
      <4>3. x.file \in Files \ dirty /\ Matches(disk, x)
        <5>1. x.file \in Files BY <3>1, <4>1 DEF FileData
        <5> QED BY <1>1, <1>4, <4>1, <4>2, <5>1 DEF CachesMatch
      <4> HIDE DEF x
      <4>4. /\ d.inode[x.file].size = disk.inode[x.file].size
            /\ disk.inode[x.file].size \in Nat
        <5>1. disk.inode[x.file] \in Inode BY <2>3, <4>3
        <5> QED BY <2>4, <4>2, <4>3, <5>1, SizesAre DEF Inode
      <4>5. ASSUME NEW p \in 0..(disk.inode[x.file].size - 1)
            PROVE  Word(d, x.file, p) = Word(disk, x.file, p)
        <5>1. Led(disk.block, RootsOf(disk.inode), x.file, p \div BLOCK_SIZE)
          BY <1>1, <4>3 DEF SizedOn, BlocksOf
        <5>2. p \in Nat BY <4>4
        <5>3. Carried(disk, d, f, q, x.file, p) BY <1>1, <2>5, <4>3, <5>1, <5>2, WordsKept
        <5> QED BY <4>2, <5>3 DEF Carried
      <4> QED BY <4>1, <4>3, <4>4, <4>5 DEF Matches
    <3> QED BY <3>2, <3>3
  <2>9. \A g \in Handles : handle'[g] # Closed /\ handle'[g].file \notin dirty'
          => Matches(disk', handle'[g])
    BY <2>1, <2>6, <2>7, <2>8
  <2> QED BY <2>9 DEF CachesMatch
<1> QED BY <1>3, <1>5, <1>6

LEMMA InitMatches ==
  ASSUME Init PROVE CachesMatch
<1>1. \A h \in Handles : handle[h] = Closed BY DEF Init
<1> QED BY <1>1 DEF CachesMatch

LEMMA NextMatches ==
  ASSUME NoTriple, CacheInv, [Next]_vars
  PROVE  CachesMatch'
<1>1. IInv /\ CachesMatch BY DEF CacheInv, SizedInv, OwnInv
<1>2. CASE UNCHANGED <<disk, dirty, handle>> BY <1>1, <1>2 DEF CachesMatch
<1>3. CASE UNCHANGED vars BY <1>2, <1>3 DEF vars
<1>4. CASE PowerFails
  <2>1. handle' = [h \in Handles |-> Closed] BY <1>4 DEF PowerFails, Boot
  <2>2. \A h \in Handles : handle'[h] = Closed BY <2>1
  <2> QED BY <2>2 DEF CachesMatch
<1>5. ASSUME NEW h \in Handles, NEW f \in Files, fs_open(h, f) PROVE CachesMatch'
  <2> DEFINE buffer == [w \in 0..(BufferSize - 1) |-> Garbage]
             v == [file |-> f, position |-> 0, range_low |-> 0, range_high |-> 0,
                   data |-> buffer, stale |-> FALSE]
  <2>1. handle' = [handle EXCEPT ![h] = v] /\ UNCHANGED <<disk, dirty>> BY <1>5 DEF fs_open
  <2>2. Matches(disk, v)
    <3>1. v.range_low = 0 /\ v.range_high = 0 OBVIOUS
    <3> HIDE DEF v
    <3>2. \A p \in Int : ~(v.range_low <= p /\ p < v.range_high) BY <3>1
    <3> QED BY <3>2 DEF Matches
  <2> HIDE DEF v
  <2> QED BY <1>1, <2>1, <2>2, HandleMatches
<1>6. ASSUME NEW h \in Handles, fs_close(h) PROVE CachesMatch'
  <2>1. handle' = [handle EXCEPT ![h] = Closed] /\ UNCHANGED <<disk, dirty>> BY <1>6 DEF fs_close
  <2> QED BY <1>1, <2>1, HandleMatches
<1>7. ASSUME NEW h \in Handles, NEW n \in Requests, WriteRefused(h, n) PROVE CachesMatch'
  <2> DEFINE v == [handle[h] EXCEPT !.data = NULL]
  <2>1. handle' = [handle EXCEPT ![h] = v] /\ UNCHANGED <<disk, dirty>> /\ handle[h] # Closed
    BY <1>7 DEF WriteRefused, MayWrite
  <2>2. v.data = NULL
    <3>1. handle[h] \in Loose BY <1>1, <2>1, HandleIs
    <3> QED BY <3>1 DEF Loose
  <2>3. Matches(disk, v) BY <2>2 DEF Matches
  <2> HIDE DEF v
  <2> QED BY <1>1, <2>1, <2>3, HandleMatches
<1>8. ASSUME NEW h \in Handles, NEW offset \in Offsets,
             NEW whence \in {"VFS_BEG", "VFS_CUR", "VFS_END"}, fs_seek(h, offset, whence)
      PROVE  CachesMatch'
  <2>1. PICK x : /\ handle' = [handle EXCEPT ![h].position = x]
                 /\ UNCHANGED <<disk, dirty>> /\ handle[h] # Closed
    BY <1>8 DEF fs_seek
  <2> DEFINE u == handle[h]
             v == [u EXCEPT !.position = x]
  <2>2. handle' = [handle EXCEPT ![h] = v] BY <2>1
  <2>3. u \in Loose BY <1>1, <2>1, HandleIs
  <2>4. u.file \notin dirty => Matches(disk, u) BY <1>1, <2>1 DEF CachesMatch
  <2> HIDE DEF u
  <2>5. /\ v.file = u.file /\ v.range_low = u.range_low /\ v.range_high = u.range_high
        /\ v.data = u.data /\ v.stale = u.stale
    BY <2>3 DEF Loose
  <2> HIDE DEF v
  <2>6. v.file \notin dirty => Matches(disk, v) BY <2>4, <2>5, MatchesAlike
  <2> QED BY <1>1, <2>1, <2>2, <2>6, HandleMatches
<1>9. CASE \E h \in Handles, n \in Requests : WriteFaults(h, n)
  BY <1>2, <1>9 DEF WriteFaults, Fault
<1>10. CASE \E h \in Handles, n \in Requests : fs_read(h, n) BY <1>10, ReadMatches
<1>11. CASE \E h \in Handles, n \in Requests, v \in Data : fs_write(h, n, v)
  BY <1>11, WriteMatches
<1> QED BY <1>3, <1>4, <1>5, <1>6, <1>7, <1>8, <1>9, <1>10, <1>11 DEF Next

LEMMA CachesHold ==
  ASSUME NoTriple PROVE Spec => []CacheInv
<1>1. Init => CacheInv BY InitSized, InitMatches DEF CacheInv
<1>2. CacheInv /\ [Next]_vars => CacheInv' BY NextSized, NextMatches DEF CacheInv
<1> QED BY <1>1, <1>2, PTL DEF Spec

\* What the cache of an open file holds of the file is what the disk has, whatever is read,
\* written and sought and wherever power fails: but for a cache that another handle's write
\* made stale and a file written through one or past its end, and as long as no file needs a
\* triple-indirect block (estros-fs.c:149-330, 396-457).
THEOREM CachesAgree ==
  ASSUME \A b \in BlocksOf(MaxSize) : Root(b) # TRIPLE_INDIRECT_INDEX
  PROVE  Spec => []CacheMatchesDisk
<1>1. NoTriple BY DEF NoTriple
<1>2. Spec => []CacheInv BY <1>1, CachesHold
<1>3. CacheInv => CacheMatchesDisk
  <2> SUFFICES ASSUME CacheInv PROVE CacheMatchesDisk OBVIOUS
  <2>1. CachesMatch BY DEF CacheInv
  <2> SUFFICES ASSUME NEW h \in Handles, handle[h] # Closed, handle[h].data # NULL,
                      ~handle[h].stale, handle[h].file \notin dirty,
                      NEW p \in DOMAIN Content(handle[h].file),
                      handle[h].range_low <= p, p < handle[h].range_high
               PROVE  handle[h].data[p - handle[h].range_low] = Content(handle[h].file)[p]
    BY DEF CacheMatchesDisk
  <2>2. Content(handle[h].file) = ContentOf(disk, handle[h].file) BY ContentIs
  <2>3. p \in 0..(disk.inode[handle[h].file].size - 1) BY <2>2 DEF ContentOf
  <2>4. Content(handle[h].file)[p] = Word(disk, handle[h].file, p) BY <2>2, <2>3 DEF ContentOf
  <2>5. Matches(disk, handle[h]) BY <2>1 DEF CachesMatch
  <2> QED BY <2>3, <2>4, <2>5 DEF Matches
<1> QED BY <1>2, <1>3, PTL

-----------------------------------------------------------------------------
(* The refinement: the files keep what the last writes put there.          *)

LEMMA EmptyFile ==
  ASSUME NEW file, DOMAIN file = {}, file = [p \in DOMAIN file |-> file[p]]
  PROVE  file = <<>>
<1>1. file \in [1..0 -> {}]
  <2>1. 1..0 = {} OBVIOUS
  <2> QED BY <2>1
<1>2. file \in Seq({}) BY <1>1, SeqDef
<1>3. Len(file) = 0 BY <1>1, <1>2, LenProperties
<1> QED BY <1>2, <1>3, EmptySeq

\* The size of a file of the promise is the size that the inode claims.
LEMMA SizeIs ==
  ASSUME NEW d, NEW f, d.inode[f].size \in Nat
  PROVE  /\ DOMAIN ContentOf(d, f) = 0..(d.inode[f].size - 1)
         /\ Promise!Size(ContentOf(d, f)) = d.inode[f].size
<1> DEFINE file == ContentOf(d, f)
           size == d.inode[f].size
           next == {p + 1 : p \in DOMAIN file}
<1>1. DOMAIN file = 0..(size - 1) /\ file = [p \in DOMAIN file |-> file[p]] BY DEF ContentOf
<1>2. Promise!Size(file) = IF file = <<>> THEN 0 ELSE CHOOSE n \in next : n \notin DOMAIN file
  BY DEF Promise!Size
<1> HIDE DEF file, size
<1>3. size \in Nat BY DEF size
<1>4. CASE size = 0
  <2>1. DOMAIN file = {} BY <1>1, <1>4
  <2>2. file = <<>> BY <1>1, <2>1, EmptyFile
  <2> QED BY <1>1, <1>2, <1>4, <2>2 DEF file, size
<1>5. CASE size # 0
  <2>1. file # <<>>
    <3>1. 0 \in DOMAIN file BY <1>1, <1>3, <1>5
    <3>2. DOMAIN <<>> = {} OBVIOUS
    <3> QED BY <3>1, <3>2
  <2>2. size \in next /\ size \notin DOMAIN file
    <3>1. size - 1 \in DOMAIN file /\ size = (size - 1) + 1 BY <1>1, <1>3, <1>5
    <3> QED BY <1>1, <1>3, <3>1
  <2>3. \A n \in next : n \notin DOMAIN file => n = size BY <1>1, <1>3
  <2> HIDE DEF next
  <2>4. (CHOOSE n \in next : n \notin DOMAIN file) = size BY <2>2, <2>3
  <2> QED BY <1>1, <1>2, <2>1, <2>4 DEF file, size
<1> QED BY <1>4, <1>5

\* A write within the rules, its handle ready: what it knows of the file is right.
Ready(f, hd, n, old, size) ==
  /\ Poised(f, hd, n, old, size) /\ f \notin dirty'
  /\ OwnedDisk(disk) /\ old = disk.inode[f].size /\ Matches(disk, hd)
  /\ \A b \in BlocksOf(old) : Led(disk.block, RootsOf(disk.inode), f, b)

\* Word p of f is on disk d what it was, or what a write from "position" on put there.
Became(d, f, position, n, v, p) ==
  \/ Word(d, f, p) = Word(disk, f, p)
  \/ p \in position..(position + n - 1) /\ Word(d, f, p) = v

LEMMA WordBecame ==
  ASSUME NEW f, NEW hd, NEW n, NEW old, NEW size, Ready(f, hd, n, old, size),
         NEW v \in Data, NEW q, q = Parts(Patched(hd, n, v), Count(size)),
         NEW d, OwnedDisk(d),
         Kept(disk.block, RootsOf(disk.inode), d.block, RootsOf(d.inode), f, q),
         NEW p \in 0..(old - 1)
  PROVE  Became(d, f, hd.position, n, v, p)
<1> DEFINE new == Patched(hd, n, v)
           low == hd.range_low
           range == hd.position..(hd.position + n - 1)
<1>1. /\ Poised(f, hd, n, old, size) /\ OwnedDisk(disk) /\ Matches(disk, hd)
      /\ old = disk.inode[f].size /\ f \notin dirty'
      /\ \A b \in BlocksOf(old) : Led(disk.block, RootsOf(disk.inode), f, b)
  BY DEF Ready
<1>2. /\ f \in Files /\ hd \in Loose /\ hd.data \in Buffers /\ hd.file = f /\ ~hd.stale
      /\ hd.range_high = low + BufferSize /\ low <= hd.position /\ n \in Nat
      /\ old \in 0..MaxSize
  BY <1>1 DEF Poised
<1>3. p \in Nat /\ Led(disk.block, RootsOf(disk.inode), f, p \div BLOCK_SIZE)
  BY <1>1, <1>2 DEF BlocksOf
<1>4. Brought(disk, d, f, hd, new, f, p) BY <1>1, <1>2, <1>3, OldWord
<1>5. hd.data # NULL
  <2>1. DOMAIN hd.data = 0..(BufferSize - 1) /\ 0 \in 0..(BufferSize - 1)
    BY <1>2, SizesAre DEF Buffers
  <2>2. DOMAIN NULL = {} BY DEF NULL
  <2> QED BY <2>1, <2>2
<1>6. ASSUME low <= p, p < low + BufferSize, Word(d, f, p) = new.data[p - low]
      PROVE  Became(d, f, hd.position, n, v, p)
  <2>1. new.data[p - low] = IF p \in range THEN v ELSE hd.data[p - low]
    BY <1>2, <1>3, <1>6, PatchedWord
  <2>2. hd.data[p - low] = Word(disk, f, p) BY <1>1, <1>2, <1>5, <1>6 DEF Matches
  <2> HIDE DEF new
  <2> QED BY <1>6, <2>1, <2>2 DEF Became
<1> HIDE DEF new
<1> QED BY <1>4, <1>6 DEF Brought, Became, new

\* A write that power failure cuts off.
LEMMA HeldPromise ==
  ASSUME NEW f, NEW hd, NEW n \in Requests, NEW old, NEW size, Ready(f, hd, n, old, size),
         NEW v \in Data, NEW q, q = Parts(Patched(hd, n, v), Count(size)), NEW d, Held(d, f, q)
  PROVE  Promise!Write(ContentOf(disk, f), ContentOf(d, f))
<1> DEFINE was == ContentOf(disk, f)
           is == ContentOf(d, f)
           from == hd.position
           range == from..(from + n - 1)
<1>1. /\ old = disk.inode[f].size /\ old \in Nat /\ from \in 0..old
  BY DEF Ready, Poised, Loose
<1>2. /\ OwnedDisk(d) /\ d.inode = disk.inode
      /\ Kept(disk.block, RootsOf(disk.inode), d.block, RootsOf(d.inode), f, q)
  BY DEF Held
<1>3. DOMAIN was = 0..(old - 1) /\ DOMAIN is = 0..(old - 1) /\ Promise!Size(was) = old
  BY <1>1, <1>2, SizeIs
<1>4. ASSUME NEW p \in DOMAIN is PROVE is[p] = was[p] \/ (p \in range /\ is[p] = v)
  <2>1. p \in 0..(old - 1) BY <1>3
  <2>2. Became(d, f, from, n, v, p) BY <1>2, <2>1, WordBecame
  <2>3. is[p] = Word(d, f, p) /\ was[p] = Word(disk, f, p)
    BY <1>1, <1>2, <2>1 DEF ContentOf
  <2> QED BY <2>2, <2>3 DEF Became
<1> HIDE DEF was, is
<1>5. Promise!CutShort(was, is, range, v) BY <1>3, <1>4 DEF Promise!CutShort
<1>6. Promise!Write(was, is) BY <1>1, <1>3, <1>5 DEF Promise!Write
<1> QED BY <1>6 DEF was, is

\* A write that returns.
LEMMA GrewPromise ==
  ASSUME NoTriple, NEW f, NEW hd, NEW n \in Requests, NEW old, NEW size,
         Ready(f, hd, n, old, size), NEW v \in Data, NEW q,
         q = Parts(Patched(hd, n, v), Count(size)), NEW d, Grew(d, f, size, q)
  PROVE  Promise!Write(ContentOf(disk, f), ContentOf(d, f))
<1> DEFINE was == ContentOf(disk, f)
           is == ContentOf(d, f)
           from == hd.position
           low == hd.range_low
           range == from..(from + n - 1)
<1>1. /\ old = disk.inode[f].size /\ old \in Nat /\ from \in 0..old /\ n \in Nat
      /\ size = Greatest(old, from + n) /\ f \in Files /\ disk \in Disk
      /\ Poised(f, hd, n, old, size) /\ size \in Nat
      /\ low \in Nat /\ low <= from /\ (n > 0 => from - low + n <= BufferSize)
      /\ hd \in Loose /\ hd.data \in Buffers
  BY SizesAre DEF Ready, Poised, Loose, OwnedDisk
<1>2. /\ OwnedDisk(d)
      /\ Kept(disk.block, RootsOf(disk.inode), d.block, RootsOf(d.inode), f, q)
      /\ \A m \in DOMAIN q : Root(m) # TRIPLE_INDIRECT_INDEX =>
           Filed(d.block, RootsOf(d.inode), f, m, q)
  BY DEF Grew
<1>3. d.inode[f].size = size
  <2>1. PICK blocks : d.inode = [disk.inode EXCEPT ![f] = [size |-> size, blocks |-> blocks]]
    BY DEF Grew
  <2>2. disk.inode \in [Files -> Inode] BY <1>1 DEF Disk
  <2> QED BY <1>1, <2>1, <2>2
<1>4. DOMAIN was = 0..(old - 1) /\ DOMAIN is = 0..(size - 1) /\ Promise!Size(was) = old
  BY <1>1, <1>3, SizeIs
<1>5. DOMAIN is = DOMAIN was \cup range
  <2> HIDE DEF was, is, from
  <2>1. from \in Nat /\ from <= old BY <1>1
  <2>2. size = IF old > from + n THEN old ELSE from + n BY <1>1 DEF Greatest
  <2>3. 0..(size - 1) = (0..(old - 1)) \cup (from..(from + n - 1)) BY <1>1, <2>1, <2>2
  <2> QED BY <1>4, <2>3
<1>6. \A p \in DOMAIN is : is[p] = Word(d, f, p) BY <1>3, <1>4 DEF ContentOf
<1>7. \A p \in DOMAIN was : was[p] = Word(disk, f, p) BY <1>1, <1>4 DEF ContentOf
<1> HIDE DEF was, is
<1>8. ASSUME NEW p \in DOMAIN is PROVE is[p] = IF p \in range THEN v ELSE was[p]
  <2>1. CASE p \in range
    <3>1. p \in Nat /\ low <= p /\ p < low + BufferSize /\ p \in 0..(size - 1)
      BY <1>1, <1>4, <2>1, SizesAre
    <3>2. Word(d, f, p) = Patched(hd, n, v).data[p - low] BY <1>1, <1>2, <3>1, WroteWord
    <3>3. Patched(hd, n, v).data[p - low] = v BY <1>1, <2>1, <3>1, PatchedWord
    <3> QED BY <1>6, <2>1, <3>2, <3>3
  <2>2. CASE p \notin range
    <3>1. p \in DOMAIN was /\ p \in 0..(old - 1) BY <1>4, <1>5, <2>2
    <3>2. Became(d, f, from, n, v, p) BY <1>2, <3>1, WordBecame
    <3> QED BY <1>6, <1>7, <2>2, <3>1, <3>2 DEF Became
  <2> QED BY <2>1, <2>2
<1>9. Promise!Wrote(was, is, range, v) BY <1>5, <1>8 DEF Promise!Wrote
<1>10. Promise!Write(was, is) BY <1>1, <1>4, <1>9 DEF Promise!Write
<1> QED BY <1>10 DEF was, is

\* The files that the promise is about, on disk d.
Mapped(d, files) == [f \in files |-> ContentOf(d, f)]

LEMMA MappedIs ==
  /\ [f \in Files \ dirty |-> Content(f)] = Mapped(disk, Files \ dirty)
  /\ [f \in Files \ dirty |-> Content(f)]' = Mapped(disk', Files \ dirty')
<1>1. \A f : Content(f) = ContentOf(disk, f) /\ Content(f)' = ContentOf(disk', f) BY ContentIs
<1>2. [f \in Files \ dirty |-> Content(f)]' = [f \in Files \ dirty' |-> Content(f)'] OBVIOUS
<1> QED BY <1>1, <1>2 DEF Mapped

LEMMA InitPromise ==
  ASSUME CacheInv PROVE Promise!Init
<1>1. \A f \in Files : disk.inode[f].size \in Nat
  <2>1. disk.inode \in [Files -> Inode] BY DEF CacheInv, SizedInv, OwnInv, OwnedDisk, Disk
  <2> QED BY <2>1, SizesAre DEF Inode
<1> DEFINE content == Mapped(disk, Files \ dirty)
<1>2. \A f \in DOMAIN content : DOMAIN content[f] = 0..(Promise!Size(content[f]) - 1)
  BY <1>1, SizeIs DEF Mapped
<1> QED BY <1>2, MappedIs DEF Promise!Init

\* The files that a write is not for.
LEMMA OthersStay ==
  ASSUME OwnedDisk(disk), NEW d, OwnedDisk(d), NEW f, NEW q,
         Kept(disk.block, RootsOf(disk.inode), d.block, RootsOf(d.inode), f, q),
         NEW g \in Files \ {f}, d.inode[g].size = disk.inode[g].size,
         \A b \in BlocksOf(disk.inode[g].size) : Led(disk.block, RootsOf(disk.inode), g, b)
  PROVE  ContentOf(d, g) = ContentOf(disk, g)
<1>1. ASSUME NEW p \in 0..(disk.inode[g].size - 1) PROVE Word(d, g, p) = Word(disk, g, p)
  <2>1. disk.inode[g].size \in Nat
    <3>1. disk.inode \in [Files -> Inode] BY DEF OwnedDisk, Disk
    <3> QED BY <3>1, SizesAre DEF Inode
  <2>2. p \in Nat /\ Led(disk.block, RootsOf(disk.inode), g, p \div BLOCK_SIZE)
    BY <2>1 DEF BlocksOf
  <2>3. Carried(disk, d, f, q, g, p) BY <2>2, WordsKept
  <2> QED BY <2>3 DEF Carried
<1> QED BY <1>1 DEF ContentOf

\* A handle that a write within the rules has filled is ready.
LEMMA WriteReady ==
  ASSUME CacheInv, NEW h \in Handles, NEW n \in Requests, NEW v \in Data, fs_write(h, n, v),
         handle[h].file \notin dirty'
  PROVE  Ready(handle[h].file, Filled(inode[handle[h].file], handle[h], n), n,
               inode[handle[h].file].size,
               Greatest(inode[handle[h].file].size, handle[h].position + n))
<1> DEFINE f == handle[h].file
           i == inode[f]
           hd == Filled(i, handle[h], n)
           old == i.size
           size == Greatest(old, handle[h].position + n)
<1>1. /\ IInv /\ inode = disk.inode /\ OwnedDisk(disk) /\ SizedOn(disk, Files \ dirty)
      /\ CachesMatch
  BY DEF CacheInv, SizedInv, OwnInv
<1>2. /\ Poised(f, hd, n, old, size) /\ handle[h] # Closed /\ handle[h].data \in Buffers
  BY <1>1, WriteIs
<1>3. f \in Files \ dirty BY <1>2 DEF Poised
<1>4. \A b \in BlocksOf(old) : Led(disk.block, RootsOf(disk.inode), f, b)
  BY <1>1, <1>3 DEF SizedOn
<1>5. handle[h] \in Loose BY <1>1, <1>2, HandleIs
<1>6. Matches(disk, handle[h]) BY <1>1, <1>2, <1>3 DEF CachesMatch
<1>7. Matches(disk, hd) BY <1>1, <1>2, <1>3, <1>4, <1>5, <1>6, FilledMatches
<1> QED BY <1>1, <1>2, <1>4, <1>7 DEF Ready

LEMMA WritePromise ==
  ASSUME NoTriple, CacheInv, NEW h \in Handles, NEW n \in Requests, NEW v \in Data,
         fs_write(h, n, v)
  PROVE  Promise!Changes(Mapped(disk, Files \ dirty), Mapped(disk', Files \ dirty'))
<1> DEFINE f == handle[h].file
           hd == Filled(inode[f], handle[h], n)
           old == inode[f].size
           size == Greatest(old, handle[h].position + n)
           q == Parts(Patched(hd, n, v), Count(size))
<1>1. /\ IInv /\ inode = disk.inode /\ OwnedDisk(disk) /\ OwnInv /\ disk \in Disk
      /\ SizedOn(disk, Files \ dirty)
  BY DEF CacheInv, SizedInv, OwnInv, OwnedDisk
<1>2. Poised(f, hd, n, old, size) BY <1>1, WriteIs
<1>3. \/ \E d : Boot(d) /\ Held(d, f, q)
      \/ \E d : disk' = d /\ Grew(d, f, size, q)
  BY <1>1, WriteOwned
<1>4. f \notin dirty' => Ready(f, hd, n, old, size) BY WriteReady
<1>5. dirty' \subseteq dirty \cup {f} BY DEF fs_write, Soiled
<1> HIDE DEF f, hd, old, size, q
<1>6. f \in Files /\ dirty \subseteq dirty' BY <1>2 DEF Poised
<1>7. /\ OwnedDisk(disk')
      /\ Kept(disk.block, RootsOf(disk.inode), disk'.block, RootsOf(disk'.inode), f, q)
  BY <1>3 DEF Boot, Held, Grew
<1>8. \A g \in Files \ {f} : disk'.inode[g].size = disk.inode[g].size
  <2>1. CASE \E d : Boot(d) /\ Held(d, f, q) BY <2>1 DEF Boot, Held
  <2>2. CASE \E d : disk' = d /\ Grew(d, f, size, q)
    <3>1. PICK blocks :
            disk'.inode = [disk.inode EXCEPT ![f] = [size |-> size, blocks |-> blocks]]
      BY <2>2 DEF Grew
    <3>2. disk.inode \in [Files -> Inode] BY <1>1 DEF Disk
    <3> QED BY <1>6, <3>1, <3>2
  <2> QED BY <1>3, <2>1, <2>2
<1>9. \A g \in Files \ dirty : g # f => ContentOf(disk', g) = ContentOf(disk, g)
  <2> SUFFICES ASSUME NEW g \in (Files \ dirty) \ {f}
               PROVE  ContentOf(disk', g) = ContentOf(disk, g)
    OBVIOUS
  <2>1. \A b \in BlocksOf(disk.inode[g].size) : Led(disk.block, RootsOf(disk.inode), g, b)
    BY <1>1 DEF SizedOn
  <2>2. g \in Files \ {f} /\ disk'.inode[g].size = disk.inode[g].size BY <1>8
  <2> QED BY <1>1, <1>7, <2>1, <2>2, OthersStay
<1>10. ASSUME f \notin dirty' PROVE Promise!Write(ContentOf(disk, f), ContentOf(disk', f))
  <2>1. CASE \E d : Boot(d) /\ Held(d, f, q)
    <3>1. PICK d : Boot(d) /\ Held(d, f, q) BY <2>1
    <3>2. Promise!Write(ContentOf(disk, f), ContentOf(d, f))
      BY <1>4, <1>10, <3>1, HeldPromise DEF q
    <3> QED BY <3>1, <3>2 DEF Boot
  <2>2. CASE \E d : disk' = d /\ Grew(d, f, size, q)
    <3>1. PICK d : disk' = d /\ Grew(d, f, size, q) BY <2>2
    <3>2. Promise!Write(ContentOf(disk, f), ContentOf(d, f))
      BY <1>4, <1>10, <3>1, GrewPromise DEF q
    <3> QED BY <3>1, <3>2
  <2> QED BY <1>3, <2>1, <2>2
<1> DEFINE was == Mapped(disk, Files \ dirty)
           is == Mapped(disk', Files \ dirty')
<1>11. /\ DOMAIN was = Files \ dirty /\ DOMAIN is = Files \ dirty'
       /\ \A g \in Files \ dirty : was[g] = ContentOf(disk, g)
       /\ \A g \in Files \ dirty' : is[g] = ContentOf(disk', g)
  BY DEF Mapped
<1>12. CASE f \in dirty
  <2>1. dirty' = dirty /\ \A g \in Files \ dirty : ContentOf(disk', g) = ContentOf(disk, g)
    BY <1>5, <1>6, <1>9, <1>12
  <2>2. is = was BY <2>1 DEF Mapped
  <2> QED BY <2>2 DEF Promise!Changes
<1>13. CASE f \notin dirty
  <2> HIDE DEF was, is
  <2>1. DOMAIN is \subseteq DOMAIN was /\ f \in DOMAIN was BY <1>6, <1>11, <1>13
  <2>2. DOMAIN was \ {f} \subseteq DOMAIN is BY <1>5, <1>11
  <2>3. \A g \in DOMAIN was \ {f} : is[g] = was[g] BY <1>9, <1>11, <2>2
  <2>4. f \in DOMAIN is => Promise!Write(was[f], is[f]) BY <1>10, <1>11, <2>1
  <2>5. Promise!Changes(was, is) BY <2>1, <2>2, <2>3, <2>4 DEF Promise!Changes
  <2> QED BY <2>5 DEF was, is
<1> QED BY <1>12, <1>13

LEMMA NextPromise ==
  ASSUME NoTriple, CacheInv, [Next]_vars
  PROVE  [Promise!Next]_[f \in Files \ dirty |-> Content(f)]
<1> DEFINE was == Mapped(disk, Files \ dirty)
           is == Mapped(disk', Files \ dirty')
<1> HIDE DEF was, is
<1>1. \/ UNCHANGED <<disk, dirty>>
      \/ \E h \in Handles, n \in Requests, v \in Data : fs_write(h, n, v)
  <2>1. CASE UNCHANGED vars BY <2>1 DEF vars
  <2>2. CASE PowerFails BY <2>2 DEF PowerFails, Boot
  <2>3. ASSUME NEW h \in Handles
        PROVE  /\ \A f \in Files : fs_open(h, f) => UNCHANGED <<disk, dirty>>
               /\ fs_close(h) => UNCHANGED <<disk, dirty>>
    BY DEF fs_open, fs_close
  <2>4. ASSUME NEW h \in Handles, NEW n \in Requests
        PROVE  /\ fs_read(h, n) => UNCHANGED <<disk, dirty>>
               /\ WriteRefused(h, n) => UNCHANGED <<disk, dirty>>
               /\ WriteFaults(h, n) => UNCHANGED <<disk, dirty>>
    BY DEF fs_read, WriteRefused, WriteFaults, Fault
  <2>5. ASSUME NEW h \in Handles, NEW offset \in Offsets,
               NEW whence \in {"VFS_BEG", "VFS_CUR", "VFS_END"}
        PROVE  fs_seek(h, offset, whence) => UNCHANGED <<disk, dirty>>
    BY DEF fs_seek
  <2>6. CASE Next
    <3>1. ASSUME NEW h \in Handles,
                 \/ \E f \in Files : fs_open(h, f)
                 \/ fs_close(h)
                 \/ \E n \in Requests : \/ fs_read(h, n) \/ WriteRefused(h, n)
                                        \/ WriteFaults(h, n)
                                        \/ \E v \in Data : fs_write(h, n, v)
                 \/ \E offset \in Offsets, whence \in {"VFS_BEG", "VFS_CUR", "VFS_END"} :
                      fs_seek(h, offset, whence)
          PROVE  \/ UNCHANGED <<disk, dirty>>
                 \/ \E n \in Requests, v \in Data : fs_write(h, n, v)
      BY <3>1, <2>3, <2>4, <2>5
    <3> QED BY <2>2, <2>6, <3>1 DEF Next
  <2> QED BY <2>1, <2>6
<1>2. Promise!Changes(was, is)
  <2>1. CASE UNCHANGED <<disk, dirty>> BY <2>1 DEF Promise!Changes, was, is
  <2>2. CASE \E h \in Handles, n \in Requests, v \in Data : fs_write(h, n, v)
    BY <2>2, WritePromise DEF was, is
  <2> QED BY <1>1, <2>1, <2>2
<1>3. /\ [f \in Files \ dirty |-> Content(f)] = was
      /\ [f \in Files \ dirty |-> Content(f)]' = is
  BY MappedIs DEF was, is
<1> QED BY <1>2, <1>3 DEF Promise!Next

\* The files on the disk are what the last writes made them, and a write that power failure
\* cuts off leaves any part of its own range as it was and touches nothing else, until a file
\* is written past its end or through a stale cache; no file needs a triple-indirect block
\* (estros-fs.c:79-98, 149-335, 396-457).
THEOREM ContentsKept ==
  ASSUME \A b \in BlocksOf(MaxSize) : Root(b) # TRIPLE_INDIRECT_INDEX
  PROVE  Spec => KeepsContents
<1>1. NoTriple BY DEF NoTriple
<1>2. Spec => []CacheInv BY <1>1, CachesHold
<1>3. CacheInv => Promise!Init BY InitPromise
<1>4. CacheInv /\ [Next]_vars => [Promise!Next]_[f \in Files \ dirty |-> Content(f)]
  BY <1>1, NextPromise
<1> QED BY <1>2, <1>3, <1>4, PTL DEF Spec, KeepsContents, Promise!Spec
=============================================================================
