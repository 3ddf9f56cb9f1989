# EstrOS (32bitloader): verification project

TLA+ models of the EstrOS kernel (`src/kernel`), its file-system image tool
(`src/tools`), its C library (`src/lib/goblibc`) and its apps (`src/apps`).
Every definition is translated from the source lines that `PROJECT.json` ("map")
names for it.

## 1. Inventory

EstrOS is a 32-bit x86 kernel that runs on one CPU, entirely in ring 0. Apps call it
through `int 0x40`. All concurrency comes from interrupts: the timer (IRQ0, every
10 ms) switches processes, the keyboard (IRQ1) appends to ring buffers. All gates are
interrupt gates, so handlers and system calls run with interrupts off, with one
exception: system call 0x04 (`read`) executes `sti` around `vfs_read`
(`kernel/interrupts/system_calls.c:35-37`), so `read` alone can be preempted, in the
middle of the heap, the file system or a disk transfer.

| component | source | state | operations | talks to |
|---|---|---|---|---|
| kernel heap | `kernel/heap.c` | list of block headers in a byte range | `malloc`, `malloc_aligned`, `calloc`, `realloc`, `free` | everyone calls it |
| pager | `kernel/pager.c` | list of free physical ranges, page tables | `new_page`, `free_page`, `soft_copy_table`, `free_pde_table` | heap; scheduler frees tables |
| processes and scheduler | `kernel/process.c`, `kernel/interrupts/irq_handlers.c` | circular list, current process, clock | `create_process`, `remove_process`, timer tick, exit | heap, pager, VFS |
| system calls | `kernel/interrupts/system_calls.c` | none of its own | dispatch; `sti`/`cli` around read | all of the above |
| keyboard driver | `kernel/keyboard/keyboard.c` | one ring buffer per open file, registry of files | `on_event` (IRQ1), open, close, read | heap, VFS |
| line input | `kernel/keyboard/input.c` | line buffer | `get_line`, `wait_for_keypress`, keycode tables | keyboard, tty |
| tty | `kernel/terminal/tty.c` | cursor, colour, screen, pending line | read, write, ioctl | line input, heap |
| VFS | `kernel/filesystem/virtual-filesystem.c` | path -> inode map, reference counts | open, close, create, directories | drivers, hashmap, heap |
| EstrOS FS driver | `kernel/filesystem/estros-fs.c` | super block, per-file block cache, the disk | read, write, seek, create, resolve | hdd, heap, VFS |
| hdd and ATA | `kernel/harddrive/*.c` | position of the one disk handle, ATA registers | seek, read, write | FS driver |
| image tool | `tools/EstrOSFS.cpp` | the image it writes | pack, add_boot | writes what the FS driver reads |
| hashmap | `kernel/hashmap/hashmap.h` (vendored) | open-addressing table | get, put, iterate | VFS |
| boot, GDT/IDT/PIC/TSS, error handlers | `kernel/boot.asm`, `kernel/main.c`, ... | hardware registers | boot sequence | starts everything |
| libestros | `lib/estros` | none | wrappers of system calls, `launch_file` | system calls |
| goblibc | `lib/goblibc` | user heap | printing and scanning of numbers, libc subset | libestros |
| apps | `apps/` | per app | shell, calculator, brainfuck, minesweeper | libraries |

What makes these components hard, and the properties that make them correct:

- **Heap.** A list threaded through the memory it manages. Correct: blocks tile the heap,
  used blocks are exactly what callers hold, `prev` leads backward (or `free` never
  returns). Hard: `prev` goes stale in `split` and is followed much later by `merge`; a merge
  with the last block writes through `NULL`.
- **Pager.** A list of free ranges and page tables that must stay complements. Hard:
  explicit physical requests cut the wrong range, tables are shared between processes and
  freed one process at a time.
- **Scheduler.** One circle of entries that interrupts walk while system calls link and
  unlink. Hard: a `switch` case without `break` behind a sleeping process, a parent that
  polls the memory of a child the timer handler frees, time kept in two words.
- **Keyboard.** A ring with one writer in an interrupt and one reader that is preempted
  between a load and a store of the same index, and an overflow that moves that index.
- **File system.** A cache per handle, four kinds of blocks, several disk writes per call
  and no journal. Correct: blocks have one owner, sizes are backed, contents are what was
  written, also after power failed between two sectors.
- **VFS, tty, line input.** Reference counts and registries (a file closed three times, a
  registry that removes the wrong element), lookups that cut the caller's path, a line buffer
  that grows on the wrong condition, an echo that another process may interrupt between two
  accesses to the cursor.
- **Image tool.** Its block layout must be the one that the driver reads, at every border
  between kinds of blocks; directories are packed while they are walked, and their entries have
  lengths of their own, so that they cross sectors and blocks.
- **Hashmap.** Keys are pointers it does not own, deletion never happens, a full window
  doubles the table in the middle of a put. Correct: a path finds its inode and no other.
- **goblibc.** A table of states, arguments by position or in turn, numbers of four widths.
  Correct: the text is C's and reads back as the number that was printed.
- **Apps.** Editors and parsers over fixed arrays. Correct: the text is what was typed,
  the value is that of the expression, the board agrees with the bombs.

## 2. Modules

| module | models | built on |
|---|---|---|
| `AbstractHeap` | what an allocator promises: live allocations never share bytes | - |
| `Heap` | `kernel/heap.c` and the header of `heap.h` | refines `AbstractHeap` |
| `HeapProofs` | theorems about `Heap`, for all constants | `Heap`, `Recursion`, TLAPS |
| `Scheduler` | `process.c`, the timer handler of `irq_handlers.c`, system calls 0x21 and 0x22 | - |
| `SchedulerProofs` | theorems about `Scheduler`, for all constants | `Scheduler`, TLAPS |
| `KeyboardRing` | `on_event` and `keyboard_read` of `keyboard.c`, the wait loop of `input.c` | - |
| `Pager` | `pager.c`, system calls 0x10 to 0x12, the use that `launch_file` of libestros makes of them | - |
| `PagerProofs` | theorems about `Pager`, for all constants | `Pager`, `Recursion`, TLAPS |
| `Recursion` | facts about loops that the proofs need: least numbers, induction, recursive functions | TLAPS |
| `AbstractFiles` | what a file system promises: contents change only as writes say, power failures included | - |
| `EstrosFs` | data path of `estros-fs.c` and the sectors of `hdd.c` | refines `AbstractFiles` |
| `EstrosFsProofs` | theorems about `EstrosFs`, for all constants | `EstrosFs`, `Recursion`, TLAPS |
| `KeyboardProofs` | theorems about `KeyboardRing`, for all constants | `KeyboardRing`, TLAPS |
| `Hashmap` | `hashmap.h`: create, put, rehash, get, iterate, as operators on a table | - |
| `Vfs` | `virtual-filesystem.c`, the files of `main()`, `keyboard_open` and `keyboard_close`, the streams in `remove_process` | `Hashmap` |
| `VfsProofs` | theorems about `Vfs`, for all constants | `Vfs`, `Recursion`, TLAPS |
| `ImageTool` | `pack` of `EstrOSFS.cpp`, one step per directory entry | - |
| `EstrosDirs` | path lookup, mounting and `create_inode` of `estros-fs.c` | `ImageTool`; the driver's block lookup is an instance of `EstrosFs` |
| `Brainfuck`, `Calc`, `Minesweeper` | the apps of their name | - |
| `Format` | `gob_sprintf`, `itoa`, `int_to_str` as operators, and C's own definition of them | - |
| `TextLibrary` | a program that prints and scans: `format.c`, `scanf.c`, `intscan.c`, `stdlib.c` | `Format` |
| `Console` | `tty.c`, `get_line` of `input.c`, `print.c` | - |
| `Programs` | the five above, one of them at a time | `Brainfuck`, `Calc`, `Minesweeper`, `TextLibrary`, `Console` |
| `ProgramProofs` | theorems about `Console`, `Brainfuck` and `Minesweeper`, for all constants | those three, `Recursion`, TLAPS |
| `MC*` | constants and symmetry for TLC | the module of their name |

Names follow the code. A comment above each definition says which function, branch or line
it stands for when its name does not. "Mutant of X" marks a variant of X with a plausible
slip in it; each property is broken by at least one of them, so no property holds whatever
the code does. Mutants are used by nothing else.

### Heap
`list` maps the address of each header to `size`, `free`, `next`, `prev`; `owned` maps the
payload address a caller holds to the bytes it asked for; `call` is the position inside
`free`, whose two loops take one step per turn; `fault` is the way in which the code left
the list: `merge` (joined with a block that is not next), `ghost` (followed `prev` to a header
that was merged away), `split` (cut a block without room for a second header), `clobber` (a
header was written over a payload that `memcpy` had still to move), `divide` (`calloc` of
elements of size 0 divides by it). Behaviours stop at the first fault: what a corrupted heap does
later is not a statement about the code. `merge` writes `entry->next->prev` also when there is no
next block: `atNull` is the word near address 0 that it leaves there (`AfterMergeNext`,
`AfterMergePrev`). The page is mapped, so this stops nothing, and nothing in the kernel reads the
word; every call that joins the last block does it, a caller's `free` in the best order too.
`UintMax` is the largest size, for the test of `calloc`. `realloc` has one action per case of the source:
shrink, stay, grow forward, grow both ways, grow backward, move.

### Scheduler
`entry` holds the records of `struct process` with `next` and `prev`, `used` the heap blocks
that are allocated (a freed entry keeps its content until it is reused), `first`, `current`,
`count` the globals of `process.c`, the two words of the clock, `handler` the position in the
timer handler, `waits` a parent's `while (p->state != TERMINATED)` loop. `Tick` enters the
handler, `Dispatch`, `WakeUp`, `Bury`, `OverSleeper` and `OverSuspended` are the cases of its
`switch`. Fault `live`: an entry of a process that had not exited was removed.

### KeyboardRing
One action per memory access of `keyboard_read`: the two loads of the comparison, the load of
`*start`, the copy, the load and the store of `(*start)++`, the wrap. `OnEvent` may come
between any two. Events are numbered; `got` is the last one delivered, `hits` counts events
during one delivery, `dropped` and `raced` remember an overflow and a second event in the
same delivery.

### Pager
`free` is the list (blocks with `start`, `end`, `next`, `prev`), `table` the page tables in
allocation order, `live` the top-level tables. Addresses are in pages. Faults say how the
list was left: `empty` (an empty list followed), `off` (the search of `pager_fill` left the
list), `loop` (it goes round in it for ever), `dangling` (it, or a removal, follows a link to
a freed block), no heap (`exit`), a full table. `asked`, `returned`, `buried`, `ended` remember which kinds of calls were made,
so that a property can say which mixtures are safe.

### EstrosFs
`disk` is what power failure leaves: super block, inodes, blocks of sectors. `n_blocks` and
`inode` are the copies in memory, `handle` the open files with their caches. A write builds
the log of sectors that the code writes, in the code's order; `fs_write` applies all of it,
or a prefix (cut inside a block too) followed by a boot. `stale` (another handle wrote the
file since this cache was loaded) and `dirty` (files written behind their end or from a stale
cache) record uses that the driver does not support. A block of zeros is a block nobody
wrote; block 0 is the boot sector, which a missing pointer leads to, with unknown content.

### Hashmap and Vfs
A key is the caller's pointer, so comparisons and rehashes read `mem`, what the buffers hold
at that time. `vfs` has the table, the inodes (number = order of insertion; the table's data
is that number), the open files at the addresses `malloc` gives them, and the registry of
keyboard files. `boot` counts `main()`'s steps; afterwards applications open, close and
create files, open directories, rewrite their path buffers, and processes end. `history`
says what a behaviour did that the code does not survive, so that each property holds until
then: a buffer that is a key was rewritten (`kept`), by its application or by a
call: `resolve_inode` puts a NUL over the slash behind each component while it looks it up, and
leaves it there when the component is missing (`Cut`, in `OpenMissing` for an open and
`CreateMissing` for a creation that fail), keyboard files were closed out of
order, the registry could not grow, a file was closed twice. After a double close the heap
itself is damaged, and behaviours stop. The driver behind the VFS is a set of typed paths.
`hashmap_put` calls itself through a rehash; here it is a recursive function of how deep the call
is, at most the bits of a hash, since every inner call is for a table of twice the capacity.

### ImageTool and EstrosDirs
Sizes are counted in cells of four bytes, one for each field of a directory entry; an entry is
three cells and its name, and names take whole cells, so that no field is split between two blocks (in
the code an entry may begin at any byte; the bytes of one field crossing a border are one more
way to lose what the cells lose already). A directory is the sequence of the cells of its
entries, back to back over sectors and blocks. `walk` is the stack of `pack_directory`, `out`
the blocks written, `placed` (history) which inode each path was given. When the tool is done
the image becomes `disk` and the driver works on it: `create_inode` writes super block, the two
sectors of each directory block, directory inode and own inode, whole or cut short by a power failure.
`named` (history) says where each path should lead, `history.cut` which creations failed.

Lookups read from the first block of the directory straight on, whatever is there on the disk;
entries are written to the blocks the inode names. `history.beyond` holds the names of entries
that were written elsewhere than they are read (`Strays`: into a second block that is not next to
the first, or in a directory that had filled its first block). The tool names as many blocks of a
directory as its own structures (12 cells each, with a C++ string) would fill, not the bytes it wrote
(`DirectoryBlocks`), so a directory of short names claims blocks of what is packed next;
`history.overwritten` holds those that got entries. A scan that goes by other data or runs off
what was read is the outcome "wild", which ends a behaviour.

### Brainfuck, Calc, Minesweeper
One action per kind of key and mode. In `Brainfuck`, `bf` is `AppState`, `exec` the
interpreter, and a step of the running program is one turn of `run_mode`. In `Calc` a value
is the term that was computed, so that "the same value" means the same operations on the
same numbers and floating point does not matter; "stray write" is a write beside one of the
four arrays. In `Minesweeper` positions are those of the array in the assembly, whose rows
have no gap: the cell behind a row is the first one of the next.

### Format and TextLibrary
A format is a sequence of texts and conversions with flags, width, precision, length and
position already read. `CFormat` defines what C prints; it is the reference, and
shares only the digits of a number, its sign and its width in bits with the code's way. The program of `TextLibrary` clears its buffer before it prints
(neither does `gob_sprintf` write a NUL nor does `gob_sscanf` stop at one), and its formats
are those that C defines (`FormatsAssumption`).

### Console
`screen` and its cursor belong to all processes, `file` is the tty file of each, `reading`
the `get_line` it is in. A read waits with interrupts on (`system_calls.c:35-37`), so reads overlap
key by key and each key goes to the process that fetched it. The echo of a key, which
`print_char` makes inside the read, can be interrupted too: `echo` holds what a process still prints, the next access to
the screen or to the cursor, and the value the last one read. There is one action per access,
named for it, as the build makes them: `makefile:43` has no `-O`, so `cursor_col++` is a load
(`LoadColumn`) and a store (`StoreColumn`), the comparison with `VGA_WIDTH` reads the column once
more (`TestWidth`), and `newline` scrolls cell by cell (`Scroll`, one step where the code copies
a word). Everything else that prints (`write`, `ioctl`, the kernel's `printf`) runs with interrupts
off and is one step, which may come between any two of these.

So a process may find the cursor behind the last column or row, where another one was about to
look at it. Cells behind the screen are written by the code and not seen; the model lets such a
write go nowhere. `'\b'` tests `cursor_col` and then reads it again to take one from it: `strayed` says
that a backspace has stored a column that is not one less than the one it tested, as when a
newline came between, which makes it 255 (`UINT8 - 1`).

`wanted` is the line an ordinary editor would hold after the same keys, `origin` where it began on
the screen, while it still stands there: not after a print of somebody else, when the line wraps,
or after a tab, of which a backspace takes one column away. `Chars` is the set of characters,
those that move the cursor included. Every process has opened `/dev/tty` for itself; a failed
`malloc` in `tty_open` and keys without a character change nothing. `terminal/readme.md:7` calls the input
"'\n' terminated": what a read gives has no newline in it, the enter key is echoed but not
stored (`input.c:77-80`), and `ReadsGiveTheLine` says so. (The readme also gives the halves of
`TTY_SET_CURSOR_POS` the other way round from the code, which takes the row from the high half; the
model follows the code.)

## 3. Runs

| run | bounds | states | shows |
|---|---|---|---|
| `Heap` | 14 bytes, headers of 2, requests 0, 1, 4, alignment 4 | 356,640 | tiling, owners, `prev` behind, exact links stay exact, `free` returns, refinement of `AbstractHeap`; callers that free newest first damage nothing |
| `HeapMerge` | as `Heap`, 15 bytes | violation | `merge(entry, 'p')` joins blocks that are not neighbours |
| `Scheduler` | 4 entries, clock that wraps | 298,609 | the ring is intact, parents see exits, only the fall-through reaps live processes, running processes run again |
| `KeyboardRing` | 4 slots, reads of 2, 10 events | 7,130 | delivered in order, without loss, without end |
| `Pager` | 6 pages, tables of 2, 3 list blocks, 7 tables | 216,777 | list and tables are complements while no launch or exit interferes; which mixtures are safe; mappings stay |
| `PagerAny` | as `Pager` | violation | after an exit, "any free page" is one of the kernel's |
| `EstrosFs` | 2 files, 2 handles, 2 writes, blocks of 2 words, 1 direct block, caches of 2 blocks, files of 8 words | 222,194 | one owner per block, backed sizes, coherent cache, small requests inside the cache, refinement of `AbstractFiles` |
| `Vfs` | window of 2 slots, 10 paths, 1 path buffer, 5 files, 5 inodes, 3 opens of each, 1 refusal, 2 processes | 176,762 | a path leads to no other inode, open files are found again, counts match the open files, events reach the open keyboards |
| `EstrosDirs` | 56 trees, blocks of 12 cells in 2 sectors, entries of 4 and 5 cells, 3 direct blocks, 3 pointers a block, 1 power failure | 50,421 | packed files read back, names lead home |
| `EstrosDirsGrown` | as `EstrosDirs` | violation | a file is created with success and no path leads to it |
| `Programs` | below | 1,728,663 | the ten properties of the apps, the C library and the terminal |
| `ReadAfterZero` | the terminal of `Programs` | violation | an empty line is given as two reads of 0 |

Why the bounds are enough:

- *Heap.* A header of 2 and requests of 0, 1 and 4 give blocks that can be split, that can
  not (room for a payload, none for a header), and every case of `realloc`; 14 bytes hold
  four blocks, one more than the longest chain any case looks at. `MCHeap` has behaviours of both kinds of
  callers: any, and those of `StackSpec`, of which the theorem `StackCorrect` speaks for every size.
- *Scheduler.* Besides the two processes that `main` creates, two more can be created,
  sleep, exit and be reused in every order; seconds and milliseconds of one tick wrap at 2.
- *KeyboardRing.* Ten events wrap a ring of four slots twice and overflow it.
- *Pager.* Tables of two entries have the kernel's part, a child's part and a second level.
  Larger instances (7 and 8 pages, tables for four launches, 4 list blocks) hold too.
- *EstrosFs.* A file of 8 words has a direct, two single-indirect and a double-indirect
  block. Requests are 3 words (the longest that is always safe) and 5 (longer than the
  cache). Two writes are a write and the write after it, or after the crash in it; a file of
  5 words may exist from the start, so that the second kind of pointer block is allocated
  by the first write. `MaxBlock` is larger than what two writes can allocate.
- *Vfs.* The hashes put three paths into one window, so that `put` doubles the table
  more than once in a call and with files open; five files are the kernel's three and two that applications hold, enough
  to close two keyboards in either order; each inode can be counted to 3. An application's
  path has two missing directories, so a failing call cuts it twice, to paths that then exist.
  The shell has the console, so the run goes on until it ends; the child is started and
  ended again and again, with every choice of its streams. One path buffer is enough for a
  path to be looked up through two pointers, as the literals are pointers too. (With two
  buffers the run passes as well, over 904,162 states.)
- *EstrosDirs.* Files of up to 25 blocks in steps of a sector, up to the triple-indirect blocks, next
  to a second file; directories that are empty, one entry short of a block, a whole block, and longer, of
  entries of two lengths, so that one crosses a sector or a block. Only images of up to 6 blocks are
  mounted: the larger ones are there for the block layout.
- *Programs.* The programs do not meet, so their state spaces add up. Brainfuck: every
  program of 4 characters, memory of 4 cells of 3 values. Calc: arrays of 2 to 5 elements,
  so that each can overflow, and texts of up to 7 characters with nested brackets and all
  levels of precedence. Minesweeper: 3 by 3 cells, 2 bombs, also on one place, where a search
  runs past the field. Text library: numbers of 4 to 10 bits with their smallest and
  largest; %d, %i, %u, %x and %o with every set of the flags `-`, `0`, `+`, `#`, with and without a
  width, with a precision of none, 0 and 3, as int and as char, of five numbers; seven formats more for the flag
  ` `, stars, positions, %c, %s, %p, %n and the lengths h and ll.
  Terminal: 2 processes, a screen of 2 rows of 3 that wraps and scrolls, cursor bytes of 5 values, so
  that they wrap, 4 calls in all (lines, prints, keys that echo), each echo cut anywhere by the other; lines longer than
  the first buffer (the `realloc` that fails is the first one) and read in two pieces; one key
  prints a letter in both states of shift, the other a tab; the kernel prints the smallest number.

Deadlock checking is off where the model stops: at a fault, when a program ends, at the bound on events or
writes, or when the heap or the pager has nothing left that a caller may do. `KeyboardRing`
has no such point.

Four runs expect a violation, each of a sentence in the repository (`PROJECT.json`,
"findings"): `heap.c:38` on `merge`, `README.md:99` on requests for any free page,
`terminal/readme.md:8` on a read that returned 0, and `virtual-filesystem.h:79` on the success of `create_inode`.

`Heap!TypeOK`, `KeyboardRing!TypeOK`, `EstrosFs!TypeOK` and `Console!TypeOK` are in no run: they are proved (section 5). What
the programs promise has limits that their properties name: brainfuck's editor keeps the
text only while deletions are at its end, `pad` writes the right count but the wrong number
of blanks, `gob_sprintf` prints nothing for 0, a %i that printed leading zeros is read back in octal (as in
C), calc's stacks are safe for texts that fit and
close no bracket they did not open, and the tool and the driver lay blocks out alike up to
one block of the double-indirect range. `LookupFindsTheFile` asks nothing of inodes that nobody has open:
`virtual-filesystem.h:74` says "The VFS will auto remove inodes no longer in use", and the code removes none (the
inode of the log is in the table from the boot on, with no reference). `NamesLeadHome` leaves out the
entries that were not written where they are read, what was written over by a neighbour's, and a missing
name in a directory that fills its first block; `EstrosDirsGrown` shows a case of them. `CursorComesBack` ends, for the
column, with a backspace that strayed.

## 4. Fairness

- `Heap`: weak fairness of the loops of `free`. A call runs to its end on the CPU.
- `Scheduler`: weak fairness of the timer tick (the PIT is periodic) and of each step of the
  handler (it runs with interrupts off). No fairness of processes: they may loop for ever.
- `KeyboardRing`: weak fairness of the reader, which `Scheduler!EveryoneRuns` justifies. No
  fairness of the keyboard.
- `Pager`, `EstrosFs`, `Vfs`, `EstrosDirs`, `Programs`: safety only. Whether a program goes
  on is its user's choice; nothing but `free` and the scheduler loops inside the kernel.

## 5. Proved

`HeapProofs` proves, for every heap size, header size, set of requests and set of alignments
(assumed in `Heap`: `HeapSizeAssumption`, `RequestsAssumption`, `AlignmentsAssumption`,
`UintMaxAssumption`), from `Spec`:

| theorem | property |
|---|---|
| `TypeCorrect` | `TypeOK` |
| `TilingCorrect` | `BlocksTile`: until the first fault the blocks tile the heap |
| `OwnersCorrect` | `OwnersMatchBlocks`: until the first fault used blocks are what callers hold |
| `PrevCorrect` | `PrevIsBehind`: until the first fault `prev` leads towards the start |

None of the last three is inductive alone: a split keeps owners and blocks in step only if
the list was tiled. `IInv` joins `TypeOK` with, until the first fault, `Tiled` (every block
ends at its next one or at the end of the heap, none lies inside it, `prev` is behind) and
`Matches` (the used blocks are those of the owners, each large enough), and with `CallOK`
(between two turns of `free` its block is in the list and free). The lemmas say what `Split`, `MergeNext`
and `SetFree` do to `Tiled` and `Matches`; the step proof has one lemma per action.

`KeyboardProofs` proves, for every ring of at least three slots, every length of a read and
any number of events (`SizeAssumption`, `ReaderAssumption`), from `Spec`:

| theorem | property |
|---|---|
| `TypeCorrect` | `TypeOK`: the reader never copies from outside the ring |
| `DeliveryInOrder` | `DeliversInOrder`: nothing twice or out of order while at most one event is typed during a delivery |
| `NothingMissed` | `MissesNothing`: no event is missed before an overflow or two events in one delivery |

The argument: `on_event` fills the slots in turn, whatever happens to `start`, so the number
of the event in a slot follows from its distance to `end` alone (`Filled`), and the order of
delivery becomes arithmetic on `start`, `from` and `end`. `Ordered` says for each access of
`keyboard_read` that what it is about to deliver is still ahead, also after an overflow moved
`start` under it; `Complete` says, without an overflow, that it is exactly the next event.
Both hold only while at most one event comes during a delivery, which `hits` counts.

`HeapProofs` goes on from that invariant:

| theorem | property |
|---|---|
| `PromiseKept` | `KeepsPromise`: `Heap` implements `AbstractHeap` |
| `ExactLinksKept` | `ExactLinksStayExact`: only `split` makes a `prev` stale |
| `StackCorrect` | `StackUseIsSafe`: callers that free newest first damage nothing in the heap (of `StackSpec`) |

The refinement maps `live` to `owned`; every step of `Heap` is one step of `AbstractHeap` or
leaves `owned` alone, because two used blocks of a tiled list share no byte. Exact links are
kept by each helper unless there is a block behind the one that is split; a caller that frees
newest first keeps all that is free behind all that is used (`StackInv`), so that a
split always cuts the last block. `atNull` is the address of a block of the list: only a merge with the
last block sets it, and blocks leave the list only when one in front of them, which is then the
last, swallows them and is named in their place.

`SchedulerProofs` proves, for every number of entries, clock and set of wake-up times, from
`Spec`:

| theorem | property |
|---|---|
| `TypeCorrect` | `TypeOK` |
| `RingCorrect` | `RingIntact`: one circle with exact links and an exact count until a live process is reaped |
| `ChildrenAwaitParents` | `ParentSeesExit`: no child's entry is freed before its waiting parent saw the exit |
| `LiveReapsAreBehindSleepers` | `OnlyBehindSleepers` |

"One circle" is said without counting steps: links undo each other, and a set of entries closed
under `next` is the whole ring (`Circle`). Reachability is said the same way (`OnTheWay`: every
set that holds x and is closed under `next` up to c holds p). The third theorem needs `Waiters`:
once the child has exited, the scan meets the parent before it meets the child, because the
child was linked in when its parent ran, and exits only when it runs itself.

`PagerProofs` proves, for every number of pages, of tables and of list blocks and tables of
two or more entries (`SizesAssumption`; with one entry the kernel's table would be all there
is), from `Spec`:

| theorem | property |
|---|---|
| `TypeCorrect` | `TypeOK` |
| `MappingsOnlyGoByReturn` | `MappingsStay` |
| `SearchesEnd` | `SearchEnds`: `pager_fill` leaves its list, spins in it or follows a freed block only after a request by address and, besides, a return, an exit or the end of memory |
| `LaunchesDoNoHarm` | `LaunchesAloneAreSafe` |
| `ListCorrect` | `ListMatchesTables`: list and tables are complements |

Three invariants, each on top of the last. `TypeInv`: tables point to tables that exist,
top-level tables of different processes are different, and only the kernel's table is shared.
`HarmInv`: while no page was asked for by its address the list is `Calm` (its links undo each
other, its ranges are disjoint and hold no page in use, and the one without `next` is the last
and reaches to the end of memory, so the search stops); and whatever was asked for, until something is given back or
memory ends, every page in use lies in front of the first range (`Head`), which is why a launch
alone hands nothing out twice. `ListInv`: until an exit the list is sorted and holds exactly the
pages that no table maps. The loop of `free_pte_table` is a recursive function of the number of
entries already given back; induction over it is `Recursion!CountingUp`.

`ProgramProofs` proves from `ConsoleSpec`, for every screen, number of processes, set of keys and texts
(`ConsoleAssumption`: texts and keys are made of `Chars`, no key in `LetterKeys` prints a
newline, return or backspace, which `get_line` treats apart, programs put the cursor on the
screen):

| theorem | property |
|---|---|
| `TypeCorrect` | `TypeOK` (types only: the cursor is any two bytes) |
| `CursorKept` | `CursorComesBack`: behind the last column or row only while somebody is about to test it |
| `LinesGiven` | `ReadsGiveTheLine` |
| `LinesShown` | `ScreenShowsTheLine` |

No process knows what the others' echoes are doing, so the invariant says for each what it can rely on
at each access. `CursorKept` is inductive with `TypeOK` and `Fits` (the character an echo prints
belongs to the step it is at): the only store that takes the row off the screen is
`StoreRow`, which goes on to the test; one that takes the column off is `StoreColumn`, which does
too, or `StoreBack` of a column that has changed since it was tested, which `strayed` remembers; a
test that finds the cursor behind goes on to the store that brings it back, one that finds it on the
screen may stop. A print of somebody else leaves the whole cursor on the screen.

`LineKept` says what a line is in each phase (in `get_line`, none, or partly given), so that a
read handing over any number of bytes leaves what was given and what is left together
unchanged. `Stands` says where the cursor is at each step of the echo while the line is still
where it began (`Inside`), which of its characters are in the text buffer (`OnScreen`), and that
what the echo has read of the cursor is still so: every store of somebody else sets `origin` to
`Nowhere`. A line in one row is no longer than the cursor's column, so a backspace never stops at
the left edge. Printing a text with interrupts off is a recursive function of the number of
characters printed.

It proves from `BfSpec` and `MineSpec`, each program alone, for every size of
brainfuck's buffers and set of keys (`BrainfuckAssumption`: no key types a NUL) and for every field
and sequence of random places (`MinesAssumption`: they are in the field, and there is one):

| theorem | property |
|---|---|
| `EditorKept` | `EditorKeepsTheText` |
| `BoardTrue` | `BoardTellsTheTruth` |

`EditorInv` puts the cursor in the text or behind it, which bounds every write to the buffer;
`TextHeld` says which place holds which character, and that the others hold NULs. `BoardInv` says that a
revealed cell shows `CountBombs` of it, a sum over offsets in one array. That this counts the cells
around it (`CountIsAround`) is a bijection between offsets and cells: it takes a column away from the
edges, no bomb in front of the field (`BombSets`; the search for a place only goes forward), and none
behind it or a row below. The search ends because of as many cells as there are bombs and one
more, one is free. A new game is not won already, because the first bomb lies in the field.
The flood of `reveal` is a function of the number of rings of cells around the first.

`EstrosFsProofs` proves from `Spec`, for every size of blocks, caches, files and disk
(`GeometryAssumption`: positions and requests of the model stay below 2^32, the file that is
there from the start is no longer than `MaxSize`; `Init` takes only disks on which that file fits):

| theorem | property |
|---|---|
| `TypeCorrect` | `TypeOK` |
| `RequestsStayInside` | `SmallRequestsStayInside` |
| `OwnersAreOne` | `BlocksHaveOneOwner` |
| `SizesAreBacked` | `SizeIsBacked`, if no file reaches a triple-indirect block |
| `CachesAgree` | `CacheMatchesDisk`, on the same hypothesis |
| `ContentsKept` | `KeepsContents`, on the same hypothesis: `EstrosFs` implements `AbstractFiles` |

A write is a chain of states, one per block written (`Passes`). Its counter is unbounded until
the call ends: `fs_write` compares it with the end of the disk only then, and the code never. So
the lemmas about `alloc_block`, `WithBlock` and `WriteBlock` are stated for block numbers in a
set `B`, first all of `Nat`, then, because counters only grow along the chain and the last one
is on the disk, for those of the disk. What power failure leaves is a prefix of the log, torn
or not, so its type follows from the type of every entry. `IInv` adds to the two properties
where a cache lies (`WindowsPlaced`: `range_low` is a multiple of the block size, the position
may be anywhere) and that no file is longer than `MaxSize` (`FilesAreShort`), without which
`position + count` might wrap and a miss pass for a hit.

`OwnersAreOne` needs `OwnInv`: the disk is an `OwnedDisk`, and the counter and block indices in
memory are those on the disk between calls. `OwnedDisk` says that some function `owner` gives
each block its place (an index of an inode, an entry of the block it names, an entry one level
down), that a live place names a block below the counter whose owner is that place, and that
blocks from the counter on hold zeros, so that a block just handed out names nothing. Inside a
write the order matters: the counter reaches the disk first, then the pointer, then the data,
the inode last. `Keeps` says that a step leaves both the disk and every cut of the log owned
(`Logged`), where the indices may be those of the inode on the disk or the newer ones in memory
(`Fine`). A torn pointer block is the block before or after (one entry differs), torn data
is data. `owner` then is a bijection from blocks to places, hence the equal cardinalities.

`SizesAreBacked` adds `SizedInv`: the inodes on the disk lead (`Led`) to each block that the size
of a clean file claims. Along a write a block that holds block `n` of a file (`Names`)
goes on holding it, and each of its words is what it was or, in the file that is written, what the
write has for it (`Kept`, part of `Keeps`). What a power failure leaves has the old inodes (`Held`), so it still leads to all
they claim. The write that returns has written `Count(size)` blocks from the one its cache
starts at (`Grew`); `Covered` shows that those and the old ones are all that the new size claims: the cache
starts at a whole block (`Aligned`) behind which the request ends within the buffer, and the position
is not past the old end. A write past the end leaves a hole, which is why it makes the file
`dirty`. The hypothesis that no block of a file of `MaxSize` is triple-indirect cannot go:
`harddrive_write_blocks` has that case commented out and drops the data without a word, and
`fs_write` counts it in the size all the same. With the driver's geometry only files of more
than a double-indirect block's worth of data meet it; the instance of the run stays below it.

`CachesAgree` adds `CachesMatch`: a cache that no other handle's write made stale, of a file that
is not `dirty`, holds of the file what the disk has word for word (`Word`). A load copies it,
because what the size claims is led to (`SizedInv`), so `harddrive_load_blocks` never stops in
front of the end. A read is a function of its turns, each of which keeps this. A write hands its
buffer over whole: the blocks it writes reach to the end of the buffer or of the file, whichever is
first (`Reached`, `WroteWord`), so the writer's cache is right again, the caches of the other
handles on the file become stale, and those of other files hold words that `Kept` says did not
change. `Poised` collects what a handle is when it writes.

`ContentsKept` takes `CacheInv` (the two together) and maps the files that are not `dirty` to
their contents (`Mapped`). Only `fs_write` changes them. Cut off, it leaves every word as it was or,
inside the request, as the caller gave it (`Became`): the words of the buffer outside the
request are those of the disk, which is what `CachesAgree` is for, so writing them back early, late or
not at all makes no difference. If it returns, all of the request is there and the size covers it.
The files it is not for are untouched (`OthersStay`), and a file that becomes `dirty` leaves the map.

`VfsProofs` proves, for every hash, size of a hash, probe window, set of literals, buffers,
paths, handles and processes (`HashAssumption`, `VfsAssumption`), from `Spec`:

| theorem | property |
|---|---|
| `CountsCorrect` | `CountsMatchHandles`: counts are open files and refused opens until a double close |
| `RegistryCorrect` | `RegistryFollowsOpens`: every open keyboard file is registered once, no freed one is |
| `LookupCorrect` | `LookupFindsTheFile`: a path leads to no inode but its own, and a device or open file is found, while no key is rewritten |

`Sound` is what a VFS is until a file is closed twice: open files are of inodes, the table leads
to inodes, counts agree. The table is the hard part, for its keys may be rewritten under it and
a rehash may fail half-way and lose elements. `PutKeeps` says what is left to rely on: whatever
`hashmap_put` does, every element afterwards is one that was there or the one being put. Hence
a lookup leads to some inode of the VFS, never to nothing, and to the keyboard's only if its name
asks for it (`LookupIs`), so the directories that are open are not the keyboard's
(`DirectoriesAreOther`): closing one does not touch the registry. The end of a process is
three closes in a row; `Closing` says of the middle of them that at most one
of the files so far was the keyboard's, the last of the registry. The boot needs `InvBoot`: `malloc`
gives the first files the lowest handles, so there is one for each of them.

`LookupCorrect` needs the other half of `hashmap_put`: what it does when nobody rewrites a key.
`Found` says of a table that every element lies in the window of its path's hash, that no two
elements have one path, and that the size counts them. A path that `hashmap_get` does not find is
therefore `New` (`Sought`), and `Places` says that a put of a new path, if it returns 0, adds it and
loses nothing. For the put that doubles the table this is an induction over its slots (`MovedFinds`: up
to slot k, the new table has exactly the elements below k), inside one over the depth of calls, for each
of these elements is put by `hashmap_put` again and may double the table again. `Leads` ties the
table to the inodes: each has one element, under its path. Opening and closing change counts only
(`Alike`), also when a file is closed twice (`AnyCloseKeeps`); of the buffers an application writes, those
that are no key may change (`LeadsElsewhere`). The theorem assumes nothing about the
hashes: with bad ones `hashmap_put` fails, and a call whose inode the table refuses is not modelled
(`InsertFails`: `insert_new_inode` returns NULL and its callers use it). The guards `~Refuses` of the boot
say the same; four inodes fit in a window of `HASHMAP_LINEAR_PROBE_LENGTH` slots, so in the code
they hold.

`Recursion` holds the facts these proofs share: a set of natural numbers that is not empty has
a least element, hence induction over numbers as a statement about sets; and a function given by
its values at smaller numbers exists and stays in a set that its steps stay in. So what a
recursive *function* computes is within the prover's reach here; RECURSIVE operators are not.

Two flaws of the model came out of proof attempts. `SearchEnds` once said that a search off the
list implies `asked /\ ended`: true on the instance of the run, false with 10 pages, tables of 3,
4 list blocks and 9 tables, where a return after a launch is enough (17 steps); searches that
spin or follow a freed block were not told apart. `ScreenShowsTheLine` was false for a line
with a tab in it, a key that no instance had typed.

Model-checked only: `FreeReturns`, `EveryoneRuns`, `DeliversAll` (liveness is out of the prover's
reach); the properties of `EstrosDirs`, `Brainfuck!JumpsGoToTheMatch` (brackets matched by a grammar), and those of `Calc` and
`TextLibrary`. `Calc`, `Format` and the modules over them use recursive operators, which
keep them with TLC.

## 6. Not modelled

- Hardware set-up (GDT, IDT, PIC, TSS), the ATA port protocol, VGA output, error screens:
  device I/O with no state the properties could see.
- Preemption inside `read` in the heap and between seek and read of the disk handle: every
  model takes a call as one step, except `free`'s loops, `keyboard_read`, and `get_line` with its echo.
- The TLB, flags of page table entries other than present, addresses of page tables.
- Failure of `malloc` in the file system and in path lookup, and what happens after the hash table
  refused an inode, which needs more paths of almost one hash than a window has slots; creation of directories, which
  `virtual-filesystem.h` declares and no file defines.
- `hashmap_remove` and `hashmap_remove_and_return_key`: no caller. `hashmap_destroy` gives back
  the old table of a rehash, and would do so if `vfs_init` ran twice.
- A tty file that several processes share; colours; what apps draw.
- In goblibc: floating point in and out, wide characters, `strerror`, the string functions,
  its heap (a copy of `kernel/heap.c` but for `malloc(0)`); `vprintf.c` is in no target of
  the makefile.
- The shell's command line (`apps/new_test`), whose waiting for a child is in `Scheduler`.
- The image tool's `add_boot` and its bit maps, which nothing reads.

## 7. Plan

1. A condition on the hashes under which no `hashmap_put` fails, and a proof that it is enough.
2. `DiskRace`: two preempted reads on the one disk handle; the heap re-entered from `read`.
3. `Scheduler` composed with `Pager` and `Vfs`: exit, reaping, the tables and the streams of
   the dead process.
4. `EstrosDirs` composed with `EstrosFs` through one disk: files created, then written.
