-------------------------------- MODULE Vfs --------------------------------
(***************************************************************************)
(* The virtual file system, kernel/filesystem/virtual-filesystem.c, from   *)
(* the boot in kernel/main.c on: inodes found by path in a hash table,     *)
(* files opened and closed by system calls and by the end of a process,    *)
(* and the registry of keyboard files in kernel/keyboard/keyboard.c.       *)
(*                                                                         *)
(* System calls run with interrupts off, so each is one step.  A path is   *)
(* a sequence of names and slashes.  The file system behind the VFS is a   *)
(* set of typed paths; EstrosDirs has its directories.                     *)
(***************************************************************************)
EXTENDS Hashmap, FiniteSets

CONSTANTS Buffers,      \* pointers to path buffers of applications
          UserPaths,    \* what applications write into them
          Literals,     \* the kernel's string literals: pointer -> path
          OnDisk,       \* the image: path -> type
          Handles,      \* addresses of open files, a set of numbers
          Processes,
          MaxReferences,\* bound: opens of one inode
          MaxRefused,   \* bound: opens that a driver refuses
          MaxInodes     \* bound: inodes in memory

VFS_ERROR == 0
VFS_REGULAR_FILE == 1
VFS_DIRECTORY == 2
VFS_BLOCK_DEVICE == 2
VFS_CHARACTER_DEVICE == 3

\* malloc gives the lowest free address, which the boot takes four of; a literal
\* is no buffer of an application, and no two of them hold the same path.  What
\* applications write are absolute paths, and the image has the directories of
\* its files and of the literals.
ASSUME VfsAssumption ==
  /\ IsFiniteSet(Handles) /\ Handles \subseteq Nat \ {0} /\ 1..4 \subseteq Handles
  /\ {"hdd", "tty", "log", "kdb", "root", "dev"} \subseteq DOMAIN Literals
  /\ Buffers \cap DOMAIN Literals = {}
  /\ \A p, q \in DOMAIN Literals : p # q => Literals[p] # Literals[q]
  /\ \A s \in Range(Literals) \cup UserPaths : s \in Seq(Range(s)) /\ s # <<>>
  /\ \A s \in DOMAIN OnDisk : OnDisk[s] \in {VFS_REGULAR_FILE, VFS_DIRECTORY}
  /\ \A s \in UserPaths : s[1] = "/" /\ s[Len(s)] # "/"
  /\ \A s \in DOMAIN OnDisk \cup Range(Literals) : \A i \in DOMAIN s :
       i > 1 /\ s[i] = "/" => /\ SubSeq(s, 1, i - 1) \in DOMAIN OnDisk
                             /\ OnDisk[SubSeq(s, 1, i - 1)] = VFS_DIRECTORY

VARIABLES mem,      \* pointer -> the path its buffer holds
          vfs,      \* the inodes, the table and the open files
          disk,     \* path -> type
          streams,  \* process -> <<stdout, stdin, stderr>>
          boot,     \* the next step of main()
          history   \* not in the code: what happened that the code does not survive

vars == <<mem, vfs, disk, streams, boot, history>>

\* free() leaves the inode of a closed file where it was.
Fresh == [open |-> FALSE, inode |-> 0]
File(n) == [open |-> TRUE, inode |-> n]
Garbage == -1
NoStream == 0
InodesOf(v) == DOMAIN v.inodes
Open(v) == {h \in Handles : v.files[h].open}
Ops(v, n) == v.inodes[n].file_operations
Is(v, h, device) == h \in Open(v) /\ Ops(v, v.files[h].inode) = device

-----------------------------------------------------------------------------
(* Inodes.                                                                 *)

\* The table keeps the caller's pointer.  The result is the VFS; the new inode
\* is its last one, unless the table refuses.
Inserted(v, put, inode) ==
  IF put.failed THEN [v EXCEPT !.map = put.map]
  ELSE [v EXCEPT !.map = put.map, !.inodes = Append(@, inode)]
insert_new_inode(v, path, inode) ==
  Inserted(v, hashmap_put(v.map, mem, path, Len(mem[path]), Len(v.inodes) + 1), inode)

\* Not in the code: `refused', the opens of the inode that its driver refused.
Device(path, ops, type) ==
  [path |-> path, type |-> type, file_operations |-> ops, number_of_references |-> 0, refused |-> 0]

\* get_inode of the driver: VFS_ERROR when the path is not on the disk.
PhysicalType(path) == IF path \in DOMAIN disk THEN disk[path] ELSE VFS_ERROR
Physical(path) == Device(path, "fs", PhysicalType(path))

vfs_create_device_file_no_checks(v, path, ops, type) ==
  insert_new_inode(v, path, Device(mem[path], ops, type))

\* The path up to its last slash.
Parent(path) ==
  LET slash == Max({i \in DOMAIN path : path[i] = "/"}) IN SubSeq(path, 1, slash - 1)
IsDirectory(path) == path = <<>> \/ PhysicalType(path) = VFS_DIRECTORY
Absolute(path) == path # <<>> /\ Head(path) = "/" /\ Last(path) # "/"

\* Refused when something has the path, or its directory is missing.
vfs_create_device_file(v, path, ops, type) ==
  IF /\ Absolute(mem[path]) /\ hashmap_get(v.map, mem, path, Len(mem[path])) = NULL
     /\ PhysicalType(mem[path]) = VFS_ERROR /\ IsDirectory(Parent(mem[path]))
  THEN vfs_create_device_file_no_checks(v, path, ops, type)
  ELSE v

\* Of a regular file: the disk afterwards.
vfs_create_regular_file(v, path) ==
  IF /\ Absolute(mem[path]) /\ hashmap_get(v.map, mem, path, Len(mem[path])) = NULL
     /\ PhysicalType(mem[path]) = VFS_ERROR /\ IsDirectory(Parent(mem[path]))
  THEN [p \in DOMAIN disk \cup {mem[path]} |-> IF p \in DOMAIN disk THEN disk[p] ELSE VFS_REGULAR_FILE]
  ELSE disk

Children(path) ==
  {p \in DOMAIN disk : p # <<"/">> /\ Parent(p) = IF path = <<"/">> THEN <<>> ELSE path}

\* resolve_inode ends the caller's path at a slash while it looks up the name in
\* front of it, and returns without the slash when the name is not there.  What
\* the path may be afterwards: an empty directory is given up before the cut; the
\* bytes of a regular file are taken for entries after it, if it has any.
Slashes(path) == {i \in DOMAIN path : i > 1 /\ path[i] = "/"}
Cut(path) ==
  LET missing == {i \in Slashes(path) : SubSeq(path, 1, i - 1) \notin DOMAIN disk}
      cut == SubSeq(path, 1, Min(missing) - 1)
  IN CASE missing = {} -> {path}
       [] missing # {} /\ ~IsDirectory(Parent(cut)) -> {path, cut}
       [] missing # {} /\ IsDirectory(Parent(cut)) ->
            {IF Children(Parent(cut)) = {} THEN path ELSE cut}

\* The inode of a path: the one in the table, else a new one if the driver has
\* the file.  NULL if it has not.
Known(v, path) == hashmap_get(v.map, mem, path, Len(mem[path]))
Exists(v, path) == Known(v, path) # NULL \/ PhysicalType(mem[path]) # VFS_ERROR
WithInode(v, path) ==
  IF Known(v, path) # NULL THEN v ELSE insert_new_inode(v, path, Physical(mem[path]))
InodeAt(v, w, path) == IF Known(v, path) # NULL THEN Known(v, path) ELSE Len(w.inodes)
\* insert_new_inode returns NULL and the caller goes on with it.
Refuses(v, path) == hashmap_put(v.map, mem, path, Len(mem[path]), Len(v.inodes) + 1).failed
InsertFails(v, path) == Known(v, path) = NULL /\ Refuses(v, path)

-----------------------------------------------------------------------------
(* Open files.                                                             *)

\* keyboard_open: with memory the file joins the registry; when the registry
\* cannot grow, its length stays raised over an element nobody wrote.
Register(v, h, outcome) ==
  CASE outcome = "opened" -> Append(v.keyboard_file_data, h)
    [] outcome = "registry full" -> Append(v.keyboard_file_data, Garbage)
    [] OTHER -> v.keyboard_file_data

\* Mutant of keyboard_close: the first element goes instead of the last.
UnregisterFirst(v, h) == IF v.keyboard_file_data = <<>> THEN <<>> ELSE Tail(v.keyboard_file_data)

\* keyboard_close looks for its element with a comparison that never holds, so
\* the last one is dropped, whoever closes.  (No element: the length wraps.)
keyboard_close(v, h) == IF v.keyboard_file_data = <<>> THEN <<>> ELSE Front(v.keyboard_file_data)

\* The count goes up even if the driver returns NULL.
OpenInode(w, n, h, outcome) ==
  LET counted == [w EXCEPT !.inodes[n].number_of_references = @ + 1,
                           !.keyboard_file_data = IF Ops(w, n) = "kdb" THEN Register(w, h, outcome) ELSE @]
  IN IF outcome = "opened" THEN [counted EXCEPT !.files[h] = File(n)]
     ELSE [counted EXCEPT !.inodes[n].refused = @ + 1]
AtPath(v, w, path, h, outcome) == OpenInode(w, InodeAt(v, w, path), h, outcome)
vfs_open_file(v, path, h, outcome) == AtPath(v, WithInode(v, path), path, h, outcome)

\* Mutant of vfs_close_file: the count stays.
CloseUncounted(v, h, n) ==
  [v EXCEPT !.files[h].open = FALSE,
            !.keyboard_file_data = IF Ops(v, n) = "kdb" THEN keyboard_close(v, h) ELSE @]

\* n is the inode that the memory of the file names, freed or not.
vfs_close_file(v, h, n) ==
  [v EXCEPT !.files[h].open = FALSE,
            !.inodes[n].number_of_references = @ - 1,
            !.keyboard_file_data = IF Ops(v, n) = "kdb" THEN keyboard_close(v, h) ELSE @]

\* remove_process closes its three streams, one file three times if they are one.
remove_process(v, s) ==
  LET close(w, h) == IF h = NoStream THEN w ELSE vfs_close_file(w, h, v.files[h].inode)
  IN close(close(close(v, s[1]), s[2]), s[3])

\* hash_dir_iter: the files of the table that an open directory lists.  The rest
\* of the path must have no slash, but begin behind one.
Listed(v, path) ==
  {Bytes(mem, e.key, e.key_len) : e \in {f \in hashmap_iterate_pairs(v.map) :
     LET key == mem[f.key]
         rest == SubSeq(key, Len(path) + 1, Len(key))
     IN /\ IsStrictPrefix(path, key) /\ "/" \notin Range(rest) /\ Last(path) = "/"}}

\* get_directory goes by the type alone, and a block device has the same number;
\* its inode has no size, so nothing on the disk is read.
vfs_open_directory(v, path, h) ==
  LET w == WithInode(v, path)
      n == InodeAt(v, w, path)
      stored == IF Ops(w, n) = "fs" THEN Children(mem[path]) ELSE {}
  IN IF w.inodes[n].type # VFS_DIRECTORY THEN w
     ELSE [w EXCEPT !.inodes[n].number_of_references = @ + 1,
                    !.files[h] = [open |-> TRUE, inode |-> n, entries |-> stored \cup Listed(w, mem[path])]]

-----------------------------------------------------------------------------
(* The kernel's start and the system calls.                                *)

Free == Handles \ Open(vfs)
malloc == Min(Free)
\* What opening a file may come to: the driver's malloc fails, or the realloc
\* of the registry.
Refused(n) == IF Ops(vfs, n) = "kdb" THEN {"no memory", "registry full"} ELSE {"no memory"}
Outcomes(n) ==
  {"opened"} \cup (IF MapThenSumSet(LAMBDA m : vfs.inodes[m].refused, InodesOf(vfs)) < MaxRefused
                   THEN Refused(n) ELSE {})

\* The boot makes fewer inodes than the window of a hash has slots (hashmap.h:149),
\* so the table refuses none of them.
BootDevices ==
  /\ boot = 0
  /\ LET hdd == vfs_create_device_file_no_checks(vfs, "hdd", "hdd", VFS_BLOCK_DEVICE)
         drive == vfs_open_file(hdd, "hdd", malloc, "opened")
     IN /\ ~Refuses(vfs, "hdd") /\ ~InsertFails(hdd, "hdd") /\ ~Refuses(drive, "tty")
        /\ vfs' = vfs_create_device_file(drive, "tty", "tty", VFS_CHARACTER_DEVICE)
  /\ boot' = 1
  /\ UNCHANGED <<mem, disk, streams, history>>

BootPrint ==
  /\ boot = 1 /\ ~InsertFails(vfs, "tty")
  /\ vfs' = vfs_open_file(vfs, "tty", malloc, "opened")
  /\ boot' = 2
  /\ UNCHANGED <<mem, disk, streams, history>>

\* The log is created on a disk that has none, opened and closed.
BootLog ==
  /\ boot \in {2, 3}
  /\ IF Exists(vfs, "log")
     THEN LET opened == vfs_open_file(vfs, "log", malloc, "opened")
          IN /\ ~InsertFails(vfs, "log")
             /\ vfs' = vfs_close_file(opened, malloc, opened.files[malloc].inode)
             /\ boot' = 4
             /\ UNCHANGED disk
     ELSE /\ boot = 2
          /\ disk' = vfs_create_regular_file(vfs, "log")
          /\ boot' = 3
          /\ UNCHANGED vfs
  /\ UNCHANGED <<mem, streams, history>>

\* The keyboard, its file for get_line, and the first process on the console.
BootFirstProcess ==
  /\ boot = 4
  /\ \E p \in Processes :
       LET kdb == vfs_create_device_file(vfs, "kdb", "kdb", VFS_BLOCK_DEVICE)
           input == vfs_open_file(kdb, "kdb", malloc, "opened")
           tty == Min(Free \ {malloc})
       IN /\ ~Refuses(vfs, "kdb") /\ ~InsertFails(kdb, "kdb") /\ ~InsertFails(input, "tty")
          /\ vfs' = vfs_open_file(input, "tty", tty, "opened")
          /\ streams' = [streams EXCEPT ![p] = <<tty, tty, tty>>]
  /\ boot' = 5
  /\ UNCHANGED <<mem, disk, history>>

\* A file freed twice leaves the heap in no state to go on from.
Running == boot = 5 /\ ~history.twice

\* A buffer gets another path; the table may have a key there.
Rewritten(b, path) ==
  /\ Running /\ mem[b] # path
  /\ mem' = [mem EXCEPT ![b] = path]
  /\ history' = [history EXCEPT !.kept = @ /\
       \A e \in hashmap_iterate_pairs(vfs.map) : e.key # b]
  /\ UNCHANGED <<vfs, disk, streams, boot>>

\* An application reuses its buffer.
WriteBuffer(b, path) == Rewritten(b, path)

CanOpen(path) ==
  /\ Running /\ Free # {} /\ Exists(vfs, path)
  /\ Known(vfs, path) = NULL => Len(vfs.inodes) < MaxInodes
  /\ Known(vfs, path) # NULL => vfs.inodes[Known(vfs, path)].number_of_references < MaxReferences

OpenFile(b) ==
  /\ CanOpen(b) /\ ~InsertFails(vfs, b)
  /\ LET n == IF Known(vfs, b) # NULL THEN Known(vfs, b) ELSE 1
     IN \E outcome \in Outcomes(n) :
          /\ vfs' = vfs_open_file(vfs, b, malloc, outcome)
          /\ history' = [history EXCEPT !.short = @ \/ outcome = "registry full"]
  /\ UNCHANGED <<mem, disk, streams, boot>>

\* A file that does not exist: NULL, and the application's path may be cut.
OpenMissing(b) == ~Exists(vfs, b) /\ \E text \in Cut(mem[b]) : Rewritten(b, text)

CreateFile(b) ==
  /\ Running
  /\ disk' = vfs_create_regular_file(vfs, b) /\ disk' # disk
  /\ UNCHANGED <<mem, vfs, streams, boot, history>>

\* The directory does not exist: only the slash before the name is put back.
CreateMissing(b) ==
  /\ Absolute(mem[b]) /\ Known(vfs, b) = NULL
  /\ \E text \in Cut(Parent(mem[b])) \ {Parent(mem[b])} : Rewritten(b, text)

\* A keyboard file that is not the last one opened leaves the wrong ring listed.
OutOfOrder(h) ==
  Is(vfs, h, "kdb") /\ vfs.keyboard_file_data # <<>> /\ Last(vfs.keyboard_file_data) # h

\* The disk, the console and the keyboard as the kernel opened them.
KernelFiles == {1, 2, 3}
OpenFiles == {h \in Open(vfs) : "entries" \notin DOMAIN vfs.files[h]}
CloseFile(h) ==
  /\ Running /\ h \in OpenFiles
  /\ h \notin KernelFiles
  /\ vfs' = vfs_close_file(vfs, h, vfs.files[h].inode)
  /\ history' = [history EXCEPT !.inOrder = @ /\ ~OutOfOrder(h)]
  /\ UNCHANGED <<mem, disk, streams, boot>>

OpenDirectory(path) ==
  /\ CanOpen(path) /\ ~InsertFails(vfs, path)
  /\ vfs' = vfs_open_directory(vfs, path, malloc)
  /\ UNCHANGED <<mem, disk, streams, boot, history>>

vfs_close_directory(h) ==
  /\ Running /\ h \in Open(vfs) \ OpenFiles
  /\ vfs' = [vfs EXCEPT !.inodes[vfs.files[h].inode].number_of_references = @ - 1,
                        !.files[h].open = FALSE]
  /\ UNCHANGED <<mem, disk, streams, boot, history>>

Streams == (OpenFiles \ KernelFiles) \cup {NoStream}
CreateProcess(p, s) ==
  /\ Running /\ streams[p] = <<>>
  /\ streams' = [streams EXCEPT ![p] = s]
  /\ UNCHANGED <<mem, vfs, disk, boot, history>>

\* The scheduler removes an ended process.  A stream that somebody closed before
\* is closed again.
Twice(s) ==
  \/ \E i \in 1..3 : s[i] # NoStream /\ s[i] \notin OpenFiles
  \/ \E i, j \in 1..3 : i # j /\ s[i] # NoStream /\ s[i] = s[j]
Exit(p) ==
  /\ Running /\ streams[p] # <<>>
  /\ streams' = [streams EXCEPT ![p] = <<>>]
  /\ vfs' = remove_process(vfs, streams[p])
  /\ history' = [history EXCEPT !.twice = Twice(streams[p]),
       !.inOrder = @ /\ \A i \in 1..3 : streams[p][i] # NoStream => ~OutOfOrder(streams[p][i])]
  /\ UNCHANGED <<mem, disk, boot>>

Init ==
  /\ mem = [p \in DOMAIN Literals \cup Buffers |->
              IF p \in DOMAIN Literals THEN Literals[p] ELSE Literals["log"]]
  /\ vfs = [map |-> hashmap_create_ex(2), inodes |-> <<>>, keyboard_file_data |-> <<>>,
            files |-> [h \in Handles |-> Fresh]]
  /\ disk = OnDisk \/ disk = [p \in DOMAIN OnDisk \ {Literals["log"]} |-> OnDisk[p]]
  /\ streams = [p \in Processes |-> <<>>]
  /\ boot = 0
  /\ history = [kept |-> TRUE, inOrder |-> TRUE, short |-> FALSE, twice |-> FALSE]

Next ==
  \/ BootDevices \/ BootPrint \/ BootLog \/ BootFirstProcess
  \/ \E b \in Buffers : OpenFile(b) \/ OpenMissing(b) \/ CreateFile(b) \/ CreateMissing(b)
  \/ \E b \in Buffers : \E p \in UserPaths : WriteBuffer(b, p)
  \/ \E d \in {"root", "dev"} : OpenDirectory(d)
  \/ \E h \in Handles : CloseFile(h) \/ vfs_close_directory(h)
  \/ \E p \in Processes : Exit(p)
  \/ \E p \in Processes : \E out, in \in Streams : CreateProcess(p, <<out, in, NoStream>>)

Spec == Init /\ [][Next]_vars

-----------------------------------------------------------------------------
(* What the VFS promises.                                                  *)

\* While every buffer that became a key keeps its path (the comment on hashmap_put
\* asks for it), a path leads to no inode but its own, and every inode that is a
\* device or has an open is the one its path leads to, through every collision and
\* every doubling of the table (hashmap.h:336-389, 623-710 under
\* virtual-filesystem.c:42-65, 262-272): no file is open over two inodes.  Nothing is
\* asked of inodes no longer in use.  virtual-filesystem.h:74 says that the VFS removes
\* them; it never does.
LookupFindsTheFile ==
  history.kept => \A p \in DOMAIN mem :
    /\ Known(vfs, p) # NULL =>
         Known(vfs, p) \in InodesOf(vfs) /\ vfs.inodes[Known(vfs, p)].path = mem[p]
    /\ \A n \in InodesOf(vfs) :
         /\ vfs.inodes[n].path = mem[p]
         /\ Ops(vfs, n) # "fs" \/ vfs.inodes[n].number_of_references > 0
         => Known(vfs, p) = n

\* The reference count of an inode is the number of its open files and
\* directories and of the opens its driver refused, until the end of a process
\* closes a file for the second time (virtual-filesystem.c:226-284, process.c:153-161).
CountsMatchHandles ==
  ~history.twice => \A n \in InodesOf(vfs) :
    vfs.inodes[n].number_of_references =
      Cardinality({h \in Open(vfs) : vfs.files[h].inode = n}) + vfs.inodes[n].refused

\* When keyboard files are closed in the opposite order of their opens and the
\* registry could always grow, an event goes to the ring of every open keyboard
\* file, once, and to no freed ring (keyboard.c:42-96).
RegistryFollowsOpens ==
  history.inOrder /\ ~history.short /\ ~history.twice =>
    /\ Range(vfs.keyboard_file_data) = {h \in Handles : Is(vfs, h, "kdb")}
    /\ IsInjective(vfs.keyboard_file_data)
=============================================================================
