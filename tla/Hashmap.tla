------------------------------ MODULE Hashmap ------------------------------
(***************************************************************************)
(* The hash table that the VFS keeps its inodes in, kernel/hashmap/        *)
(* hashmap.h: linear probing over a short window behind the hashed slot,   *)
(* doubling when the window is full.                                       *)
(*                                                                         *)
(* A key is the caller's pointer.  The table does not copy the bytes, so   *)
(* every comparison and every rehash reads what the buffer holds then:     *)
(* `mem' maps a pointer to its present string, a sequence of tokens.       *)
(***************************************************************************)
EXTENDS Integers, Sequences, SequencesExt, FiniteSetsExt

CONSTANTS Hash,          \* a string to the hash of its bytes
          HASH_BITS,     \* 32
          PROBE_LENGTH,  \* 8
          NULL           \* what hashmap_get returns when there is nothing

\* 1 << k.
Bit[k \in 0..HASH_BITS] == IF k = 0 THEN 1 ELSE 2 * Bit[k - 1]

ASSUME HashAssumption ==
  /\ HASH_BITS \in Nat \ {0, 1} /\ PROBE_LENGTH \in Nat \ {0} /\ NULL \notin Nat
  /\ \A s \in DOMAIN Hash : Hash[s] \in 0..(Bit[HASH_BITS] - 1)

Unused == [in_use |-> FALSE]
Element(key, len, data) == [in_use |-> TRUE, key |-> key, key_len |-> len, data |-> data]

\* The tables, and the arguments of hashmap_put, with keys of a set.
Elements(keys) == {Unused} \cup [in_use : {TRUE}, key : keys, key_len : Nat, data : Nat]
Table(keys, k) ==
  [log2_capacity : {k}, size : Int, data : [0..(Bit[k] + PROBE_LENGTH - 1) -> Elements(keys)]]
Tables(keys) ==
  LET upTo[k \in 0..(HASH_BITS - 1)] == IF k = 0 THEN {} ELSE upTo[k - 1] \cup Table(keys, k)
  IN upTo[HASH_BITS - 1]
Puts(keys) == [map : Tables(keys), key : keys, len : Nat, data : Nat]

hashmap_capacity(m) == Bit[m.log2_capacity]
Indexes(m) == 0..(hashmap_capacity(m) + PROBE_LENGTH - 1)
UsedIn(m, indexes) == {i \in indexes : m.data[i].in_use}

\* The capacity is the next power of two, and at least two.
hashmap_create_ex(capacity) ==
  LET log2 == CHOOSE k \in 1..HASH_BITS :
                Bit[k] >= capacity /\ (k = 1 \/ Bit[k - 1] < capacity)
  IN [log2_capacity |-> log2, size |-> 0,
      data |-> [i \in 0..(Bit[log2] + PROBE_LENGTH - 1) |-> Unused]]

\* The first `len' tokens behind a pointer; a string that became shorter ends there.
Bytes(mem, key, len) == SubSeq(mem[key], 1, IF len < Len(mem[key]) THEN len ELSE Len(mem[key]))

hashmap_crc32_hasher(bytes) == IF bytes \in DOMAIN Hash THEN Hash[bytes] ELSE 0

hashmap_memcmp_comparer(mem, e, bytes) ==
  e.key_len = Len(bytes) /\ Bytes(mem, e.key, e.key_len) = bytes

\* The window of slots that a key may be in.
Probed(m, bytes) ==
  LET curr == hashmap_crc32_hasher(bytes) \div Bit[HASH_BITS - m.log2_capacity]
  IN curr..(curr + PROBE_LENGTH - 1)

Holding(m, mem, bytes) ==
  {i \in UsedIn(m, Probed(m, bytes)) : hashmap_memcmp_comparer(mem, m.data[i], bytes)}
Vacant(m, bytes) == Probed(m, bytes) \ UsedIn(m, Probed(m, bytes))

hashmap_get(m, mem, key, len) ==
  LET at == Holding(m, mem, Bytes(mem, key, len))
  IN IF len = 0 \/ at = {} THEN NULL ELSE m.data[Min(at)].data

\* Where a key goes: the slot that holds it, else the first free one of its
\* window, else -1.  A full table has no place even for a key it holds.
hashmap_hash_helper(m, mem, bytes) ==
  LET at == Holding(m, mem, bytes)
      free == Vacant(m, bytes)
  IN CASE m.size = hashmap_capacity(m) -> -1
       [] m.size # hashmap_capacity(m) /\ at # {} -> Min(at)
       [] m.size # hashmap_capacity(m) /\ at = {} /\ free # {} -> Min(free)
       [] OTHER -> -1

Store(m, i, e) ==
  [m EXCEPT !.data[i] = e, !.size = IF m.data[i].in_use THEN @ ELSE @ + 1]
Blank(m, i) == [m EXCEPT !.data[i] = Unused, !.size = @ - 1]

\* hashmap_rehash_helper: an element is blanked in the old table once it is in
\* the new one, so a failure half-way leaves the old table without it.  `put' is
\* hashmap_put, which it calls for the elements below `last'.
Doubled(m) == [failed |-> FALSE, old |-> m, map |-> hashmap_create_ex(2 * hashmap_capacity(m))]
Blanked(r, i, put) ==
  [failed |-> put.failed, old |-> IF put.failed THEN r.old ELSE Blank(r.old, i), map |-> put.map]
Moved(r, i, e, put) ==
  IF r.failed \/ ~e.in_use THEN r
  ELSE Blanked(r, i, put[[map |-> r.map, key |-> e.key, len |-> e.key_len, data |-> e.data]])
Rehashed(m, put, last) ==
  LET moved[i \in 0..last] ==
        IF i = 0 THEN Doubled(m) ELSE Moved(moved[i - 1], i - 1, m.data[i - 1], put)
  IN [failed |-> moved[last].failed, map |-> IF moved[last].failed THEN moved[last].old ELSE moved[last].map]

\* Mutant of hashmap_rehash_helper: the slots behind the capacity are not moved.
RehashWithoutTail(m, put) == Rehashed(m, put, hashmap_capacity(m))

hashmap_rehash_helper(m, put) ==
  IF m.log2_capacity = HASH_BITS - 1 THEN [failed |-> TRUE, map |-> m]
  ELSE Rehashed(m, put, hashmap_capacity(m) + PROBE_LENGTH)

Retried(r, c, put) == IF r.failed THEN r ELSE put[[c EXCEPT !.map = r.map]]

\* One call of hashmap_put; `put' are the calls it makes.
Put(c, mem, put) ==
  LET i == hashmap_hash_helper(c.map, mem, Bytes(mem, c.key, c.len))
  IN IF c.len = 0 THEN [failed |-> TRUE, map |-> c.map]
     ELSE IF i # -1 THEN [failed |-> FALSE, map |-> Store(c.map, i, Element(c.key, c.len, c.data))]
     ELSE Retried(hashmap_rehash_helper(c.map, put), c, put)

\* [failed |-> whether it returned 1, map |-> the table afterwards].  Every call
\* in a call is for a table of at least twice the capacity, so none is deeper
\* than the bits of a hash.
hashmap_put(m, mem, key, len, data) ==
  LET put[k \in 0..HASH_BITS] ==
        [c \in Puts(DOMAIN mem) |->
           IF k = 0 THEN [failed |-> TRUE, map |-> c.map] ELSE Put(c, mem, put[k - 1])]
  IN put[HASH_BITS][[map |-> m, key |-> key, len |-> len, data |-> data]]

\* The elements that an iteration visits.
hashmap_iterate_pairs(m) == {m.data[i] : i \in UsedIn(m, Indexes(m))}
=============================================================================
