------------------------------ MODULE VfsProofs ------------------------------
(***************************************************************************)
(* Proofs about the virtual file system: the reference counts of its       *)
(* inodes, the registry of keyboard files, and the table of paths.  For    *)
(* every hash, size of the table's window, set of paths, buffers, handles  *)
(* and processes.                                                          *)
(***************************************************************************)
EXTENDS Vfs, Recursion, FunctionTheorems, SequenceTheorems

-----------------------------------------------------------------------------
(* Powers of two.                                                          *)

LEMMA HashIs ==
  /\ HASH_BITS \in Nat /\ HASH_BITS >= 2 /\ PROBE_LENGTH \in Nat /\ PROBE_LENGTH > 0
  /\ NULL \notin Nat
  /\ \A s \in DOMAIN Hash : Hash[s] \in 0..(Bit[HASH_BITS] - 1)
BY HashAssumption

LEMMA BitIs ==
  /\ Bit[0] = 1
  /\ \A k \in 1..HASH_BITS : Bit[k] = 2 * Bit[k - 1]
  /\ \A k \in 0..HASH_BITS : Bit[k] \in Nat /\ Bit[k] >= 1
<1> DEFINE N == HASH_BITS
           Positive == Nat \ {0}
           G == [k \in 1..N |-> [x \in Positive |-> 2 * x]]
           F(g) == g = [k \in 0..N |-> IF k = 0 THEN 1 ELSE 2 * g[k - 1]]
<1>1. N \in Nat /\ 1 \in Positive /\ G \in [1..N -> [Positive -> Positive]] BY HashIs
<1>2. \A k \in 1..N : \A x \in Positive : G[k][x] = 2 * x OBVIOUS
<1>p. Positive = Nat \ {0} OBVIOUS
<1> HIDE DEF G, Positive
<1>3. PICK f \in [0..N -> Positive] : Turns(f, N, 1, G) BY <1>1, TurnsExist
<1>4. F(f)
  <2>1. \A k \in 0..N : f[k] = IF k = 0 THEN 1 ELSE G[k][f[k - 1]] BY <1>3 DEF Turns
  <2>2. \A k \in 0..N : k # 0 => k \in 1..N /\ f[k - 1] \in Positive BY <1>1
  <2> QED BY <1>2, <2>1, <2>2
<1>5. F(Bit) BY <1>4 DEF Bit
<1>6. Bit[0] = 1 /\ \A k \in 1..N : Bit[k] = 2 * Bit[k - 1]
  <2>1. \A k \in 0..N : Bit[k] = IF k = 0 THEN 1 ELSE 2 * Bit[k - 1] BY <1>5
  <2> QED BY <1>1, <2>1
<1>7. \A k \in 1..N : Bit[k - 1] \in Positive => Bit[k] = G[k][Bit[k - 1]] BY <1>2, <1>6
<1>8. \A k \in 0..N : Bit[k] \in Positive BY <1>1, <1>6, <1>7, TurnsStay
<1> QED BY <1>6, <1>8, <1>p

LEMMA BitGrows ==
  ASSUME NEW j \in 0..HASH_BITS, NEW k \in 0..HASH_BITS, j <= k
  PROVE  Bit[j] <= Bit[k]
<1> DEFINE P == {n \in Nat : j + n <= HASH_BITS => Bit[j] <= Bit[j + n]}
<1>1. 0 \in P BY BitIs
<1>2. ASSUME NEW n \in P, n < HASH_BITS PROVE n + 1 \in P
  <2>1. SUFFICES ASSUME j + (n + 1) <= HASH_BITS PROVE Bit[j] <= Bit[j + (n + 1)] BY <1>2
  <2>0. n \in Nat /\ (j + n <= HASH_BITS => Bit[j] <= Bit[j + n]) OBVIOUS
  <2>2. j + (n + 1) \in 1..HASH_BITS /\ j + n \in 0..HASH_BITS /\ (j + (n + 1)) - 1 = j + n
    BY <2>0, <2>1, HashIs
  <2>3. Bit[j] <= Bit[j + n] BY <2>0, <2>1, <2>2, HashIs
  <2>4. Bit[j + (n + 1)] = 2 * Bit[j + n] /\ Bit[j + n] \in Nat /\ Bit[j] \in Nat BY <2>2, BitIs
  <2> QED BY <2>3, <2>4
<1>3. P \in SUBSET Nat /\ HASH_BITS \in Nat BY HashIs
<1> HIDE DEF P
<1>4. 0..HASH_BITS \subseteq P BY <1>1, <1>2, <1>3, CountingUp
<1>5. k - j \in P /\ j + (k - j) = k BY <1>3, <1>4
<1> QED BY <1>3, <1>5 DEF P

LEMMA BitAdds ==
  ASSUME NEW j \in 0..HASH_BITS
  PROVE  Bit[HASH_BITS] = Bit[j] * Bit[HASH_BITS - j]
<1> DEFINE P == {n \in Nat : n <= j => Bit[HASH_BITS] = Bit[n] * Bit[HASH_BITS - n]}
<1>1. 0 \in P
  <2>1. HASH_BITS \in 0..HASH_BITS /\ HASH_BITS - 0 = HASH_BITS BY HashIs
  <2> QED BY <2>1, BitIs
<1>2. ASSUME NEW n \in P, n < j PROVE n + 1 \in P
  <2>1. /\ n + 1 \in 1..HASH_BITS /\ HASH_BITS - n \in 1..HASH_BITS /\ (n + 1) - 1 = n
        /\ (HASH_BITS - n) - 1 = HASH_BITS - (n + 1) /\ HASH_BITS - (n + 1) \in 0..HASH_BITS
        /\ n \in 0..HASH_BITS
    BY <1>2, HashIs
  <2>2. Bit[HASH_BITS] = Bit[n] * Bit[HASH_BITS - n] BY <1>2
  <2>3. Bit[n + 1] = 2 * Bit[n] /\ Bit[HASH_BITS - n] = 2 * Bit[HASH_BITS - (n + 1)] BY <2>1, BitIs
  <2>4. Bit[n] \in Nat /\ Bit[HASH_BITS - (n + 1)] \in Nat BY <2>1, BitIs
  <2>5. \A x, y \in Nat : x * (2 * y) = (2 * x) * y OBVIOUS
  <2>6. Bit[HASH_BITS] = Bit[n + 1] * Bit[HASH_BITS - (n + 1)] BY <2>2, <2>3, <2>4, <2>5
  <2> QED BY <2>6
<1>3. P \in SUBSET Nat /\ j \in Nat BY HashIs
<1> HIDE DEF P
<1>4. 0..j \subseteq P BY <1>1, <1>2, <1>3, CountingUp
<1>5. j \in P BY <1>3, <1>4
<1> QED BY <1>3, <1>5 DEF P

-----------------------------------------------------------------------------
(* Tables.                                                                 *)

\* A set of numbers has the least number Min chooses.
LEMMA MinIs ==
  ASSUME NEW S \in SUBSET Nat, S # {}
  PROVE  Min(S) \in S /\ \A x \in S : Min(S) <= x
BY LeastNumber DEF Min

\* A set of numbers up to n has the greatest number Max chooses.
LEMMA MaxIs ==
  ASSUME NEW n \in Nat, NEW S \in SUBSET (1..n), S # {}
  PROVE  Max(S) \in S
<1> DEFINE D == {n - x : x \in S}
<1>1. D \in SUBSET Nat /\ D # {}
  <2>1. PICK y \in S : TRUE OBVIOUS
  <2>2. n - y \in D BY <2>1
  <2>3. \A x \in S : x \in 1..n /\ n - x \in Nat OBVIOUS
  <2> QED BY <2>2, <2>3
<1>2. Min(D) \in D /\ \A d \in D : Min(D) <= d BY <1>1, MinIs
<1>3. PICK x \in S : Min(D) = n - x BY <1>2
<1>4. \A y \in S : x >= y
  <2>1. TAKE y \in S
  <2>2. n - x <= n - y BY <1>2, <1>3
  <2> QED BY <2>2
<1> QED BY <1>4 DEF Max

LEMMA TablesIs ==
  ASSUME NEW keys
  PROVE  \A m : m \in Tables(keys) <=> \E k \in 1..(HASH_BITS - 1) : m \in Table(keys, k)
<1> DEFINE N == HASH_BITS - 1
           F(g) == g = [k \in 0..N |-> IF k = 0 THEN {} ELSE g[k - 1] \cup Table(keys, k)]
           f == [k \in 0..N |-> UNION {Table(keys, j) : j \in 1..k}]
<1>1. N \in Nat BY HashIs
<1> HIDE DEF N
<1>2. f[0] = {}
  <2>1. 1..0 = {} /\ 0 \in 0..N BY <1>1
  <2>2. f[0] = UNION {Table(keys, j) : j \in 1..0} BY <2>1
  <2> QED BY <2>1, <2>2
<1>3. \A k \in 1..N : f[k] = f[k - 1] \cup Table(keys, k)
  <2>1. TAKE k \in 1..N
  <2>2. 1..k = (1..(k - 1)) \cup {k} /\ k \in 0..N /\ k - 1 \in 0..N BY <1>1
  <2> QED BY <2>2
<1>4. \A m : m \in f[N] <=> \E k \in 1..N : m \in Table(keys, k) BY <1>1
<1>5. f = [k \in 0..N |-> f[k]] OBVIOUS
<1> HIDE DEF f
<1>6. F(f)
  <2>1. \A k \in 0..N : f[k] = IF k = 0 THEN {} ELSE f[k - 1] \cup Table(keys, k)
    BY <1>1, <1>2, <1>3
  <2> QED BY <1>5, <2>1
<1>7. PICK h : Tables(keys) = h[N] /\ F(h) BY <1>6 DEF Tables, N
<1>8. \A k \in 0..N : h[k] = IF k = 0 THEN {} ELSE h[k - 1] \cup Table(keys, k) BY <1>7
<1> DEFINE P == {k \in Nat : k <= N => h[k] = f[k]}
<1>a. h[0] = {}
  <2>1. 0 \in 0..N BY <1>1
  <2> QED BY <2>1, <1>8
<1>b. h[0] = f[0] BY <1>2, <1>a
<1>9. 0 \in P /\ P \in SUBSET Nat BY <1>b
<1>10. ASSUME NEW k \in P, k < N PROVE k + 1 \in P
  <2>1. k + 1 \in 1..N /\ (k + 1) - 1 = k /\ k + 1 \in 0..N /\ k + 1 # 0 BY <1>1, <1>10
  <2>2. h[k + 1] = h[(k + 1) - 1] \cup Table(keys, k + 1) BY <1>8, <2>1
  <2>3. f[k + 1] = f[(k + 1) - 1] \cup Table(keys, k + 1) BY <1>3, <2>1
  <2>4. h[k] = f[k] BY <1>1, <1>10
  <2>5. h[k + 1] = f[k + 1] BY <2>1, <2>2, <2>3, <2>4
  <2>6. k + 1 \in Nat BY <2>1
  <2> QED BY <2>5, <2>6
<1> HIDE DEF P
<1>11. 0..N \subseteq P BY <1>1, <1>9, <1>10, CountingUp
<1>12. N \in P BY <1>1, <1>11
<1>13. h[N] = f[N] BY <1>1, <1>12 DEF P
<1> QED BY <1>4, <1>7, <1>13 DEF N

LEMMA TableIs ==
  ASSUME NEW keys, NEW m \in Tables(keys)
  PROVE  /\ m = [log2_capacity |-> m.log2_capacity, size |-> m.size, data |-> m.data]
         /\ m.log2_capacity \in 1..(HASH_BITS - 1) /\ m.size \in Int
         /\ m.data \in [Indexes(m) -> Elements(keys)]
BY TablesIs DEF Table, Indexes, hashmap_capacity

LEMMA IsTable ==
  ASSUME NEW keys, NEW log2 \in 1..(HASH_BITS - 1), NEW size \in Int,
         NEW data \in [0..(Bit[log2] + PROBE_LENGTH - 1) -> Elements(keys)]
  PROVE  [log2_capacity |-> log2, size |-> size, data |-> data] \in Tables(keys)
<1>1. [log2_capacity |-> log2, size |-> size, data |-> data] \in Table(keys, log2) BY DEF Table
<1> QED BY <1>1, TablesIs

\* The elements a table uses.
Used(m) == {m.data[i] : i \in UsedIn(m, Indexes(m))}

\* The path of an element, while nobody rewrites its key.
PathOf(memory, e) == Bytes(memory, e.key, e.key_len)
Whole(memory, e) == e.key_len # 0 /\ e.key_len = Len(PathOf(memory, e))

\* Every path of a table is in the window of its hash, once.
Found(m, memory) ==
  /\ \A i \in UsedIn(m, Indexes(m)) :
       Whole(memory, m.data[i]) /\ i \in Probed(m, PathOf(memory, m.data[i]))
  /\ \A i, j \in UsedIn(m, Indexes(m)) :
       PathOf(memory, m.data[i]) = PathOf(memory, m.data[j]) => i = j
  /\ IsFiniteSet(Used(m)) /\ m.size = Cardinality(Used(m))
New(m, memory, path) == \A e \in Used(m) : PathOf(memory, e) # path

\* The window behind a hash is inside the table.
LEMMA ProbedInside ==
  ASSUME NEW keys, NEW m \in Tables(keys), NEW bytes
  PROVE  /\ Probed(m, bytes) \subseteq Indexes(m) /\ Probed(m, bytes) \subseteq Nat
         /\ Probed(m, bytes) # {}
<1> DEFINE h == hashmap_crc32_hasher(bytes)
           b == Bit[HASH_BITS - m.log2_capacity]
           c == Bit[m.log2_capacity]
<1>1. m.log2_capacity \in 0..HASH_BITS /\ HASH_BITS - m.log2_capacity \in 0..HASH_BITS
  BY HashIs, TableIs
<1>2. b \in Nat /\ b >= 1 /\ c \in Nat /\ Bit[HASH_BITS] = c * b BY <1>1, BitIs, BitAdds
<1>3. h \in Nat /\ h < c * b
  <2>1. HASH_BITS \in 0..HASH_BITS /\ Bit[HASH_BITS] \in Nat /\ Bit[HASH_BITS] >= 1
    BY HashIs, BitIs
  <2>2. h \in 0..(Bit[HASH_BITS] - 1) BY <2>1, HashIs DEF hashmap_crc32_hasher
  <2> HIDE DEF h, b, c
  <2> QED BY <1>2, <2>1, <2>2
<1> HIDE DEF h, b, c
<1>4. h \div b \in Nat /\ h \div b < c
  <2> DEFINE q == h \div b
  <2>1. q \in Int /\ q * b <= h /\ h < (q + 1) * b /\ q >= 0 BY <1>2, <1>3
  <2> HIDE DEF q
  <2>2. q * b < c * b BY <1>2, <1>3, <2>1
  <2>3. ASSUME q >= c PROVE FALSE
    <3>1. (q - c) * b >= 0 BY <1>2, <2>1, <2>3
    <3>2. (q - c) * b = q * b - c * b BY <1>2, <2>1
    <3>3. q * b \in Int /\ c * b \in Int BY <1>2, <2>1
    <3> HIDE DEF b, c
    <3> QED BY <2>2, <3>1, <3>2, <3>3
  <2>4. q \in Nat /\ q < c BY <1>2, <2>1, <2>3
  <2> QED BY <2>4 DEF q
<1>5. Probed(m, bytes) = (h \div b)..((h \div b) + PROBE_LENGTH - 1) BY DEF Probed, h, b
<1>6. Indexes(m) = 0..(c + PROBE_LENGTH - 1) BY DEF Indexes, hashmap_capacity, c
<1> QED BY <1>2, <1>4, <1>5, <1>6, HashIs

LEMMA StoreIs ==
  ASSUME NEW log2, NEW size \in Int, NEW data, NEW i, NEW e,
         NEW t, t = [log2_capacity |-> log2, size |-> size, data |-> data]
  PROVE  Store(t, i, e) = [log2_capacity |-> log2,
                           size |-> IF data[i].in_use THEN size ELSE size + 1,
                           data |-> [data EXCEPT ![i] = e]]
<1> DEFINE m == [log2_capacity |-> log2, size |-> size, data |-> data]
           stored == [data EXCEPT ![i] = e]
           m1 == [log2_capacity |-> log2, size |-> size, data |-> stored]
           n == IF data[i].in_use THEN size ELSE size + 1
<1>1. [m EXCEPT !.data[i] = e] = m1 OBVIOUS
<1>2. Store(m, i, e) = [[m EXCEPT !.data[i] = e] EXCEPT !.size = n]
  <2>1. m.data = data /\ m.size = size OBVIOUS
  <2>2. Store(m, i, e) = [[m EXCEPT !.data[i] = e] EXCEPT !.size = IF m.data[i].in_use THEN m.size ELSE m.size + 1]
    <3> HIDE DEF m
    <3> QED BY DEF Store
  <2> HIDE DEF m
  <2> QED BY <2>1, <2>2
<1> HIDE DEF stored, n
<1>3. [m1 EXCEPT !.size = n] = [log2_capacity |-> log2, size |-> n, data |-> stored] OBVIOUS
<1> QED BY <1>1, <1>2, <1>3 DEF stored, n

LEMMA BlankIs ==
  ASSUME NEW log2, NEW size \in Int, NEW data, NEW i,
         NEW t, t = [log2_capacity |-> log2, size |-> size, data |-> data]
  PROVE  Blank(t, i) = [log2_capacity |-> log2, size |-> size - 1,
                        data |-> [data EXCEPT ![i] = Unused]]
<1> DEFINE m == [log2_capacity |-> log2, size |-> size, data |-> data]
           blanked == [data EXCEPT ![i] = Unused]
           m2 == [log2_capacity |-> log2, size |-> size, data |-> blanked]
<1>1. [m EXCEPT !.data[i] = Unused] = m2 OBVIOUS
<1>2. Blank(m, i) = [[m EXCEPT !.data[i] = Unused] EXCEPT !.size = size - 1]
  <2>1. m.size = size OBVIOUS
  <2>2. Blank(m, i) = [[m EXCEPT !.data[i] = Unused] EXCEPT !.size = m.size - 1]
    <3> HIDE DEF m
    <3> QED BY DEF Blank
  <2> HIDE DEF m
  <2> QED BY <2>1, <2>2
<1> HIDE DEF blanked
<1>3. [m2 EXCEPT !.size = size - 1] = [log2_capacity |-> log2, size |-> size - 1, data |-> blanked] OBVIOUS
<1> QED BY <1>1, <1>2, <1>3 DEF blanked

LEMMA StoreType ==
  ASSUME NEW keys, NEW m \in Tables(keys), NEW i \in Indexes(m), NEW e \in Elements(keys)
  PROVE  LET t == Store(m, i, e)
         IN /\ t \in Tables(keys) /\ Used(t) \subseteq Used(m) \cup {e}
            /\ Indexes(t) = Indexes(m) /\ t.log2_capacity = m.log2_capacity
            /\ t.size = IF m.data[i].in_use THEN m.size ELSE m.size + 1
            /\ \A j \in Indexes(m) : t.data[j] = IF j = i THEN e ELSE m.data[j]
<1> DEFINE data == [m.data EXCEPT ![i] = e]
           size == IF m.data[i].in_use THEN m.size ELSE m.size + 1
<1>1. /\ m = [log2_capacity |-> m.log2_capacity, size |-> m.size, data |-> m.data]
      /\ m.log2_capacity \in 1..(HASH_BITS - 1) /\ m.size \in Int
      /\ m.data \in [Indexes(m) -> Elements(keys)]
  BY TableIs
<1>2. size \in Int BY <1>1
<1>3. data \in [Indexes(m) -> Elements(keys)] BY <1>1
<1>4. Indexes(m) = 0..(Bit[m.log2_capacity] + PROBE_LENGTH - 1) BY DEF Indexes, hashmap_capacity
<1>5. Store(m, i, e) = [log2_capacity |-> m.log2_capacity, size |-> size, data |-> data]
  BY <1>1, StoreIs
<1>6. \A j \in Indexes(m) : data[j] = IF j = i THEN e ELSE m.data[j] BY <1>1
<1> HIDE DEF data, size
<1>7. Store(m, i, e) \in Tables(keys) BY <1>1, <1>2, <1>3, <1>4, <1>5, IsTable
<1>8. /\ Indexes(Store(m, i, e)) = Indexes(m) /\ Store(m, i, e).data = data
      /\ Store(m, i, e).size = size /\ Store(m, i, e).log2_capacity = m.log2_capacity
  BY <1>5 DEF Indexes, hashmap_capacity
<1>9. Used(Store(m, i, e)) \subseteq Used(m) \cup {e} BY <1>6, <1>8 DEF Used, UsedIn
<1> QED BY <1>6, <1>7, <1>8, <1>9 DEF size

LEMMA BlankType ==
  ASSUME NEW keys, NEW m \in Tables(keys), NEW i \in Indexes(m)
  PROVE  Blank(m, i) \in Tables(keys) /\ Used(Blank(m, i)) \subseteq Used(m)
<1> DEFINE data == [m.data EXCEPT ![i] = Unused]
<1>1. /\ m = [log2_capacity |-> m.log2_capacity, size |-> m.size, data |-> m.data]
      /\ m.log2_capacity \in 1..(HASH_BITS - 1) /\ m.size \in Int
      /\ m.data \in [Indexes(m) -> Elements(keys)]
  BY TableIs
<1>2. m.size - 1 \in Int BY <1>1
<1>3. data \in [Indexes(m) -> Elements(keys)] BY <1>1 DEF Elements
<1>4. Indexes(m) = 0..(Bit[m.log2_capacity] + PROBE_LENGTH - 1) BY DEF Indexes, hashmap_capacity
<1>5. Blank(m, i) = [log2_capacity |-> m.log2_capacity, size |-> m.size - 1, data |-> data]
  BY <1>1, BlankIs
<1>6. \A j \in Indexes(m) : data[j] = IF j = i THEN Unused ELSE m.data[j] BY <1>1
<1> HIDE DEF data
<1>7. Blank(m, i) \in Tables(keys) BY <1>1, <1>2, <1>3, <1>4, <1>5, IsTable
<1>8. Indexes(Blank(m, i)) = Indexes(m) /\ Blank(m, i).data = data
  BY <1>5 DEF Indexes, hashmap_capacity
<1>9. ~Unused.in_use BY DEF Unused
<1>10. Used(Blank(m, i)) \subseteq Used(m) BY <1>6, <1>8, <1>9 DEF Used, UsedIn
<1> QED BY <1>7, <1>10

\* An empty table of the capacity that is asked for, if that is a power of two.
LEMMA CreateIs ==
  ASSUME NEW keys, NEW log2 \in 1..(HASH_BITS - 1), NEW capacity, capacity = Bit[log2]
  PROVE  LET m == hashmap_create_ex(capacity)
         IN m \in Tables(keys) /\ Used(m) = {} /\ m.size = 0
<1> DEFINE Fits(k) == Bit[k] >= capacity /\ (k = 1 \/ Bit[k - 1] < capacity)
           found == CHOOSE k \in 1..HASH_BITS : Fits(k)
<1>1. log2 \in 1..HASH_BITS /\ log2 \in 0..HASH_BITS BY HashIs
<1>2. Fits(log2)
  <2>1. Bit[log2] = 2 * Bit[log2 - 1] /\ Bit[log2 - 1] \in Nat /\ Bit[log2 - 1] >= 1
    BY <1>1, HashIs, BitIs
  <2> QED BY <2>1
<1>3. found \in 1..HASH_BITS /\ Fits(found) BY <1>1, <1>2
<1> HIDE DEF found
<1>4. found = log2
  <2>1. ASSUME found < log2 PROVE FALSE
    <3>1. found \in 0..HASH_BITS /\ log2 - 1 \in 0..HASH_BITS /\ found <= log2 - 1
      BY <1>1, <1>3, <2>1, HashIs
    <3>2. Bit[found] <= Bit[log2 - 1] BY <3>1, BitGrows
    <3>3. Bit[log2] = 2 * Bit[log2 - 1] /\ Bit[log2 - 1] \in Nat /\ Bit[log2 - 1] >= 1 /\ Bit[found] \in Nat
      BY <1>1, <3>1, BitIs
    <3> QED BY <1>3, <3>2, <3>3
  <2>2. ASSUME found > log2 PROVE FALSE
    <3>1. found - 1 \in 0..HASH_BITS /\ log2 <= found - 1 /\ found # 1 BY <1>1, <1>3, <2>2, HashIs
    <3>2. Bit[log2] <= Bit[found - 1] /\ Bit[log2] \in Nat /\ Bit[found - 1] \in Nat
      BY <1>1, <3>1, BitGrows, BitIs
    <3> QED BY <1>3, <3>1, <3>2
  <2> QED BY <1>3, <2>1, <2>2
<1> DEFINE data == [i \in 0..(Bit[log2] + PROBE_LENGTH - 1) |-> Unused]
           m == hashmap_create_ex(capacity)
<1>5. m = [log2_capacity |-> log2, size |-> 0, data |-> data]
  <2>1. m = [log2_capacity |-> found, size |-> 0,
             data |-> [i \in 0..(Bit[found] + PROBE_LENGTH - 1) |-> Unused]]
    BY DEF hashmap_create_ex, found
  <2> QED BY <1>4, <2>1
<1>6. data \in [0..(Bit[log2] + PROBE_LENGTH - 1) -> Elements(keys)] BY DEF Elements
<1>7. \A i \in 0..(Bit[log2] + PROBE_LENGTH - 1) : ~data[i].in_use BY DEF Unused
<1> HIDE DEF data, m
<1>8. m \in Tables(keys) BY <1>5, <1>6, IsTable
<1>9. Used(m) = {} /\ m.size = 0
  <2>1. Indexes(m) = 0..(Bit[log2] + PROBE_LENGTH - 1) /\ m.data = data /\ m.size = 0
    BY <1>5 DEF Indexes, hashmap_capacity
  <2> QED BY <1>7, <2>1 DEF Used, UsedIn
<1> QED BY <1>8, <1>9 DEF m

\* A place is inside the table, and an empty table has one.
LEMMA PlaceIs ==
  ASSUME NEW keys, NEW m \in Tables(keys), NEW memory, NEW bytes
  PROVE  LET i == hashmap_hash_helper(m, memory, bytes)
         IN i \in Indexes(m) \cup {-1} /\ (m.size = 0 /\ Used(m) = {} => i # -1)
<1> DEFINE at == Holding(m, memory, bytes)
           free == Vacant(m, bytes)
           i == hashmap_hash_helper(m, memory, bytes)
<1>1. /\ Probed(m, bytes) \subseteq Indexes(m) /\ Probed(m, bytes) \subseteq Nat
      /\ Probed(m, bytes) # {}
  BY ProbedInside
<1>2. at \subseteq Probed(m, bytes) /\ free \subseteq Probed(m, bytes)
  BY DEF Holding, Vacant, UsedIn
<1>3. at # {} => Min(at) \in at BY <1>1, <1>2, MinIs
<1>4. free # {} => Min(free) \in free BY <1>1, <1>2, MinIs
<1>5. i = CASE m.size = hashmap_capacity(m) -> -1
            [] m.size # hashmap_capacity(m) /\ at # {} -> Min(at)
            [] m.size # hashmap_capacity(m) /\ at = {} /\ free # {} -> Min(free)
            [] OTHER -> -1
  BY DEF hashmap_hash_helper
<1>6. ASSUME m.size = 0, Used(m) = {} PROVE m.size # hashmap_capacity(m) /\ at = {} /\ free # {}
  <2>1. m.log2_capacity \in 0..HASH_BITS BY TableIs, HashIs
  <2>2. hashmap_capacity(m) \in Nat /\ hashmap_capacity(m) >= 1 BY <2>1, BitIs DEF hashmap_capacity
  <2>3. UsedIn(m, Probed(m, bytes)) = {} BY <1>1, <1>6 DEF Used, UsedIn
  <2> QED BY <1>1, <1>6, <2>2, <2>3 DEF Holding, Vacant
<1>7. -1 \notin Nat OBVIOUS
<1> HIDE DEF at, free, i
<1>8. i \in Indexes(m) \cup {-1} BY <1>1, <1>2, <1>3, <1>4, <1>5
<1>9. m.size = 0 /\ Used(m) = {} => i \in Nat BY <1>1, <1>2, <1>4, <1>5, <1>6
<1> QED BY <1>7, <1>8, <1>9 DEF i

\* A new path goes into its window.
LEMMA StoreFinds ==
  ASSUME NEW keys, NEW m \in Tables(keys), NEW memory, Found(m, memory),
         NEW e \in Elements(keys), e.in_use, Whole(memory, e), New(m, memory, PathOf(memory, e)),
         NEW i, i = hashmap_hash_helper(m, memory, PathOf(memory, e)), i # -1
  PROVE  Found(Store(m, i, e), memory) /\ Used(Store(m, i, e)) = Used(m) \cup {e}
<1> DEFINE path == PathOf(memory, e)
           at == Holding(m, memory, path)
           free == Vacant(m, path)
           t == Store(m, i, e)
           slots == UsedIn(m, Indexes(m))
<1>1. Probed(m, path) \subseteq Indexes(m) /\ Probed(m, path) \subseteq Nat BY ProbedInside
<1>2. at = {}
  <2>1. ASSUME NEW j \in at PROVE FALSE
    <3>1. j \in Indexes(m) /\ m.data[j].in_use /\ hashmap_memcmp_comparer(memory, m.data[j], path)
      BY <1>1 DEF Holding, UsedIn
    <3>2. m.data[j] \in Used(m) BY <3>1 DEF Used, UsedIn
    <3>3. PathOf(memory, m.data[j]) = path BY <3>1 DEF hashmap_memcmp_comparer, PathOf
    <3> HIDE DEF path
    <3> QED BY <3>2, <3>3 DEF New, path
  <2> QED BY <2>1
<1>3. i \in free
  <2>1. i = CASE m.size = hashmap_capacity(m) -> -1
              [] m.size # hashmap_capacity(m) /\ at # {} -> Min(at)
              [] m.size # hashmap_capacity(m) /\ at = {} /\ free # {} -> Min(free)
              [] OTHER -> -1
    BY DEF hashmap_hash_helper
  <2>2. free \subseteq Nat BY <1>1 DEF Vacant
  <2>3. free # {} => Min(free) \in free BY <2>2, MinIs
  <2> HIDE DEF at, free
  <2> QED BY <1>2, <2>1, <2>3
<1>4. i \in Probed(m, path) /\ i \in Indexes(m) /\ ~m.data[i].in_use
  BY <1>1, <1>3 DEF Vacant, UsedIn
<1>5. /\ Indexes(t) = Indexes(m) /\ t.log2_capacity = m.log2_capacity
      /\ t.size = m.size + 1
      /\ \A j \in Indexes(m) : t.data[j] = IF j = i THEN e ELSE m.data[j]
  BY <1>4, StoreType
<1> HIDE DEF t, at, free, path
<1>6. UsedIn(t, Indexes(t)) = slots \cup {i} /\ i \notin slots BY <1>4, <1>5 DEF UsedIn
<1>7. t.data[i] = e /\ \A j \in slots : t.data[j] = m.data[j] BY <1>4, <1>5, <1>6 DEF UsedIn
<1>8. Used(t) = Used(m) \cup {e}
  <2>1. Used(t) = {t.data[j] : j \in slots \cup {i}} BY <1>6 DEF Used
  <2>2. Used(m) = {m.data[j] : j \in slots} BY DEF Used
  <2> HIDE DEF slots
  <2> QED BY <1>7, <2>1, <2>2
<1>9. \A bytes : Probed(t, bytes) = Probed(m, bytes) BY <1>5 DEF Probed
<1>10. \A j \in slots : m.data[j] \in Used(m) BY DEF Used
<1>11. \A j \in slots : /\ Whole(memory, m.data[j]) /\ j \in Probed(m, PathOf(memory, m.data[j]))
                        /\ PathOf(memory, m.data[j]) # path
  BY <1>10 DEF Found, New, path
<1>12. \A j, k \in slots : PathOf(memory, m.data[j]) = PathOf(memory, m.data[k]) => j = k
  BY DEF Found
<1>13. IsFiniteSet(Used(m)) /\ m.size = Cardinality(Used(m)) BY DEF Found
<1>14. e \notin Used(m) BY DEF New
<1>15. IsFiniteSet(Used(t)) /\ t.size = Cardinality(Used(t)) BY <1>5, <1>8, <1>13, <1>14, FS_AddElement
<1> HIDE DEF slots
<1>16. \A j \in slots \cup {i} : Whole(memory, t.data[j]) /\ j \in Probed(t, PathOf(memory, t.data[j]))
  BY <1>4, <1>7, <1>9, <1>11 DEF path
<1>17. \A j, k \in slots \cup {i} : PathOf(memory, t.data[j]) = PathOf(memory, t.data[k]) => j = k
  BY <1>7, <1>11, <1>12 DEF path
<1>18. Found(t, memory) BY <1>6, <1>15, <1>16, <1>17 DEF Found
<1> QED BY <1>8, <1>18 DEF t

LEMMA EmptyFinds ==
  ASSUME NEW m, NEW memory, Used(m) = {}, m.size = 0
  PROVE  Found(m, memory)
<1>1. UsedIn(m, Indexes(m)) = {} BY DEF Used
<1> QED BY <1>1, FS_EmptySet DEF Found

-----------------------------------------------------------------------------
(* hashmap_put.                                                            *)

\* What a put may do: the elements of the table afterwards are some that it had,
\* and the new one if it did not fail; all of them if their paths can be found.
Given(c) == Element(c.key, c.len, c.data)
Places(r, c, memory) ==
  Found(c.map, memory) /\ Whole(memory, Given(c)) /\ New(c.map, memory, PathOf(memory, Given(c))) /\ ~r.failed =>
    Found(r.map, memory) /\ Used(r.map) = Used(c.map) \cup {Given(c)}
Keeps(r, c, memory) ==
  /\ r \in [failed : BOOLEAN, map : Tables(DOMAIN memory)]
  /\ Used(r.map) \subseteq Used(c.map) \cup (IF r.failed THEN {} ELSE {Given(c)})
  /\ Places(r, c, memory)
Keepers(memory) ==
  {put \in [Puts(DOMAIN memory) -> [failed : BOOLEAN, map : Tables(DOMAIN memory)]] :
     \A c \in Puts(DOMAIN memory) : Keeps(put[c], c, memory)}

\* A table being moved has no elements but those of the table it doubles.
Moving(m, keys) ==
  {r \in [failed : BOOLEAN, old : Tables(keys), map : Tables(keys)] :
     Used(r.old) \subseteq Used(m) /\ Used(r.map) \subseteq Used(m)
       /\ r.old.log2_capacity = m.log2_capacity}

LEMMA MovedStays ==
  ASSUME NEW memory, NEW keys, keys = DOMAIN memory, NEW m \in Tables(keys), NEW put \in Keepers(memory),
         NEW i \in Indexes(m), NEW r \in Moving(m, keys)
  PROVE  Moved(r, i, m.data[i], put) \in Moving(m, keys)
<1> DEFINE e == m.data[i]
           c == [map |-> r.map, key |-> e.key, len |-> e.key_len, data |-> e.data]
<1>1. SUFFICES ASSUME ~r.failed, e.in_use PROVE Blanked(r, i, put[c]) \in Moving(m, keys)
  BY DEF Moved
<1>2. m.data \in [Indexes(m) -> Elements(keys)] BY TableIs
<1>3. e \in Used(m) BY <1>1 DEF Used, UsedIn
<1>4. e \in [in_use : {TRUE}, key : keys, key_len : Nat, data : Nat]
  <2>1. e \in Elements(keys) BY <1>2
  <2>2. ~Unused.in_use BY DEF Unused
  <2> QED BY <1>1, <2>1, <2>2 DEF Elements
<1>5. Given(c) = e BY <1>4 DEF Given, Element
<1>6. /\ r.map \in Tables(keys) /\ r.old \in Tables(keys)
      /\ Used(r.old) \subseteq Used(m) /\ Used(r.map) \subseteq Used(m)
      /\ r.old.log2_capacity = m.log2_capacity
  BY DEF Moving
<1>7. c \in Puts(keys) /\ c.map = r.map BY <1>4, <1>6 DEF Puts
<1>8. Keeps(put[c], c, memory) BY <1>7 DEF Keepers
<1> HIDE DEF c, e
<1>9. put[c].failed \in BOOLEAN /\ put[c].map \in Tables(keys) BY <1>8 DEF Keeps
<1>10. Used(put[c].map) \subseteq Used(m) BY <1>3, <1>5, <1>6, <1>7, <1>8 DEF Keeps
<1>11. /\ Blank(r.old, i) \in Tables(keys) /\ Used(Blank(r.old, i)) \subseteq Used(r.old)
       /\ Blank(r.old, i).log2_capacity = m.log2_capacity
  <2>1. Indexes(r.old) = Indexes(m) BY <1>6 DEF Indexes, hashmap_capacity
  <2>2. i \in Indexes(r.old) BY <2>1
  <2>3. r.old = [log2_capacity |-> r.old.log2_capacity, size |-> r.old.size, data |-> r.old.data]
        /\ r.old.size \in Int
    BY <1>6, TableIs
  <2>4. Blank(r.old, i).log2_capacity = r.old.log2_capacity BY <2>3, BlankIs
  <2> QED BY <1>6, <2>2, <2>4, BlankType
<1> QED BY <1>6, <1>9, <1>10, <1>11 DEF Blanked, Moving

\* A rehash that is not refused at once moves the slots in turn.
SlotsOf(m) == hashmap_capacity(m) + PROBE_LENGTH
Rehashing(h, m, put) ==
  /\ h[0] = Doubled(m)
  /\ \A k \in 1..SlotsOf(m) : h[k] = Moved(h[k - 1], k - 1, m.data[k - 1], put)

LEMMA RehashIs ==
  ASSUME NEW memory, NEW keys, keys = DOMAIN memory, NEW m \in Tables(keys), NEW put \in Keepers(memory),
         m.log2_capacity # HASH_BITS - 1
  PROVE  /\ SlotsOf(m) \in Nat /\ Indexes(m) = 0..(SlotsOf(m) - 1)
         /\ LET t == Doubled(m).map
            IN t \in Tables(keys) /\ Used(t) = {} /\ t.size = 0
         /\ \E h : /\ Rehashing(h, m, put) /\ \A k \in 0..SlotsOf(m) : h[k] \in Moving(m, keys)
                   /\ hashmap_rehash_helper(m, put) =
                        [failed |-> h[SlotsOf(m)].failed,
                         map |-> IF h[SlotsOf(m)].failed THEN h[SlotsOf(m)].old ELSE h[SlotsOf(m)].map]
<1> DEFINE last == SlotsOf(m)
           X == Moving(m, keys)
           a == Doubled(m)
           G == [k \in 1..last |-> [r \in X |-> Moved(r, k - 1, m.data[k - 1], put)]]
           F(g) == g = [k \in 0..last |-> IF k = 0 THEN a ELSE Moved(g[k - 1], k - 1, m.data[k - 1], put)]
<1>0. hashmap_capacity(m) \in Nat
  <2>1. m.log2_capacity \in 0..HASH_BITS BY TableIs, HashIs
  <2> QED BY <2>1, BitIs DEF hashmap_capacity
<1>1. last \in Nat BY <1>0, HashIs DEF SlotsOf
<1>2. Indexes(m) = 0..(last - 1) BY <1>0, HashIs DEF Indexes, SlotsOf
<1>3. a \in X /\ a.map \in Tables(keys) /\ Used(a.map) = {} /\ a.map.size = 0
  <2>1. m.log2_capacity \in 1..(HASH_BITS - 1) /\ m.log2_capacity + 1 \in 1..(HASH_BITS - 1)
    BY TableIs, HashIs
  <2>2. 2 * hashmap_capacity(m) = Bit[m.log2_capacity + 1]
    <3>1. m.log2_capacity + 1 \in 1..HASH_BITS /\ (m.log2_capacity + 1) - 1 = m.log2_capacity
      BY <2>1, HashIs
    <3> QED BY <3>1, BitIs DEF hashmap_capacity
  <2> DEFINE t == hashmap_create_ex(2 * hashmap_capacity(m))
  <2>3. t \in Tables(keys) /\ Used(t) = {} /\ t.size = 0 BY <2>1, <2>2, CreateIs
  <2>4. a = [failed |-> FALSE, old |-> m, map |-> t] BY DEF Doubled
  <2> HIDE DEF a, t
  <2> QED BY <2>3, <2>4 DEF Moving
<1>4. \A k \in 1..last : \A r \in X : G[k][r] = Moved(r, k - 1, m.data[k - 1], put) OBVIOUS
<1>5. \A k \in 1..last : \A r \in X : Moved(r, k - 1, m.data[k - 1], put) \in X
  <2>1. TAKE k \in 1..last
  <2>2. k - 1 \in Indexes(m) BY <1>1, <1>2
  <2> QED BY <2>2, MovedStays
<1>6. G \in [1..last -> [X -> X]] BY <1>5
<1> HIDE DEF last, X, a, G
<1>7. PICK f \in [0..last -> X] : Turns(f, last, a, G) BY <1>1, <1>3, <1>6, TurnsExist
<1>8. F(f)
  <2>1. \A k \in 0..last : f[k] = IF k = 0 THEN a ELSE G[k][f[k - 1]] BY <1>7 DEF Turns
  <2>2. \A k \in 0..last : k # 0 => k \in 1..last /\ f[k - 1] \in X BY <1>1
  <2> QED BY <1>4, <2>1, <2>2
<1>9. PICK h : F(h) /\ hashmap_rehash_helper(m, put)
                = [failed |-> h[last].failed, map |-> IF h[last].failed THEN h[last].old ELSE h[last].map]
  BY <1>8 DEF hashmap_rehash_helper, Rehashed, last, a, SlotsOf
<1>10. h[0] = a /\ \A k \in 1..last : h[k] = Moved(h[k - 1], k - 1, m.data[k - 1], put)
  <2>1. \A k \in 0..last : h[k] = IF k = 0 THEN a ELSE Moved(h[k - 1], k - 1, m.data[k - 1], put)
    BY <1>9
  <2>2. 0 \in 0..last /\ \A k \in 1..last : k \in 0..last /\ k # 0 BY <1>1
  <2> QED BY <2>1, <2>2
<1>11. \A k \in 1..last : h[k - 1] \in X => h[k] = G[k][h[k - 1]] BY <1>4, <1>10
<1>12. \A k \in 0..last : h[k] \in X
  <2>1. h[0] \in X BY <1>3, <1>10
  <2> QED BY <1>1, <1>6, <1>11, <2>1, TurnsStay
<1>13. Rehashing(h, m, put) BY <1>10 DEF Rehashing, last, a
<1> QED BY <1>1, <1>2, <1>3, <1>9, <1>12, <1>13 DEF last, X, a

\* A step of a rehash finds a place for the next element.
MovedBelow(m, k) == {m.data[j] : j \in UsedIn(m, 0..(k - 1))}
MovesAll(m, memory, r, k) ==
  ~r.failed => Found(r.map, memory) /\ Used(r.map) = MovedBelow(m, k)

LEMMA MovedFinds ==
  ASSUME NEW memory, NEW keys, keys = DOMAIN memory, NEW m \in Tables(keys), NEW put \in Keepers(memory),
         Found(m, memory), NEW i \in Indexes(m), NEW r \in Moving(m, keys), MovesAll(m, memory, r, i)
  PROVE  MovesAll(m, memory, Moved(r, i, m.data[i], put), i + 1)
<1> DEFINE e == m.data[i]
           c == [map |-> r.map, key |-> e.key, len |-> e.key_len, data |-> e.data]
           u == Moved(r, i, e, put)
<1>0. i \in Nat /\ 0..((i + 1) - 1) = (0..(i - 1)) \cup {i} /\ 0..(i - 1) \subseteq Indexes(m)
  <2>1. m.log2_capacity \in 0..HASH_BITS BY TableIs, HashIs
  <2>2. hashmap_capacity(m) \in Nat BY <2>1, BitIs DEF hashmap_capacity
  <2> QED BY <2>2, HashIs DEF Indexes
<1>1. SUFFICES ASSUME ~u.failed PROVE Found(u.map, memory) /\ Used(u.map) = MovedBelow(m, i + 1)
  BY DEF MovesAll
<1>2. ~r.failed BY <1>1 DEF Moved
<1>3. Found(r.map, memory) /\ Used(r.map) = MovedBelow(m, i) BY <1>2 DEF MovesAll
<1>4. CASE ~e.in_use
  <2>1. u = r BY <1>4 DEF Moved
  <2>2. UsedIn(m, 0..((i + 1) - 1)) = UsedIn(m, 0..(i - 1)) BY <1>0, <1>4 DEF UsedIn
  <2>3. MovedBelow(m, i + 1) = MovedBelow(m, i) BY <2>2 DEF MovedBelow
  <2> QED BY <1>3, <2>1, <2>3
<1>5. CASE e.in_use
  <2>1. m.data \in [Indexes(m) -> Elements(keys)] BY TableIs
  <2>2. e \in [in_use : {TRUE}, key : keys, key_len : Nat, data : Nat]
    <3>1. e \in Elements(keys) BY <2>1
    <3>2. ~Unused.in_use BY DEF Unused
    <3> QED BY <1>5, <3>1, <3>2 DEF Elements
  <2>3. Given(c) = e BY <2>2 DEF Given, Element
  <2>4. r.map \in Tables(keys) BY DEF Moving
  <2>5. c \in Puts(keys) /\ c.map = r.map BY <2>2, <2>4 DEF Puts
  <2>6. Keeps(put[c], c, memory) BY <2>5 DEF Keepers
  <2>7. u = Blanked(r, i, put[c]) BY <1>2, <1>5 DEF Moved
  <2>8. u.map = put[c].map /\ ~put[c].failed BY <1>1, <2>7 DEF Blanked
  <2>9. i \in UsedIn(m, Indexes(m)) BY <1>5 DEF UsedIn
  <2>10. Whole(memory, e) BY <2>9 DEF Found
  <2>11. New(r.map, memory, PathOf(memory, e))
    <3>1. SUFFICES ASSUME NEW j \in UsedIn(m, 0..(i - 1))
                   PROVE  PathOf(memory, m.data[j]) # PathOf(memory, e)
      BY <1>3 DEF New, MovedBelow
    <3>2. j \in UsedIn(m, Indexes(m)) /\ j # i BY <1>0 DEF UsedIn
    <3> QED BY <2>9, <3>2 DEF Found
  <2> HIDE DEF c, u, e
  <2>12. Found(put[c].map, memory) /\ Used(put[c].map) = Used(r.map) \cup {e}
    BY <1>3, <2>3, <2>5, <2>6, <2>8, <2>10, <2>11 DEF Keeps, Places
  <2>13. UsedIn(m, 0..((i + 1) - 1)) = UsedIn(m, 0..(i - 1)) \cup {i} BY <1>0, <1>5 DEF UsedIn, e
  <2>14. MovedBelow(m, i + 1) = MovedBelow(m, i) \cup {e}
    <3> DEFINE below == UsedIn(m, 0..(i - 1))
    <3>1. MovedBelow(m, i + 1) = {m.data[j] : j \in below \cup {i}} BY <2>13 DEF MovedBelow
    <3>2. MovedBelow(m, i) = {m.data[j] : j \in below} BY DEF MovedBelow
    <3> HIDE DEF below
    <3> QED BY <3>1, <3>2 DEF e
  <2> QED BY <1>3, <2>8, <2>12, <2>14 DEF u
<1> QED BY <1>4, <1>5

LEMMA RehashKeeps ==
  ASSUME NEW memory, NEW keys, keys = DOMAIN memory, NEW m \in Tables(keys), NEW put \in Keepers(memory)
  PROVE  LET r == hashmap_rehash_helper(m, put)
         IN /\ r \in [failed : BOOLEAN, map : Tables(keys)] /\ Used(r.map) \subseteq Used(m)
            /\ Found(m, memory) /\ ~r.failed => Found(r.map, memory) /\ Used(r.map) = Used(m)
<1>1. CASE m.log2_capacity = HASH_BITS - 1
  <2>1. hashmap_rehash_helper(m, put) = [failed |-> TRUE, map |-> m]
    BY <1>1 DEF hashmap_rehash_helper
  <2> QED BY <2>1
<1>2. CASE m.log2_capacity # HASH_BITS - 1
  <2> DEFINE last == SlotsOf(m)
             r == hashmap_rehash_helper(m, put)
  <2>1. /\ last \in Nat /\ Indexes(m) = 0..(last - 1)
        /\ Used(Doubled(m).map) = {} /\ Doubled(m).map.size = 0
    BY <1>2, RehashIs
  <2>2. PICK h : /\ Rehashing(h, m, put) /\ \A k \in 0..last : h[k] \in Moving(m, keys)
                 /\ r = [failed |-> h[last].failed, map |-> IF h[last].failed THEN h[last].old ELSE h[last].map]
    BY <1>2, RehashIs
  <2> HIDE DEF last, r
  <2>3. h[last] \in Moving(m, keys) BY <2>1, <2>2
  <2>4. r \in [failed : BOOLEAN, map : Tables(keys)] /\ Used(r.map) \subseteq Used(m)
    BY <2>2, <2>3 DEF Moving
  <2>5. ASSUME Found(m, memory), ~r.failed PROVE Found(r.map, memory) /\ Used(r.map) = Used(m)
    <3> DEFINE P == {k \in Nat : k <= last => MovesAll(m, memory, h[k], k)}
    <3>1. 0 \in P
      <4>1. h[0].map = Doubled(m).map BY <2>2 DEF Rehashing
      <4>2. Found(h[0].map, memory) BY <2>1, <4>1, EmptyFinds
      <4>3. 0..(0 - 1) = {} OBVIOUS
      <4>4. MovedBelow(m, 0) = {} BY <4>3 DEF MovedBelow, UsedIn
      <4>5. MovesAll(m, memory, h[0], 0) BY <2>1, <4>1, <4>2, <4>4 DEF MovesAll
      <4> QED BY <4>5
    <3>2. ASSUME NEW k \in P, k < last PROVE k + 1 \in P
      <4>1. k \in Nat /\ k \in 0..last /\ k + 1 \in 1..last /\ (k + 1) - 1 = k /\ k \in Indexes(m)
        BY <2>1, <3>2
      <4>2. MovesAll(m, memory, h[k], k) BY <2>1, <3>2, <4>1
      <4>3. h[k + 1] = Moved(h[(k + 1) - 1], (k + 1) - 1, m.data[(k + 1) - 1], put)
        BY <2>2, <4>1 DEF Rehashing, last
      <4>4. h[k + 1] = Moved(h[k], k, m.data[k], put) BY <4>1, <4>3
      <4>5. h[k] \in Moving(m, keys) BY <2>2, <4>1
      <4>6. MovesAll(m, memory, h[k + 1], k + 1) BY <2>5, <4>1, <4>2, <4>4, <4>5, MovedFinds
      <4> QED BY <4>1, <4>6
    <3>3. P \in SUBSET Nat OBVIOUS
    <3> HIDE DEF P
    <3>4. 0..last \subseteq P BY <2>1, <3>1, <3>2, <3>3, CountingUp
    <3>5. last \in P BY <2>1, <3>4
    <3>6. MovesAll(m, memory, h[last], last) BY <2>1, <3>5 DEF P
    <3>7. MovedBelow(m, last) = Used(m) BY <2>1 DEF MovedBelow, Used
    <3> QED BY <2>2, <2>5, <3>6, <3>7 DEF MovesAll
  <2> QED BY <2>4, <2>5 DEF r
<1> QED BY <1>1, <1>2

LEMMA PutKeeps ==
  ASSUME NEW memory, NEW put \in Keepers(memory), NEW c \in Puts(DOMAIN memory)
  PROVE  Keeps(Put(c, memory, put), c, memory)
<1> DEFINE keys == DOMAIN memory
           bytes == Bytes(memory, c.key, c.len)
           i == hashmap_hash_helper(c.map, memory, bytes)
           new == Given(c)
           r == hashmap_rehash_helper(c.map, put)
<1>1. c.map \in Tables(keys) /\ c.key \in keys /\ c.len \in Nat /\ c.data \in Nat
      /\ c = [map |-> c.map, key |-> c.key, len |-> c.len, data |-> c.data]
  BY DEF Puts
<1>2. Put(c, memory, put) =
        IF c.len = 0 THEN [failed |-> TRUE, map |-> c.map]
        ELSE IF i # -1 THEN [failed |-> FALSE, map |-> Store(c.map, i, new)]
        ELSE Retried(r, c, put)
  BY DEF Put, Given
<1>3. i # -1 => i \in Indexes(c.map) BY <1>1, PlaceIs
<1>4. new \in Elements(keys) /\ new.in_use /\ PathOf(memory, new) = bytes
  BY <1>1 DEF Given, Element, Elements, PathOf
<1>5. /\ r \in [failed : BOOLEAN, map : Tables(keys)] /\ Used(r.map) \subseteq Used(c.map)
      /\ Found(c.map, memory) /\ ~r.failed => Found(r.map, memory) /\ Used(r.map) = Used(c.map)
  BY <1>1, RehashKeeps
<1>i. i = hashmap_hash_helper(c.map, memory, bytes) OBVIOUS
<1> HIDE DEF i, r, bytes, keys, new
<1>6. CASE c.len = 0 BY <1>1, <1>2, <1>6 DEF Keeps, Places, keys
<1>7. CASE c.len # 0 /\ i # -1
  <2>1. Store(c.map, i, new) \in Tables(keys) /\ Used(Store(c.map, i, new)) \subseteq Used(c.map) \cup {new}
    BY <1>1, <1>3, <1>4, <1>7, StoreType
  <2> DEFINE u == [failed |-> FALSE, map |-> Store(c.map, i, new)]
  <2>2. Put(c, memory, put) = u BY <1>7, <1>2
  <2>3. Places(u, c, memory)
    <3>1. SUFFICES ASSUME Found(c.map, memory), Whole(memory, new), New(c.map, memory, PathOf(memory, new))
                   PROVE  Found(u.map, memory) /\ Used(u.map) = Used(c.map) \cup {new}
      BY DEF Places, new
    <3>2. i = hashmap_hash_helper(c.map, memory, PathOf(memory, new)) /\ i # -1 BY <1>4, <1>7, <1>i
    <3> QED BY <1>1, <1>4, <3>1, <3>2, StoreFinds
  <2> QED BY <2>1, <2>2, <2>3 DEF Keeps, keys, new
<1>8. CASE c.len # 0 /\ i = -1 /\ r.failed
  <2>1. Put(c, memory, put) = r BY <1>2, <1>8 DEF Retried
  <2> QED BY <1>5, <1>8, <2>1 DEF Keeps, Places, keys
<1>9. CASE c.len # 0 /\ i = -1 /\ ~r.failed
  <2> DEFINE d == [map |-> r.map, key |-> c.key, len |-> c.len, data |-> c.data]
  <2>1. [c EXCEPT !.map = r.map] = d BY <1>1
  <2>2. d \in Puts(keys) /\ Given(d) = new /\ d.map = r.map
    BY <1>1, <1>5 DEF Puts, new, Given
  <2>3. Put(c, memory, put) = put[d] BY <1>2, <1>9, <2>1 DEF Retried
  <2> HIDE DEF d
  <2>4. Keeps(put[d], d, memory) BY <2>2 DEF Keepers, keys
  <2>5. Places(put[d], c, memory)
    <3>1. SUFFICES ASSUME Found(c.map, memory), Whole(memory, new), New(c.map, memory, PathOf(memory, new)),
                          ~put[d].failed
                   PROVE  Found(put[d].map, memory) /\ Used(put[d].map) = Used(c.map) \cup {new}
      BY DEF Places, new
    <3>2. Found(d.map, memory) /\ Used(d.map) = Used(c.map) BY <1>5, <1>9, <2>2, <3>1
    <3>3. New(d.map, memory, PathOf(memory, new)) BY <3>1, <3>2 DEF New
    <3> QED BY <2>2, <2>4, <3>1, <3>2, <3>3 DEF Keeps, Places
  <2> QED BY <1>5, <2>2, <2>3, <2>4, <2>5 DEF Keeps, keys, new
<1> QED BY <1>6, <1>7, <1>8, <1>9

\* A put keeps the table's elements to those it had and the new one, and one into
\* an empty table succeeds.
LEMMA PutIs ==
  ASSUME NEW memory, NEW m \in Tables(DOMAIN memory), NEW key \in DOMAIN memory,
         NEW len \in Nat, NEW data \in Nat
  PROVE  LET r == hashmap_put(m, memory, key, len, data)
         IN /\ r \in [failed : BOOLEAN, map : Tables(DOMAIN memory)]
            /\ Used(r.map) \subseteq Used(m) \cup (IF r.failed THEN {} ELSE {Element(key, len, data)})
            /\ len # 0 /\ m.size = 0 /\ Used(m) = {} => ~r.failed
            /\ Places(r, [map |-> m, key |-> key, len |-> len, data |-> data], memory)
<1> DEFINE N == HASH_BITS
           keys == DOMAIN memory
           X == Keepers(memory)
           a == [c \in Puts(keys) |-> [failed |-> TRUE, map |-> c.map]]
           Step(p) == [c \in Puts(keys) |-> Put(c, memory, p)]
           G == [k \in 1..N |-> [p \in X |-> Step(p)]]
           F(g) == g = [k \in 0..N |-> [c \in Puts(keys) |->
                          IF k = 0 THEN [failed |-> TRUE, map |-> c.map] ELSE Put(c, memory, g[k - 1])]]
           call == [map |-> m, key |-> key, len |-> len, data |-> data]
<1>1. N \in Nat /\ N >= 2 BY HashIs
<1>2. a \in X
  <2>1. \A c \in Puts(keys) : c.map \in Tables(keys) BY DEF Puts
  <2>2. \A c \in Puts(keys) : Keeps([failed |-> TRUE, map |-> c.map], c, memory)
    BY <2>1 DEF Keeps, Places
  <2> QED BY <2>1, <2>2 DEF Keepers
<1>3. \A p \in X : Step(p) \in X
  <2>1. TAKE p \in X
  <2>2. \A c \in Puts(keys) : Keeps(Put(c, memory, p), c, memory) BY PutKeeps
  <2>3. \A c \in Puts(keys) : Put(c, memory, p) \in [failed : BOOLEAN, map : Tables(keys)]
    BY <2>2 DEF Keeps
  <2> QED BY <2>2, <2>3 DEF Keepers
<1>4. G \in [1..N -> [X -> X]] /\ \A k \in 1..N : \A p \in X : G[k][p] = Step(p) BY <1>3
<1> HIDE DEF X, G, N, keys
<1>5. PICK f \in [0..N -> X] : Turns(f, N, a, G) BY <1>1, <1>2, <1>4, TurnsExist
<1>6. F(f)
  <2>1. \A k \in 0..N : f[k] = IF k = 0 THEN a ELSE G[k][f[k - 1]] BY <1>5 DEF Turns
  <2>2. \A k \in 0..N : k # 0 => k \in 1..N /\ f[k - 1] \in X BY <1>1
  <2>3. \A k \in 0..N : f[k] = [c \in Puts(keys) |->
          IF k = 0 THEN [failed |-> TRUE, map |-> c.map] ELSE Put(c, memory, f[k - 1])]
    <3>1. TAKE k \in 0..N
    <3>2. CASE k = 0 BY <2>1, <3>2
    <3>3. CASE k # 0
      <4>1. f[k] = Step(f[k - 1]) BY <1>4, <2>1, <2>2, <3>3
      <4> QED BY <3>3, <4>1
    <3> QED BY <3>2, <3>3
  <2> QED BY <2>3
<1>7. PICK h : F(h) /\ hashmap_put(m, memory, key, len, data) = h[N][call]
  BY <1>6 DEF hashmap_put, N, keys
<1>8. h[0] = a /\ \A k \in 1..N : h[k] = Step(h[k - 1])
  <2>1. \A k \in 0..N : h[k] = [c \in Puts(keys) |->
          IF k = 0 THEN [failed |-> TRUE, map |-> c.map] ELSE Put(c, memory, h[k - 1])]
    BY <1>7
  <2>2. 0 \in 0..N /\ \A k \in 1..N : k \in 0..N /\ k # 0 BY <1>1
  <2>3. h[0] = a BY <2>1, <2>2
  <2>4. ASSUME NEW k \in 1..N PROVE h[k] = Step(h[k - 1])
    <3>1. k \in 0..N /\ k # 0 BY <2>2
    <3>2. h[k] = [c \in Puts(keys) |->
            IF k = 0 THEN [failed |-> TRUE, map |-> c.map] ELSE Put(c, memory, h[k - 1])]
      BY <2>1, <3>1
    <3> QED BY <3>1, <3>2
  <2> QED BY <2>3, <2>4
<1>9. \A k \in 1..N : h[k - 1] \in X => h[k] = G[k][h[k - 1]] BY <1>4, <1>8
<1>10. call \in Puts(keys) BY DEF Puts, keys
<1>11. h[N][call] = Put(call, memory, h[N - 1])
  <2>1. N \in 1..N BY <1>1
  <2>2. h[N] = Step(h[N - 1]) BY <1>8, <2>1
  <2> HIDE DEF call
  <2>3. Step(h[N - 1])[call] = Put(call, memory, h[N - 1]) BY <1>10
  <2> QED BY <2>2, <2>3
<1>12. h[N] \in X
  <2> HIDE DEF a, Step
  <2>1. h[0] \in X BY <1>2, <1>8
  <2>2. \A k \in 0..N : h[k] \in X BY <1>1, <1>4, <1>9, <2>1, TurnsStay
  <2> QED BY <1>1, <2>2
<1>13. Keeps(h[N][call], call, memory) BY <1>1, <1>10, <1>12 DEF X, Keepers, keys
<1>14. ASSUME len # 0, m.size = 0, Used(m) = {} PROVE ~h[N][call].failed
  <2>1. hashmap_hash_helper(m, memory, Bytes(memory, key, len)) # -1 BY <1>14, PlaceIs
  <2> QED BY <1>11, <1>14, <2>1 DEF Put
<1> QED BY <1>7, <1>13, <1>14 DEF Keeps, Given, keys

-----------------------------------------------------------------------------
(* The state of the VFS.                                                   *)

Keys == DOMAIN Literals \cup Buffers
\* What is written anywhere, and what is left of it when it is cut.
Written == Range(Literals) \cup UserPaths
Paths == UNION {{SubSeq(s, 1, i) : i \in 1..Len(s)} : s \in Written}

IsMem(m) == m \in [Keys -> Paths] /\ \A p \in DOMAIN Literals : m[p] = Literals[p]
IsDisk(d) == \A s \in DOMAIN d : d[s] \in Nat

\* An open file, or an open directory and its entries.
IsFile(f) ==
  /\ f.open \in BOOLEAN /\ f.inode \in Nat
  /\ \/ f = [open |-> f.open, inode |-> f.inode]
     \/ f = [open |-> f.open, inode |-> f.inode, entries |-> f.entries]
IsFiles(files) == files = [h \in Handles |-> files[h]] /\ \A h \in Handles : IsFile(files[h])

Drivers == {"fs", "hdd", "tty", "kdb"}
Inodes ==
  [path : Paths, type : Nat, file_operations : Drivers, number_of_references : Int, refused : Nat]

VfsOf(map, inodes, registry, files) ==
  [map |-> map, inodes |-> inodes, keyboard_file_data |-> registry, files |-> files]
IsVfs(v) ==
  /\ v = VfsOf(v.map, v.inodes, v.keyboard_file_data, v.files)
  /\ v.map \in Tables(Keys) /\ v.inodes \in Seq(Inodes)
  /\ v.keyboard_file_data \in Seq(Int) /\ IsFiles(v.files)

\* The open files and directories of an inode.
HandlesOf(v, n) == {h \in Open(v) : v.files[h].inode = n}

FilesAreOfInodes(v) == \A h \in Open(v) : v.files[h].inode \in InodesOf(v)
\* A directory is never open on the keyboard, although its type is a directory's.
DirectoriesAreOther(v) ==
  \A h \in Open(v) : "entries" \in DOMAIN v.files[h] => Ops(v, v.files[h].inode) # "kdb"
\* The table leads to inodes, and to the keyboard's from its own name only.
TableLeadsToInodes(v) ==
  \A e \in Used(v.map) :
    /\ e.data \in InodesOf(v)
    /\ Ops(v, e.data) = "kdb" => e.key = "kdb" /\ e.key_len = Len(Literals["kdb"])
Counted(v) ==
  \A n \in InodesOf(v) :
    v.inodes[n].number_of_references = Cardinality(HandlesOf(v, n)) + v.inodes[n].refused

Sound(v) ==
  IsVfs(v) /\ FilesAreOfInodes(v) /\ DirectoriesAreOther(v) /\ TableLeadsToInodes(v) /\ Counted(v)

Registered(v) ==
  /\ Range(v.keyboard_file_data) = {h \in Handles : Is(v, h, "kdb")}
  /\ IsInjective(v.keyboard_file_data)

LEMMA ConstantsAre ==
  /\ IsFiniteSet(Handles) /\ Handles \subseteq Nat /\ 0 \notin Handles
  /\ {1, 2, 3, 4} \subseteq Handles
  /\ {"hdd", "tty", "log", "kdb", "root", "dev"} \subseteq DOMAIN Literals
  /\ {"hdd", "tty", "log", "kdb", "root", "dev"} \subseteq Keys
  /\ Buffers \cap DOMAIN Literals = {}
  /\ \A p, q \in DOMAIN Literals : p # q => Literals[p] # Literals[q]
  /\ \A s \in DOMAIN OnDisk : OnDisk[s] \in Nat
<1>1. 1..4 = {1, 2, 3, 4} OBVIOUS
<1> QED BY <1>1, VfsAssumption DEF Keys, VFS_REGULAR_FILE, VFS_DIRECTORY

LEMMA WrittenIs ==
  ASSUME NEW s \in Written
  PROVE  s \in Seq(Range(s)) /\ s \in Paths
<1>1. s \in Seq(Range(s)) /\ s # <<>> BY VfsAssumption DEF Written
<1>2. Len(s) \in Nat /\ Len(s) # 0 /\ SubSeq(s, 1, Len(s)) = s
  BY <1>1, EmptySeq, LenProperties, SubSeqFull
<1>3. Len(s) \in 1..Len(s) BY <1>2
<1>4. \E i \in 1..Len(s) : s = SubSeq(s, 1, i) BY <1>2, <1>3
<1>5. s \in {SubSeq(s, 1, i) : i \in 1..Len(s)} BY <1>4, Zenon
<1> QED BY <1>1, <1>5 DEF Paths

LEMMA PathIs ==
  ASSUME NEW s \in Paths
  PROVE  /\ \E T : s \in Seq(T)
         /\ Len(s) \in Nat /\ Len(s) # 0 /\ SubSeq(s, 1, Len(s)) = s
         /\ \A j \in 1..Len(s) : SubSeq(s, 1, j) \in Paths
<1>0. PICK t \in Written : \E i \in 1..Len(t) : s = SubSeq(t, 1, i) BY DEF Paths
<1>1. PICK i \in 1..Len(t) : s = SubSeq(t, 1, i) BY <1>0
<1> DEFINE T == Range(t)
<1>2. t \in Seq(T) BY WrittenIs
<1> HIDE DEF T
<1>3. Len(t) \in Nat /\ DOMAIN t = 1..Len(t) BY <1>2, LenProperties
<1>4. \A k \in 1..i : t[k] \in T BY <1>2, <1>3, ElementOfSeq
<1>5. s \in Seq(T) /\ Len(s) = i BY <1>1, <1>3, <1>4, SubSeqProperties
<1>6. SubSeq(s, 1, Len(s)) = s BY <1>5, SubSeqFull
<1>7. ASSUME NEW j \in 1..i PROVE SubSeq(s, 1, j) \in Paths
  <2>1. 1 \in 1..Len(t) /\ 1 \in 1..(i - 1 + 1) /\ j \in 1..(i - 1 + 1) BY <1>3
  <2>2. SubSeq(SubSeq(t, 1, i), 1, j) = SubSeq(t, 1 + 1 - 1, 1 + j - 1) BY <1>2, <2>1, SubSeqOfSubSeq
  <2>3. j \in 1..Len(t) /\ 1 + j - 1 = j BY <1>3
  <2>4. SubSeq(s, 1, j) = SubSeq(t, 1, j) BY <1>1, <2>2, <2>3
  <2> QED BY <2>3, <2>4 DEF Paths
<1> QED BY <1>3, <1>5, <1>6, <1>7

\* What resolve_inode leaves of the beginning of a path is a path.
LEMMA CutIs ==
  ASSUME NEW s \in Paths, NEW j \in 0..Len(s),
         NEW text \in Cut(SubSeq(s, 1, j)), text # SubSeq(s, 1, j)
  PROVE  text \in Paths
<1> DEFINE q == SubSeq(s, 1, j)
           missing == {i \in Slashes(q) : SubSeq(q, 1, i - 1) \notin DOMAIN disk}
           k == Min(missing) - 1
<1>1. PICK T : s \in Seq(T) BY PathIs
<1>2. Len(s) \in Nat /\ DOMAIN s = 1..Len(s) BY <1>1, LenProperties
<1>3. \A i \in 1..j : s[i] \in T BY <1>1, <1>2, ElementOfSeq
<1>4. q \in Seq(T) /\ Len(q) = j BY <1>2, <1>3, SubSeqProperties
<1>5. DOMAIN q = 1..j BY <1>4, LenProperties
<1>6. missing # {} /\ text = SubSeq(q, 1, k) BY DEF Cut
<1>7. missing \in SUBSET (2..j) BY <1>2, <1>5 DEF Slashes
<1> HIDE DEF missing
<1>8. Min(missing) \in 2..j
  <2>1. missing \in SUBSET Nat BY <1>7
  <2>2. Min(missing) \in missing BY <1>6, <2>1, MinIs
  <2> QED BY <1>7, <2>2
<1>9. k \in 1..j /\ j \in 1..Len(s) BY <1>2, <1>8
<1> HIDE DEF k
<1>10. SubSeq(q, 1, k) = SubSeq(s, 1, k)
  <2>1. 1 \in 1..Len(s) /\ 1 \in 1..(j - 1 + 1) /\ k \in 1..(j - 1 + 1) BY <1>2, <1>9
  <2>2. SubSeq(SubSeq(s, 1, j), 1, k) = SubSeq(s, 1 + 1 - 1, 1 + k - 1)
    BY <1>1, <1>9, <2>1, SubSeqOfSubSeq
  <2>3. 1 + 1 - 1 = 1 /\ 1 + k - 1 = k BY <1>9
  <2> HIDE DEF q
  <2>4. SubSeq(SubSeq(s, 1, j), 1, k) = SubSeq(s, 1, k) BY <2>2, <2>3
  <2> QED BY <2>4 DEF q
<1>11. k \in 1..Len(s) BY <1>2, <1>9
<1> QED BY <1>6, <1>10, <1>11, PathIs

LEMMA ParentIs ==
  ASSUME NEW s \in Paths, Absolute(s)
  PROVE  \E j \in 0..Len(s) : Parent(s) = SubSeq(s, 1, j)
<1> DEFINE slashes == {i \in DOMAIN s : s[i] = "/"}
           j == Max(slashes) - 1
<1>1. PICK T : s \in Seq(T) BY PathIs
<1>2. Len(s) \in Nat /\ Len(s) # 0 /\ DOMAIN s = 1..Len(s) BY <1>1, PathIs, LenProperties
<1>3. 1 \in slashes BY <1>1, <1>2 DEF Absolute
<1>4. slashes \in SUBSET (1..Len(s)) BY <1>2
<1>5. Parent(s) = SubSeq(s, 1, j) BY DEF Parent
<1> HIDE DEF slashes
<1>6. Max(slashes) \in 1..Len(s) BY <1>2, <1>3, <1>4, MaxIs
<1>7. j \in 0..Len(s) BY <1>2, <1>6
<1> QED BY <1>5, <1>7

\* The whole of a path.
LEMMA WholePath ==
  ASSUME NEW memory, IsMem(memory), NEW p \in Keys
  PROVE  /\ memory[p] \in Paths /\ Len(memory[p]) \in Nat /\ Len(memory[p]) # 0
         /\ Bytes(memory, p, Len(memory[p])) = memory[p] /\ DOMAIN memory = Keys
<1>1. memory[p] \in Paths /\ DOMAIN memory = Keys BY DEF IsMem
<1>2. /\ Len(memory[p]) \in Nat /\ Len(memory[p]) # 0
      /\ SubSeq(memory[p], 1, Len(memory[p])) = memory[p]
  BY <1>1, PathIs
<1> QED BY <1>1, <1>2 DEF Bytes

LEMMA FinitelyOpen ==
  ASSUME NEW v, NEW n
  PROVE  IsFiniteSet(HandlesOf(v, n)) /\ Cardinality(HandlesOf(v, n)) \in Nat
<1>1. HandlesOf(v, n) \subseteq Handles BY DEF HandlesOf, Open
<1> QED BY <1>1, ConstantsAre, FS_Subset, FS_CardinalityType

Inode(path, type, ops, references, refused) ==
  [path |-> path, type |-> type, file_operations |-> ops, number_of_references |-> references,
   refused |-> refused]
WithReferences(inode, by) == [inode EXCEPT !.number_of_references = @ + by]
WithRefusal(inode) == [inode EXCEPT !.refused = @ + 1]

LEMMA InodeIs ==
  ASSUME NEW old \in Inodes, NEW by \in Int
  PROVE  /\ LET new == WithReferences(old, by)
            IN /\ new \in Inodes /\ new.file_operations = old.file_operations
               /\ new.path = old.path /\ new.refused = old.refused
               /\ new.number_of_references = old.number_of_references + by
         /\ LET new == WithRefusal(old)
            IN /\ new \in Inodes /\ new.file_operations = old.file_operations
               /\ new.path = old.path /\ new.refused = old.refused + 1
               /\ new.number_of_references = old.number_of_references
<1>1. PICK a \in Paths, b \in Nat, c \in Drivers, d \in Int, e \in Nat : old = Inode(a, b, c, d, e)
  BY DEF Inodes, Inode
<1>2. WithReferences(Inode(a, b, c, d, e), by) = Inode(a, b, c, d + by, e)
  BY DEF WithReferences, Inode
<1>3. WithRefusal(Inode(a, b, c, d, e)) = Inode(a, b, c, d, e + 1)
  BY DEF WithRefusal, Inode
<1>4. WithReferences(old, by) = Inode(a, b, c, d + by, e) /\ WithRefusal(old) = Inode(a, b, c, d, e + 1)
  BY <1>1, <1>2, <1>3
<1> QED BY <1>1, <1>4 DEF Inode, Inodes

\* What a step of the VFS does to its inodes: their number and drivers stay, and
\* the count of one changes.
Bump(inodes, n, by) == [inodes EXCEPT ![n].number_of_references = @ + by]

LEMMA BumpIs ==
  ASSUME NEW inodes \in Seq(Inodes), NEW n \in DOMAIN inodes, NEW by \in Int
  PROVE  LET b == Bump(inodes, n, by)
         IN /\ b \in Seq(Inodes) /\ DOMAIN b = DOMAIN inodes
            /\ \A m \in DOMAIN inodes :
                 /\ b[m].file_operations = inodes[m].file_operations
                 /\ b[m].refused = inodes[m].refused
                 /\ b[m].number_of_references =
                      inodes[m].number_of_references + (IF m = n THEN by ELSE 0)
<1> DEFINE old == inodes[n]
           new == WithReferences(old, by)
           b == Bump(inodes, n, by)
<1>1. /\ \A m \in DOMAIN inodes : inodes[m] \in Inodes
      /\ DOMAIN inodes = 1..Len(inodes) /\ Len(inodes) \in Nat
  BY ElementOfSeq, LenProperties
<1>2. old \in Inodes BY <1>1
<1>3. /\ new \in Inodes /\ new.file_operations = old.file_operations /\ new.refused = old.refused
      /\ new.number_of_references = old.number_of_references + by
  BY <1>2, InodeIs
<1>4. b = [inodes EXCEPT ![n] = new] BY DEF Bump, WithReferences
<1>5. \A m \in DOMAIN inodes : inodes[m].number_of_references \in Int BY <1>1 DEF Inodes
<1> HIDE DEF new, b
<1>6. b \in Seq(Inodes) BY <1>3, <1>4, ExceptSeq
<1>7. DOMAIN b = DOMAIN inodes /\ \A m \in DOMAIN inodes : b[m] = IF m = n THEN new ELSE inodes[m]
  BY <1>4
<1>8. \A m \in DOMAIN inodes :
        /\ b[m].file_operations = inodes[m].file_operations
        /\ b[m].refused = inodes[m].refused
        /\ b[m].number_of_references = inodes[m].number_of_references + (IF m = n THEN by ELSE 0)
  BY <1>3, <1>5, <1>7
<1> QED BY <1>6, <1>7, <1>8 DEF b

Refuse(inodes, n) == [inodes EXCEPT ![n].refused = @ + 1]

LEMMA RefuseIs ==
  ASSUME NEW inodes \in Seq(Inodes), NEW n \in DOMAIN inodes
  PROVE  LET b == Refuse(inodes, n)
         IN /\ b \in Seq(Inodes) /\ DOMAIN b = DOMAIN inodes
            /\ \A m \in DOMAIN inodes :
                 /\ b[m].file_operations = inodes[m].file_operations
                 /\ b[m].number_of_references = inodes[m].number_of_references
                 /\ b[m].refused = inodes[m].refused + (IF m = n THEN 1 ELSE 0)
<1> DEFINE old == inodes[n]
           new == WithRefusal(old)
           b == Refuse(inodes, n)
<1>1. /\ \A m \in DOMAIN inodes : inodes[m] \in Inodes
      /\ DOMAIN inodes = 1..Len(inodes) /\ Len(inodes) \in Nat
  BY ElementOfSeq, LenProperties
<1>2. old \in Inodes BY <1>1
<1>3. /\ new \in Inodes /\ new.file_operations = old.file_operations
      /\ new.number_of_references = old.number_of_references /\ new.refused = old.refused + 1
  <2>1. 0 \in Int OBVIOUS
  <2> QED BY <1>2, <2>1, InodeIs
<1>4. b = [inodes EXCEPT ![n] = new] BY DEF Refuse, WithRefusal
<1>5. \A m \in DOMAIN inodes : inodes[m].refused \in Nat BY <1>1 DEF Inodes
<1> HIDE DEF new, b
<1>6. b \in Seq(Inodes) BY <1>3, <1>4, ExceptSeq
<1>7. DOMAIN b = DOMAIN inodes /\ \A m \in DOMAIN inodes : b[m] = IF m = n THEN new ELSE inodes[m]
  BY <1>4
<1>8. \A m \in DOMAIN inodes :
        /\ b[m].file_operations = inodes[m].file_operations
        /\ b[m].number_of_references = inodes[m].number_of_references
        /\ b[m].refused = inodes[m].refused + (IF m = n THEN 1 ELSE 0)
  BY <1>3, <1>5, <1>7
<1> QED BY <1>6, <1>7, <1>8 DEF b

\* The paths of the inodes stay, whichever count changes.
Alike(a, b) == DOMAIN b = DOMAIN a /\ Len(b) = Len(a) /\ \A m \in DOMAIN a : b[m].path = a[m].path

LEMMA OneInode ==
  ASSUME NEW inodes \in Seq(Inodes), NEW n, NEW new,
         n \in DOMAIN inodes => new \in Inodes /\ new.path = inodes[n].path
  PROVE  LET b == [inodes EXCEPT ![n] = new]
         IN b \in Seq(Inodes) /\ Alike(inodes, b)
<1> DEFINE b == [inodes EXCEPT ![n] = new]
<1>1. DOMAIN b = DOMAIN inodes /\ \A m \in DOMAIN inodes : b[m] = IF m = n THEN new ELSE inodes[m]
  OBVIOUS
<1>2. b \in Seq(Inodes) /\ Len(b) = Len(inodes)
  <2>1. DOMAIN inodes = 1..Len(inodes) BY LenProperties
  <2>2. CASE n \in DOMAIN inodes BY <2>1, <2>2, ExceptSeq
  <2>3. CASE n \notin DOMAIN inodes
    <3>1. b = inodes BY <2>3
    <3> QED BY <3>1
  <2> QED BY <2>2, <2>3
<1>3. \A m \in DOMAIN inodes : b[m].path = inodes[m].path BY <1>1
<1> HIDE DEF b
<1>4. Alike(inodes, b) BY <1>1, <1>2, <1>3 DEF Alike
<1> QED BY <1>2, <1>4 DEF b

LEMMA CountsAreNoPaths ==
  ASSUME NEW inodes \in Seq(Inodes), NEW n, NEW by \in Int
  PROVE  /\ Bump(inodes, n, by) \in Seq(Inodes) /\ Alike(inodes, Bump(inodes, n, by))
         /\ Refuse(inodes, n) \in Seq(Inodes) /\ Alike(inodes, Refuse(inodes, n))
<1> DEFINE counted == WithReferences(inodes[n], by)
           refused == WithRefusal(inodes[n])
<1>1. \A m \in DOMAIN inodes : inodes[m] \in Inodes BY ElementOfSeq, LenProperties
<1>2. /\ n \in DOMAIN inodes => counted \in Inodes /\ counted.path = inodes[n].path
      /\ n \in DOMAIN inodes => refused \in Inodes /\ refused.path = inodes[n].path
  BY <1>1, InodeIs
<1>3. Bump(inodes, n, by) = [inodes EXCEPT ![n] = counted] BY DEF Bump, WithReferences
<1>4. Refuse(inodes, n) = [inodes EXCEPT ![n] = refused] BY DEF Refuse, WithRefusal
<1> HIDE DEF counted, refused
<1> DEFINE b == [inodes EXCEPT ![n] = counted]
           c == [inodes EXCEPT ![n] = refused]
<1>5. b \in Seq(Inodes) /\ Alike(inodes, b) BY <1>2, OneInode
<1>6. c \in Seq(Inodes) /\ Alike(inodes, c) BY <1>2, OneInode
<1>7. Bump(inodes, n, by) = b /\ Refuse(inodes, n) = c BY <1>3, <1>4
<1> HIDE DEF b, c
<1> QED BY <1>5, <1>6, <1>7

LEMMA AlikeTwice ==
  ASSUME NEW a, NEW b, NEW c, Alike(a, b), Alike(b, c)
  PROVE  Alike(a, c)
BY DEF Alike

WithOpen(f, open) == [f EXCEPT !.open = open]
Closed(f) == WithOpen(f, FALSE)

LEMMA FileWithOpen ==
  ASSUME NEW a, NEW b, NEW x
  PROVE  WithOpen([open |-> a, inode |-> b], x) = [open |-> x, inode |-> b]
BY DEF WithOpen

LEMMA DirectoryWithOpen ==
  ASSUME NEW a, NEW b, NEW c, NEW x
  PROVE  WithOpen([open |-> a, inode |-> b, entries |-> c], x) = [open |-> x, inode |-> b, entries |-> c]
BY DEF WithOpen

LEMMA ClosedIs ==
  ASSUME NEW f, IsFile(f)
  PROVE  IsFile(Closed(f)) /\ ~Closed(f).open
<1>1. CASE f = [open |-> f.open, inode |-> f.inode]
  <2> DEFINE a == f.open
             b == f.inode
  <2>1. f = [open |-> a, inode |-> b] BY <1>1
  <2> HIDE DEF a, b
  <2>2. ASSUME NEW x PROVE WithOpen(f, x) = [open |-> x, inode |-> b] BY <2>1, FileWithOpen
  <2>3. Closed(f) = [open |-> FALSE, inode |-> b] BY <2>2 DEF Closed
  <2>4. b \in Nat BY DEF b, IsFile
  <2> QED BY <2>3, <2>4 DEF IsFile
<1>2. CASE f = [open |-> f.open, inode |-> f.inode, entries |-> f.entries]
  <2> DEFINE a == f.open
             b == f.inode
             c == f.entries
  <2>1. f = [open |-> a, inode |-> b, entries |-> c] BY <1>2
  <2> HIDE DEF a, b, c
  <2>2. ASSUME NEW x PROVE WithOpen(f, x) = [open |-> x, inode |-> b, entries |-> c]
    BY <2>1, DirectoryWithOpen
  <2>3. Closed(f) = [open |-> FALSE, inode |-> b, entries |-> c] BY <2>2 DEF Closed
  <2>4. b \in Nat BY DEF b, IsFile
  <2> QED BY <2>3, <2>4 DEF IsFile
<1> QED BY <1>1, <1>2 DEF IsFile

\* The files after one is opened or closed.
LEMMA FileReplaced ==
  ASSUME NEW files, IsFiles(files), NEW h \in Handles, NEW f, IsFile(f)
  PROVE  LET new == [files EXCEPT ![h] = f]
         IN IsFiles(new) /\ \A g \in Handles : new[g] = IF g = h THEN f ELSE files[g]
<1> DEFINE new == [files EXCEPT ![h] = f]
<1>1. DOMAIN files = Handles /\ \A g \in Handles : IsFile(files[g]) BY DEF IsFiles
<1>2. DOMAIN new = Handles /\ \A g \in Handles : new[g] = IF g = h THEN f ELSE files[g] BY <1>1
<1>3. new = [g \in Handles |-> new[g]] BY <1>1 DEF IsFiles
<1> HIDE DEF new
<1>4. \A g \in Handles : IsFile(new[g]) BY <1>1, <1>2
<1>5. IsFiles(new) BY <1>3, <1>4 DEF IsFiles
<1> QED BY <1>2, <1>5 DEF new

LEMMA FileClosed ==
  ASSUME NEW files, IsFiles(files), NEW h \in Handles
  PROVE  LET new == [files EXCEPT ![h].open = FALSE]
         IN IsFiles(new) /\ ~new[h].open /\ \A g \in Handles \ {h} : new[g] = files[g]
<1> DEFINE f == Closed(files[h])
           new == [files EXCEPT ![h].open = FALSE]
<1>1. IsFile(f) /\ ~f.open BY ClosedIs DEF IsFiles
<1>2. new = [files EXCEPT ![h] = f] BY DEF Closed, WithOpen
<1> HIDE DEF f, new
<1> QED BY <1>1, <1>2, FileReplaced DEF new

-----------------------------------------------------------------------------
(* What the operations make of a VFS, field by field.                      *)

LEMMA InsertedIs ==
  ASSUME NEW v, IsVfs(v), NEW put, NEW inode
  PROVE  Inserted(v, put, inode) =
           VfsOf(put.map, IF put.failed THEN v.inodes ELSE Append(v.inodes, inode),
                 v.keyboard_file_data, v.files)
<1> DEFINE a == v.map
           b == v.inodes
           c == v.keyboard_file_data
           d == v.files
           x == put.map
           y == Append(b, inode)
<1>1. v = VfsOf(a, b, c, d) BY DEF IsVfs
<1> HIDE DEF a, b, c, d, x, y
<1>2. [v EXCEPT !.map = x] = VfsOf(x, b, c, d) BY <1>1 DEF VfsOf
<1>3. [VfsOf(x, b, c, d) EXCEPT !.inodes = y] = VfsOf(x, y, c, d) BY DEF VfsOf
<1>4. [v EXCEPT !.map = x, !.inodes = y] = [[v EXCEPT !.map = x] EXCEPT !.inodes = y] OBVIOUS
<1>5. [v EXCEPT !.map = x, !.inodes = y] = VfsOf(x, y, c, d) BY <1>2, <1>3, <1>4
<1>6. v.inodes = b BY DEF b
<1>7. Inserted(v, put, inode) = IF put.failed THEN [v EXCEPT !.map = x]
                                ELSE [v EXCEPT !.map = x, !.inodes = y]
  BY <1>6 DEF Inserted, x, y
<1>8. Inserted(v, put, inode) = VfsOf(x, IF put.failed THEN b ELSE y, c, d) BY <1>2, <1>5, <1>7
<1> QED BY <1>8 DEF b, c, d, x, y

LEMMA OpenInodeIs ==
  ASSUME NEW w, IsVfs(w), NEW n, NEW h, NEW outcome
  PROVE  LET registry == IF Ops(w, n) = "kdb" THEN Register(w, h, outcome) ELSE w.keyboard_file_data
             bumped == Bump(w.inodes, n, 1)
         IN OpenInode(w, n, h, outcome) =
              IF outcome = "opened" THEN VfsOf(w.map, bumped, registry, [w.files EXCEPT ![h] = File(n)])
              ELSE VfsOf(w.map, Refuse(bumped, n), registry, w.files)
<1> DEFINE a == w.map
           b == w.inodes
           c == w.keyboard_file_data
           d == w.files
           y == Bump(b, n, 1)
           z == IF Ops(w, n) = "kdb" THEN Register(w, h, outcome) ELSE c
           u == VfsOf(a, y, z, d)
           f == [d EXCEPT ![h] = File(n)]
           r == Refuse(y, n)
           counted == [w EXCEPT !.inodes[n].number_of_references = @ + 1,
                           !.keyboard_file_data = IF Ops(w, n) = "kdb" THEN Register(w, h, outcome) ELSE @]
<1>1. w = VfsOf(a, b, c, d) BY DEF IsVfs
<1>2. w.inodes = b /\ w.keyboard_file_data = c OBVIOUS
<1>3. counted = [[w EXCEPT !.inodes = y] EXCEPT !.keyboard_file_data = z] BY DEF Bump
<1> HIDE DEF a, b, c, d, y, z
<1>4. [w EXCEPT !.inodes = y] = VfsOf(a, y, c, d) BY <1>1 DEF VfsOf
<1>5. [VfsOf(a, y, c, d) EXCEPT !.keyboard_file_data = z] = u BY DEF VfsOf
<1>6. counted = u BY <1>3, <1>4, <1>5
<1> HIDE DEF counted
<1>7. [u EXCEPT !.files[h] = File(n)] = VfsOf(a, y, z, f) BY DEF VfsOf
<1>8. [u EXCEPT !.inodes[n].refused = @ + 1] = VfsOf(a, r, z, d) BY DEF VfsOf, Refuse
<1> HIDE DEF u
<1>9. OpenInode(w, n, h, outcome) =
        IF outcome = "opened" THEN [counted EXCEPT !.files[h] = File(n)]
        ELSE [counted EXCEPT !.inodes[n].refused = @ + 1]
  BY DEF OpenInode, counted
<1>10. OpenInode(w, n, h, outcome) =
         IF outcome = "opened" THEN VfsOf(a, y, z, f) ELSE VfsOf(a, r, z, d)
  BY <1>6, <1>7, <1>8, <1>9
<1> QED BY <1>10 DEF a, b, c, d, y, z

LEMMA MinusOne ==
  ASSUME NEW inodes \in Seq(Inodes), NEW n \in DOMAIN inodes
  PROVE  [inodes EXCEPT ![n].number_of_references = @ - 1] = Bump(inodes, n, -1)
<1>1. \A m \in DOMAIN inodes : inodes[m] \in Inodes
  BY ElementOfSeq, LenProperties
<1>2. inodes[n].number_of_references \in Int BY <1>1 DEF Inodes
<1>3. inodes[n].number_of_references - 1 = inodes[n].number_of_references + (-1) BY <1>2
<1> QED BY <1>3 DEF Bump

LEMMA AnyCloseIs ==
  ASSUME NEW v, IsVfs(v), NEW n, NEW h
  PROVE  vfs_close_file(v, h, n) =
           VfsOf(v.map, [v.inodes EXCEPT ![n].number_of_references = @ - 1],
                 IF Ops(v, n) = "kdb" THEN keyboard_close(v, h) ELSE v.keyboard_file_data,
                 [v.files EXCEPT ![h].open = FALSE])
<1> DEFINE a == v.map
           b == v.inodes
           c == v.keyboard_file_data
           d == v.files
           x == [d EXCEPT ![h].open = FALSE]
           y == [b EXCEPT ![n].number_of_references = @ - 1]
           z == IF Ops(v, n) = "kdb" THEN keyboard_close(v, h) ELSE c
<1>1. v = VfsOf(a, b, c, d) BY DEF IsVfs
<1>2. vfs_close_file(v, h, n) = [[[v EXCEPT !.files = x] EXCEPT !.inodes = y] EXCEPT !.keyboard_file_data = z]
  BY DEF vfs_close_file
<1> HIDE DEF a, b, c, d, x, y, z
<1>3. [v EXCEPT !.files = x] = VfsOf(a, b, c, x) BY <1>1 DEF VfsOf
<1>4. [VfsOf(a, b, c, x) EXCEPT !.inodes = y] = VfsOf(a, y, c, x) BY DEF VfsOf
<1>5. [VfsOf(a, y, c, x) EXCEPT !.keyboard_file_data = z] = VfsOf(a, y, z, x) BY DEF VfsOf
<1>6. vfs_close_file(v, h, n) = VfsOf(a, y, z, x) BY <1>2, <1>3, <1>4, <1>5
<1> QED BY <1>6 DEF a, b, c, d, x, y, z

LEMMA CloseFileIs ==
  ASSUME NEW v, IsVfs(v), NEW n \in InodesOf(v), NEW h
  PROVE  vfs_close_file(v, h, n) =
           VfsOf(v.map, Bump(v.inodes, n, -1),
                 IF Ops(v, n) = "kdb" THEN keyboard_close(v, h) ELSE v.keyboard_file_data,
                 [v.files EXCEPT ![h].open = FALSE])
<1> DEFINE y == [v.inodes EXCEPT ![n].number_of_references = @ - 1]
           z == IF Ops(v, n) = "kdb" THEN keyboard_close(v, h) ELSE v.keyboard_file_data
           x == [v.files EXCEPT ![h].open = FALSE]
<1>1. v.inodes \in Seq(Inodes) /\ n \in DOMAIN v.inodes BY DEF IsVfs, InodesOf
<1>2. y = Bump(v.inodes, n, -1) BY <1>1, MinusOne
<1>3. vfs_close_file(v, h, n) = VfsOf(v.map, y, z, x) BY AnyCloseIs
<1> HIDE DEF x, y, z
<1> QED BY <1>2, <1>3 DEF x, z

\* The record that opening a directory leaves, and closing one.
DirectoryOpened(w, n, h, f) == [w EXCEPT !.inodes[n].number_of_references = @ + 1, !.files[h] = f]
DirectoryClosed(v, n, h) == [v EXCEPT !.inodes[n].number_of_references = @ - 1, !.files[h].open = FALSE]

LEMMA OpenDirectoryIs ==
  ASSUME NEW w, IsVfs(w), NEW n, NEW h, NEW f
  PROVE  DirectoryOpened(w, n, h, f) =
           VfsOf(w.map, Bump(w.inodes, n, 1), w.keyboard_file_data, [w.files EXCEPT ![h] = f])
<1> DEFINE a == w.map
           b == w.inodes
           c == w.keyboard_file_data
           d == w.files
           x == [d EXCEPT ![h] = f]
           y == Bump(b, n, 1)
           u == DirectoryOpened(w, n, h, f)
<1>1. w = VfsOf(a, b, c, d) BY DEF IsVfs
<1>2. u = [[w EXCEPT !.inodes = y] EXCEPT !.files = x] BY DEF Bump, DirectoryOpened
<1> HIDE DEF a, b, c, d, x, y, u
<1>3. [w EXCEPT !.inodes = y] = VfsOf(a, y, c, d) BY <1>1 DEF VfsOf
<1>4. [VfsOf(a, y, c, d) EXCEPT !.files = x] = VfsOf(a, y, c, x) BY DEF VfsOf
<1>5. u = VfsOf(a, y, c, x) BY <1>2, <1>3, <1>4
<1> QED BY <1>5 DEF a, b, c, d, x, y, u

LEMMA CloseDirectoryIs ==
  ASSUME NEW v, IsVfs(v), NEW n \in InodesOf(v), NEW h
  PROVE  DirectoryClosed(v, n, h) =
           VfsOf(v.map, Bump(v.inodes, n, -1), v.keyboard_file_data, [v.files EXCEPT ![h].open = FALSE])
<1> DEFINE a == v.map
           b == v.inodes
           c == v.keyboard_file_data
           d == v.files
           x == [d EXCEPT ![h].open = FALSE]
           y == [b EXCEPT ![n].number_of_references = @ - 1]
           u == DirectoryClosed(v, n, h)
<1>1. v = VfsOf(a, b, c, d) BY DEF IsVfs
<1>2. y = Bump(b, n, -1)
  <2>1. b \in Seq(Inodes) /\ n \in DOMAIN b BY DEF IsVfs, InodesOf
  <2> HIDE DEF b
  <2> QED BY <2>1, MinusOne
<1>3. u = [[v EXCEPT !.inodes = y] EXCEPT !.files = x] BY DEF DirectoryClosed
<1> HIDE DEF a, b, c, d, x, y, u
<1>4. [v EXCEPT !.inodes = y] = VfsOf(a, y, c, d) BY <1>1 DEF VfsOf
<1>5. [VfsOf(a, y, c, d) EXCEPT !.files = x] = VfsOf(a, y, c, x) BY DEF VfsOf
<1>6. u = VfsOf(a, y, c, x) BY <1>3, <1>4, <1>5
<1> QED BY <1>2, <1>6 DEF a, b, c, d, x, u

-----------------------------------------------------------------------------
(* What the operations keep.                                               *)

\* The parts of two VFS, the inodes' drivers and the table being the same.
SameInodes(v, u) ==
  InodesOf(u) = InodesOf(v) /\ u.map = v.map /\ \A m \in InodesOf(v) : Ops(u, m) = Ops(v, m)

LEMMA TableStays ==
  ASSUME NEW v, NEW u, TableLeadsToInodes(v), SameInodes(v, u)
  PROVE  TableLeadsToInodes(u)
BY DEF TableLeadsToInodes, SameInodes

\* While no key is rewritten, the table has every inode under its path and
\* nothing else.
Leads(v, memory) ==
  /\ Found(v.map, memory) /\ v.map.size = Len(v.inodes)
  /\ \A e \in Used(v.map) : e.data \in InodesOf(v) /\ v.inodes[e.data].path = PathOf(memory, e)
  /\ \A n \in InodesOf(v) : \E e \in Used(v.map) : e.data = n
SamePaths(v, u) == u.map = v.map /\ Alike(v.inodes, u.inodes)

LEMMA LeadsStays ==
  ASSUME NEW v, NEW u, NEW memory, Leads(v, memory), SamePaths(v, u)
  PROVE  Leads(u, memory)
BY DEF Leads, SamePaths, Alike, InodesOf

\* The next inode of a table that found no other of its path.
LEMMA LeadsOn ==
  ASSUME NEW v, v.inodes \in Seq(Inodes), NEW memory, Leads(v, memory), NEW w,
         NEW inode \in Inodes, w.inodes = Append(v.inodes, inode),
         NEW e, e.data = Len(v.inodes) + 1, PathOf(memory, e) = inode.path,
         New(v.map, memory, inode.path),
         Found(w.map, memory), Used(w.map) = Used(v.map) \cup {e}
  PROVE  Leads(w, memory)
<1> DEFINE n == Len(v.inodes)
           a == Append(v.inodes, inode)
<1>1. n \in Nat /\ DOMAIN v.inodes = 1..n BY LenProperties
<1>2. a \in Seq(Inodes) /\ Len(a) = n + 1 /\ (\A i \in 1..n : a[i] = v.inodes[i]) /\ a[n + 1] = inode
  BY AppendProperties
<1>3. w.inodes = a OBVIOUS
<1> HIDE DEF a, n
<1>4. DOMAIN a = 1..(n + 1) BY <1>2, LenProperties
<1>5. InodesOf(v) = 1..n /\ InodesOf(w) = 1..(n + 1) BY <1>1, <1>3, <1>4 DEF InodesOf
<1>6. w.map.size = n + 1
  <2>1. e \notin Used(v.map) BY DEF New
  <2>2. IsFiniteSet(Used(v.map)) /\ v.map.size = Cardinality(Used(v.map)) /\ v.map.size = n
    BY DEF Leads, Found, n
  <2>3. Cardinality(Used(w.map)) = n + 1 BY <2>1, <2>2, FS_AddElement
  <2> QED BY <2>3 DEF Found
<1>7. ASSUME NEW d \in Used(w.map)
      PROVE  d.data \in InodesOf(w) /\ w.inodes[d.data].path = PathOf(memory, d)
  <2>1. CASE d \in Used(v.map)
    <3>1. d.data \in 1..n /\ v.inodes[d.data].path = PathOf(memory, d) BY <1>5, <2>1 DEF Leads
    <3>2. d.data \in 1..(n + 1) /\ a[d.data] = v.inodes[d.data] BY <1>1, <1>2, <3>1
    <3> QED BY <1>3, <1>5, <3>1, <3>2
  <2>2. CASE d = e
    <3>1. d.data = n + 1 /\ n + 1 \in 1..(n + 1) BY <1>1, <2>2 DEF n
    <3> QED BY <1>2, <1>3, <1>5, <2>2, <3>1
  <2> QED BY <2>1, <2>2
<1>8. ASSUME NEW m \in InodesOf(w) PROVE \E d \in Used(w.map) : d.data = m
  <2>1. CASE m = n + 1 BY <2>1 DEF n
  <2>2. CASE m # n + 1
    <3>1. m \in InodesOf(v) BY <1>1, <1>5, <2>2
    <3> QED BY <3>1 DEF Leads
  <2> QED BY <2>1, <2>2
<1> QED BY <1>2, <1>3, <1>6, <1>7, <1>8 DEF Leads

\* What a table finds of the paths it has.
LEMMA Sought ==
  ASSUME NEW v, IsVfs(v), IsMem(mem), Found(v.map, mem), NEW p \in Keys
  PROVE  /\ Known(v, p) = NULL => New(v.map, mem, mem[p])
         /\ \A e \in Used(v.map) : PathOf(mem, e) = mem[p] => Known(v, p) = e.data
         /\ Known(v, p) # NULL =>
              \E e \in Used(v.map) : PathOf(mem, e) = mem[p] /\ Known(v, p) = e.data
<1> DEFINE m == v.map
           bytes == mem[p]
           at == Holding(m, mem, bytes)
<1>1. m \in Tables(Keys) BY DEF IsVfs
<1>2. Len(mem[p]) # 0 /\ Bytes(mem, p, Len(mem[p])) = bytes BY WholePath
<1>3. Known(v, p) = IF at = {} THEN NULL ELSE m.data[Min(at)].data
  BY <1>2 DEF Known, hashmap_get
<1>4. Probed(m, bytes) \subseteq Indexes(m) /\ Probed(m, bytes) \subseteq Nat BY <1>1, ProbedInside
<1>5. at \subseteq Nat BY <1>4 DEF Holding, UsedIn
<1>6. \A i \in at : i \in UsedIn(m, Indexes(m)) /\ PathOf(mem, m.data[i]) = bytes
  BY <1>4 DEF Holding, UsedIn, hashmap_memcmp_comparer, PathOf
<1>7. \A i \in UsedIn(m, Indexes(m)) : PathOf(mem, m.data[i]) = bytes => i \in at
  BY DEF Found, Whole, Holding, UsedIn, hashmap_memcmp_comparer, PathOf
<1>8. \A i, j \in UsedIn(m, Indexes(m)) : PathOf(mem, m.data[i]) = PathOf(mem, m.data[j]) => i = j
  BY DEF Found
<1>9. \A i \in UsedIn(m, Indexes(m)) : m.data[i].data \in Nat
  <2>1. TAKE i \in UsedIn(m, Indexes(m))
  <2>2. m.data[i] \in Elements(Keys) /\ m.data[i].in_use BY <1>1, TableIs DEF UsedIn
  <2>3. ~Unused.in_use BY DEF Unused
  <2> QED BY <2>2, <2>3 DEF Elements
<1>10. at # {} => Min(at) \in at BY <1>5, MinIs
<1>11. /\ \A e \in Used(m) : \E i \in UsedIn(m, Indexes(m)) : e = m.data[i]
       /\ \A i \in UsedIn(m, Indexes(m)) : m.data[i] \in Used(m)
  BY DEF Used
<1> HIDE DEF m, bytes, at
<1>12. ASSUME NEW e \in Used(m), PathOf(mem, e) = bytes PROVE Known(v, p) = e.data /\ e.data \in Nat
  <2>1. PICK i \in UsedIn(m, Indexes(m)) : e = m.data[i] BY <1>11
  <2>2. i \in at BY <1>7, <1>12, <2>1
  <2>3. Min(at) \in at BY <1>10, <2>2
  <2>4. Min(at) = i BY <1>6, <1>8, <2>2, <2>3
  <2> QED BY <1>3, <1>9, <2>1, <2>2, <2>4
<1>13. NULL \notin Nat BY HashIs
<1>14. Known(v, p) = NULL => New(m, mem, bytes) BY <1>12, <1>13 DEF New
<1>15. ASSUME Known(v, p) # NULL
       PROVE  \E e \in Used(m) : PathOf(mem, e) = bytes /\ Known(v, p) = e.data
  <2>1. at # {} /\ Known(v, p) = m.data[Min(at)].data BY <1>3, <1>15
  <2>2. Min(at) \in at BY <1>10, <2>1
  <2> QED BY <1>6, <1>11, <2>1, <2>2
<1> QED BY <1>12, <1>14, <1>15 DEF m, bytes

LEMMA Reached ==
  ASSUME NEW v, IsVfs(v), IsMem(mem), Leads(v, mem), NEW p \in Keys,
         NEW n \in InodesOf(v), mem[p] = v.inodes[n].path
  PROVE  Known(v, p) = n
<1>1. PICK e \in Used(v.map) : e.data = n BY DEF Leads
<1>2. PathOf(mem, e) = mem[p] BY <1>1 DEF Leads
<1> QED BY <1>1, <1>2, Sought DEF Leads

LEMMA OpenKeeps ==
  ASSUME NEW w, Sound(w), NEW n \in InodesOf(w), NEW h \in Handles \ Open(w),
         NEW f, IsFile(f), f.open, f.inode = n, "entries" \in DOMAIN f => Ops(w, n) # "kdb",
         NEW registry \in Seq(Int)
  PROVE  LET u == VfsOf(w.map, Bump(w.inodes, n, 1), registry, [w.files EXCEPT ![h] = f])
         IN /\ Sound(u) /\ SameInodes(w, u) /\ Open(u) = Open(w) \cup {h}
            /\ \A g \in Handles \ {h} : u.files[g] = w.files[g]
            /\ {g \in Handles : Is(u, g, "kdb")} =
                 {g \in Handles : Is(w, g, "kdb")} \cup (IF Ops(w, n) = "kdb" THEN {h} ELSE {})
<1> DEFINE b == Bump(w.inodes, n, 1)
           files == [w.files EXCEPT ![h] = f]
           u == VfsOf(w.map, b, registry, files)
<1>1. /\ w.map \in Tables(Keys) /\ w.inodes \in Seq(Inodes) /\ n \in DOMAIN w.inodes /\ IsFiles(w.files)
  BY DEF Sound, IsVfs, InodesOf
<1>2. /\ b \in Seq(Inodes) /\ DOMAIN b = DOMAIN w.inodes
      /\ \A m \in DOMAIN w.inodes :
           /\ b[m].file_operations = w.inodes[m].file_operations
           /\ b[m].refused = w.inodes[m].refused
           /\ b[m].number_of_references = w.inodes[m].number_of_references + (IF m = n THEN 1 ELSE 0)
  <2>1. 1 \in Int OBVIOUS
  <2> QED BY <1>1, <2>1, BumpIs
<1>3. IsFiles(files) /\ \A g \in Handles : files[g] = IF g = h THEN f ELSE w.files[g]
  BY <1>1, FileReplaced
<1>4. u.map = w.map /\ u.inodes = b /\ u.keyboard_file_data = registry /\ u.files = files BY DEF VfsOf
<1>5. u = VfsOf(u.map, u.inodes, u.keyboard_file_data, u.files) BY <1>4
<1> HIDE DEF b, files, u
<1>6. IsVfs(u) BY <1>1, <1>2, <1>3, <1>4, <1>5 DEF IsVfs
<1>7. SameInodes(w, u) BY <1>2, <1>4 DEF SameInodes, InodesOf, Ops
<1>8. Open(u) = Open(w) \cup {h} BY <1>3, <1>4 DEF Open
<1>9. /\ \A g \in Open(w) : u.files[g] = w.files[g] /\ u.files[g].inode \in InodesOf(w)
      /\ u.files[h] = f
  BY <1>3, <1>4 DEF Open, Sound, FilesAreOfInodes
<1>10. FilesAreOfInodes(u) BY <1>7, <1>8, <1>9 DEF FilesAreOfInodes, SameInodes
<1>11. \A g \in Open(w) : "entries" \in DOMAIN w.files[g] => Ops(w, w.files[g].inode) # "kdb"
  BY DEF Sound, DirectoriesAreOther
<1>12. DirectoriesAreOther(u) BY <1>7, <1>8, <1>9, <1>11 DEF DirectoriesAreOther, SameInodes
<1>13. TableLeadsToInodes(u) BY <1>7, TableStays DEF Sound
<1>14. ASSUME NEW m \in InodesOf(u)
       PROVE  u.inodes[m].number_of_references = Cardinality(HandlesOf(u, m)) + u.inodes[m].refused
  <2>1. HandlesOf(u, m) = HandlesOf(w, m) \cup (IF m = n THEN {h} ELSE {})
    BY <1>8, <1>9 DEF HandlesOf
  <2>2. h \notin HandlesOf(w, m) /\ IsFiniteSet(HandlesOf(w, m)) /\ Cardinality(HandlesOf(w, m)) \in Nat
    BY FinitelyOpen DEF HandlesOf
  <2>3. Cardinality(HandlesOf(u, m)) = Cardinality(HandlesOf(w, m)) + (IF m = n THEN 1 ELSE 0)
    <3>1. CASE m = n
      <4>1. HandlesOf(u, m) = HandlesOf(w, m) \cup {h} BY <2>1, <3>1
      <4>2. Cardinality(HandlesOf(w, m) \cup {h}) = Cardinality(HandlesOf(w, m)) + 1
        BY <2>2, FS_AddElement
      <4> QED BY <3>1, <4>1, <4>2
    <3>2. CASE m # n
      <4>1. HandlesOf(u, m) = HandlesOf(w, m) BY <2>1, <3>2
      <4> QED BY <2>2, <3>2, <4>1
    <3> QED BY <3>1, <3>2
  <2>4. w.inodes[m].number_of_references = Cardinality(HandlesOf(w, m)) + w.inodes[m].refused
    BY <1>7, <1>14 DEF Sound, Counted, SameInodes
  <2>5. m \in DOMAIN w.inodes BY <1>7, <1>14 DEF SameInodes, InodesOf
  <2>6. w.inodes[m].refused \in Nat
    <3>1. w.inodes[m] \in Inodes BY <1>1, <2>5, ElementOfSeq, LenProperties
    <3> QED BY <3>1 DEF Inodes
  <2>7. /\ u.inodes[m].number_of_references = w.inodes[m].number_of_references + (IF m = n THEN 1 ELSE 0)
        /\ u.inodes[m].refused = w.inodes[m].refused
    BY <1>2, <1>4, <2>5
  <2> DEFINE add == IF m = n THEN 1 ELSE 0
  <2>8. add \in Int OBVIOUS
  <2> HIDE DEF add
  <2>9. /\ u.inodes[m].number_of_references = w.inodes[m].number_of_references + add
        /\ Cardinality(HandlesOf(u, m)) = Cardinality(HandlesOf(w, m)) + add
    BY <2>3, <2>7 DEF add
  <2> QED BY <2>2, <2>4, <2>6, <2>7, <2>8, <2>9
<1>15. Sound(u) BY <1>6, <1>10, <1>12, <1>13, <1>14 DEF Sound, Counted
<1>16. {g \in Handles : Is(u, g, "kdb")} =
         {g \in Handles : Is(w, g, "kdb")} \cup (IF Ops(w, n) = "kdb" THEN {h} ELSE {})
  <2>1. \A g \in Open(w) : Ops(u, u.files[g].inode) = Ops(w, w.files[g].inode)
    BY <1>7, <1>9 DEF SameInodes
  <2>2. Ops(u, u.files[h].inode) = Ops(w, n) BY <1>7, <1>9 DEF SameInodes
  <2> QED BY <1>8, <2>1, <2>2 DEF Is
<1>17. \A g \in Handles \ {h} : u.files[g] = w.files[g] BY <1>3, <1>4
<1> QED BY <1>7, <1>8, <1>15, <1>16, <1>17 DEF u, b, files

LEMMA RefusalKeeps ==
  ASSUME NEW w, Sound(w), NEW n \in InodesOf(w), NEW registry \in Seq(Int)
  PROVE  LET u == VfsOf(w.map, Refuse(Bump(w.inodes, n, 1), n), registry, w.files)
         IN /\ Sound(u) /\ SameInodes(w, u) /\ Open(u) = Open(w) /\ u.files = w.files
            /\ {g \in Handles : Is(u, g, "kdb")} = {g \in Handles : Is(w, g, "kdb")}
<1> DEFINE a == Bump(w.inodes, n, 1)
           b == Refuse(a, n)
           u == VfsOf(w.map, b, registry, w.files)
<1>1. /\ w.map \in Tables(Keys) /\ w.inodes \in Seq(Inodes) /\ n \in DOMAIN w.inodes /\ IsFiles(w.files)
  BY DEF Sound, IsVfs, InodesOf
<1>2. /\ a \in Seq(Inodes) /\ DOMAIN a = DOMAIN w.inodes
      /\ \A m \in DOMAIN w.inodes :
           /\ a[m].file_operations = w.inodes[m].file_operations
           /\ a[m].refused = w.inodes[m].refused
           /\ a[m].number_of_references = w.inodes[m].number_of_references + (IF m = n THEN 1 ELSE 0)
  <2>1. 1 \in Int OBVIOUS
  <2> QED BY <1>1, <2>1, BumpIs
<1> HIDE DEF a
<1>3. /\ b \in Seq(Inodes) /\ DOMAIN b = DOMAIN a
      /\ \A m \in DOMAIN a :
           /\ b[m].file_operations = a[m].file_operations
           /\ b[m].number_of_references = a[m].number_of_references
           /\ b[m].refused = a[m].refused + (IF m = n THEN 1 ELSE 0)
  BY <1>1, <1>2, RefuseIs
<1>4. u.map = w.map /\ u.inodes = b /\ u.keyboard_file_data = registry /\ u.files = w.files BY DEF VfsOf
<1>5. u = VfsOf(u.map, u.inodes, u.keyboard_file_data, u.files) BY <1>4
<1> HIDE DEF b, u
<1>6. IsVfs(u) BY <1>1, <1>3, <1>4, <1>5 DEF IsVfs
<1>7. SameInodes(w, u) BY <1>2, <1>3, <1>4 DEF SameInodes, InodesOf, Ops
<1>8. Open(u) = Open(w) BY <1>4 DEF Open
<1>9. \A g \in Open(w) : w.files[g].inode \in InodesOf(w) BY DEF Sound, FilesAreOfInodes
<1>10. FilesAreOfInodes(u) BY <1>4, <1>7, <1>8, <1>9 DEF FilesAreOfInodes, SameInodes
<1>11. DirectoriesAreOther(u)
  BY <1>4, <1>7, <1>8, <1>9 DEF DirectoriesAreOther, SameInodes, Sound
<1>12. TableLeadsToInodes(u) BY <1>7, TableStays DEF Sound
<1>13. ASSUME NEW m \in InodesOf(u)
       PROVE  u.inodes[m].number_of_references = Cardinality(HandlesOf(u, m)) + u.inodes[m].refused
  <2>1. HandlesOf(u, m) = HandlesOf(w, m) BY <1>4, <1>8 DEF HandlesOf
  <2>2. Cardinality(HandlesOf(w, m)) \in Nat BY FinitelyOpen
  <2>3. w.inodes[m].number_of_references = Cardinality(HandlesOf(w, m)) + w.inodes[m].refused
    BY <1>7, <1>13 DEF Sound, Counted, SameInodes
  <2>4. m \in DOMAIN w.inodes BY <1>7, <1>13 DEF SameInodes, InodesOf
  <2>5. w.inodes[m].refused \in Nat
    <3>1. w.inodes[m] \in Inodes BY <1>1, <2>4, ElementOfSeq, LenProperties
    <3> QED BY <3>1 DEF Inodes
  <2> QED BY <1>2, <1>3, <1>4, <2>1, <2>2, <2>3, <2>4, <2>5
<1>14. Sound(u) BY <1>6, <1>10, <1>11, <1>12, <1>13 DEF Sound, Counted
<1>15. {g \in Handles : Is(u, g, "kdb")} = {g \in Handles : Is(w, g, "kdb")}
  BY <1>4, <1>7, <1>8, <1>9 DEF Is, SameInodes
<1> QED BY <1>4, <1>7, <1>8, <1>14, <1>15 DEF u, a, b

LEMMA CloseKeeps ==
  ASSUME NEW v, Sound(v), NEW h \in Open(v), NEW n, n = v.files[h].inode, NEW registry \in Seq(Int)
  PROVE  LET u == VfsOf(v.map, Bump(v.inodes, n, -1), registry, [v.files EXCEPT ![h].open = FALSE])
         IN /\ Sound(u) /\ SameInodes(v, u) /\ Open(u) = Open(v) \ {h}
            /\ \A g \in Handles \ {h} : u.files[g] = v.files[g]
            /\ {g \in Handles : Is(u, g, "kdb")} = {g \in Handles : Is(v, g, "kdb")} \ {h}
<1> DEFINE b == Bump(v.inodes, n, -1)
           files == [v.files EXCEPT ![h].open = FALSE]
           u == VfsOf(v.map, b, registry, files)
<1>1. /\ v.map \in Tables(Keys) /\ v.inodes \in Seq(Inodes) /\ n \in DOMAIN v.inodes
      /\ IsFiles(v.files) /\ h \in Handles
  BY DEF Sound, IsVfs, InodesOf, FilesAreOfInodes, Open
<1>2. /\ b \in Seq(Inodes) /\ DOMAIN b = DOMAIN v.inodes
      /\ \A m \in DOMAIN v.inodes :
           /\ b[m].file_operations = v.inodes[m].file_operations
           /\ b[m].refused = v.inodes[m].refused
           /\ b[m].number_of_references = v.inodes[m].number_of_references + (IF m = n THEN -1 ELSE 0)
  <2>1. -1 \in Int OBVIOUS
  <2> QED BY <1>1, <2>1, BumpIs
<1>3. IsFiles(files) /\ ~files[h].open /\ \A g \in Handles \ {h} : files[g] = v.files[g]
  BY <1>1, FileClosed
<1>4. u.map = v.map /\ u.inodes = b /\ u.keyboard_file_data = registry /\ u.files = files BY DEF VfsOf
<1>5. u = VfsOf(u.map, u.inodes, u.keyboard_file_data, u.files) BY <1>4
<1> HIDE DEF b, files, u
<1>6. IsVfs(u) BY <1>1, <1>2, <1>3, <1>4, <1>5 DEF IsVfs
<1>7. SameInodes(v, u) BY <1>2, <1>4 DEF SameInodes, InodesOf, Ops
<1>8. Open(u) = Open(v) \ {h} BY <1>3, <1>4 DEF Open
<1>9. \A g \in Open(u) : u.files[g] = v.files[g] /\ v.files[g].inode \in InodesOf(v)
  BY <1>3, <1>4, <1>8 DEF Open, Sound, FilesAreOfInodes
<1>10. FilesAreOfInodes(u) BY <1>7, <1>9 DEF FilesAreOfInodes, SameInodes
<1>11. DirectoriesAreOther(u)
  BY <1>7, <1>8, <1>9 DEF DirectoriesAreOther, SameInodes, Sound
<1>12. TableLeadsToInodes(u) BY <1>7, TableStays DEF Sound
<1>13. ASSUME NEW m \in InodesOf(u)
       PROVE  u.inodes[m].number_of_references = Cardinality(HandlesOf(u, m)) + u.inodes[m].refused
  <2>1. HandlesOf(u, m) = HandlesOf(v, m) \ (IF m = n THEN {h} ELSE {})
    BY <1>8, <1>9 DEF HandlesOf
  <2>2. (m = n => h \in HandlesOf(v, m)) /\ IsFiniteSet(HandlesOf(v, m)) /\ Cardinality(HandlesOf(v, m)) \in Nat
    BY FinitelyOpen DEF HandlesOf
  <2>3. Cardinality(HandlesOf(u, m)) = Cardinality(HandlesOf(v, m)) + (IF m = n THEN -1 ELSE 0)
    <3>1. CASE m = n
      <4>1. HandlesOf(u, m) = HandlesOf(v, m) \ {h} BY <2>1, <3>1
      <4> QED BY <2>2, <3>1, <4>1, FS_RemoveElement
    <3>2. CASE m # n
      <4>1. HandlesOf(u, m) = HandlesOf(v, m) BY <2>1, <3>2
      <4> QED BY <2>2, <3>2, <4>1
    <3> QED BY <3>1, <3>2
  <2>4. v.inodes[m].number_of_references = Cardinality(HandlesOf(v, m)) + v.inodes[m].refused
    BY <1>7, <1>13 DEF Sound, Counted, SameInodes
  <2>5. m \in DOMAIN v.inodes BY <1>7, <1>13 DEF SameInodes, InodesOf
  <2>6. v.inodes[m].refused \in Nat
    <3>1. v.inodes[m] \in Inodes BY <1>1, <2>5, ElementOfSeq, LenProperties
    <3> QED BY <3>1 DEF Inodes
  <2>7. /\ u.inodes[m].number_of_references = v.inodes[m].number_of_references + (IF m = n THEN -1 ELSE 0)
        /\ u.inodes[m].refused = v.inodes[m].refused
    BY <1>2, <1>4, <2>5
  <2> DEFINE add == IF m = n THEN -1 ELSE 0
  <2>8. add \in Int OBVIOUS
  <2> HIDE DEF add
  <2>9. /\ u.inodes[m].number_of_references = v.inodes[m].number_of_references + add
        /\ Cardinality(HandlesOf(u, m)) = Cardinality(HandlesOf(v, m)) + add
    BY <2>3, <2>7 DEF add
  <2> QED BY <2>2, <2>4, <2>6, <2>7, <2>8, <2>9
<1>14. Sound(u) BY <1>6, <1>10, <1>11, <1>12, <1>13 DEF Sound, Counted
<1>15. {g \in Handles : Is(u, g, "kdb")} = {g \in Handles : Is(v, g, "kdb")} \ {h}
  BY <1>7, <1>8, <1>9 DEF Is, SameInodes
<1>16. \A g \in Handles \ {h} : u.files[g] = v.files[g] BY <1>3, <1>4
<1> QED BY <1>7, <1>8, <1>14, <1>15, <1>16 DEF u, b, files

-----------------------------------------------------------------------------
(* The registry as a sequence.                                             *)

LEMMA AppendRange ==
  ASSUME NEW s \in Seq(Int), NEW x \in Int
  PROVE  /\ Append(s, x) \in Seq(Int) /\ Range(Append(s, x)) = Range(s) \cup {x}
         /\ IsInjective(s) /\ x \notin Range(s) => IsInjective(Append(s, x))
<1> DEFINE t == Append(s, x)
           n == Len(s)
<1>1. n \in Nat /\ DOMAIN s = 1..n BY LenProperties
<1>2. t \in Seq(Int) /\ Len(t) = n + 1 /\ (\A i \in 1..n : t[i] = s[i]) /\ t[n + 1] = x
  BY AppendProperties
<1> HIDE DEF t, n
<1>3. DOMAIN t = 1..(n + 1) BY <1>2, LenProperties
<1>4. \A i \in DOMAIN t : i = n + 1 \/ i \in DOMAIN s BY <1>1, <1>3
<1>5. n + 1 \in DOMAIN t /\ DOMAIN s \subseteq DOMAIN t BY <1>1, <1>3
<1>6. Range(t) = Range(s) \cup {x} BY <1>1, <1>2, <1>4, <1>5 DEF Range
<1>7. ASSUME IsInjective(s), x \notin Range(s) PROVE IsInjective(t)
  <2>1. \A i \in DOMAIN s : s[i] # x BY <1>7 DEF Range
  <2>2. \A i, j \in DOMAIN s : s[i] = s[j] => i = j BY <1>7 DEF IsInjective
  <2>3. SUFFICES ASSUME NEW i \in DOMAIN t, NEW j \in DOMAIN t, t[i] = t[j] PROVE i = j
    BY DEF IsInjective
  <2> QED BY <1>1, <1>2, <1>4, <2>1, <2>2, <2>3
<1> QED BY <1>2, <1>6, <1>7 DEF t

LEMMA FrontRange ==
  ASSUME NEW s \in Seq(Int), s # <<>>
  PROVE  /\ Front(s) \in Seq(Int)
         /\ IsInjective(s) => Range(Front(s)) = Range(s) \ {Last(s)} /\ IsInjective(Front(s))
<1> DEFINE n == Len(s)
           t == Front(s)
<1>1. n \in Nat /\ n # 0 /\ DOMAIN s = 1..n /\ \A i \in 1..n : s[i] \in Int
  BY LenProperties, EmptySeq, ElementOfSeq
<1>2. t \in Seq(Int) /\ Len(t) = n - 1 /\ \A i \in 1..(n - 1) : t[i] = s[i]
  <2>1. \A i \in 1..(n - 1) : s[i] \in Int BY <1>1
  <2>2. 1 \in 1..(n + 1) /\ n - 1 \in 0..n /\ 1 - 1 + (n - 1) = n - 1 BY <1>1
  <2>3. t = SubSeq(s, 1, n - 1) BY DEF Front
  <2>4. t = [i \in 1..(n - 1) |-> s[i]]
    <3>1. SubSeq(s, 1, n - 1) = [i \in 1..((1 + (n - 1)) - 1) |-> s[(i + 1) - 1]] BY <1>1
    <3>2. (1 + (n - 1)) - 1 = n - 1 /\ \A i \in 1..(n - 1) : (i + 1) - 1 = i BY <1>1
    <3> QED BY <2>3, <3>1, <3>2
  <2> HIDE DEF t
  <2>5. n - 1 \in Nat BY <1>1
  <2>6. t \in Seq(Int) /\ Len(t) = n - 1 BY <2>1, <2>4, <2>5, IsASeq
  <2> QED BY <2>4, <2>6
<1>3. Last(s) = s[n] BY DEF Last
<1> HIDE DEF t, n
<1>4. DOMAIN t = 1..(n - 1) /\ n \in DOMAIN s /\ \A i \in DOMAIN s : i = n \/ i \in DOMAIN t
  BY <1>1, <1>2, LenProperties
<1>5. DOMAIN t \subseteq DOMAIN s /\ n \notin DOMAIN t BY <1>1, <1>4
<1>6. ASSUME IsInjective(s) PROVE Range(t) = Range(s) \ {s[n]} /\ IsInjective(t)
  <2>1. \A i, j \in DOMAIN s : s[i] = s[j] => i = j BY <1>6 DEF IsInjective
  <2>2. \A i \in DOMAIN t : t[i] = s[i] /\ s[i] # s[n] BY <1>2, <1>4, <1>5, <2>1
  <2>3. Range(t) = Range(s) \ {s[n]} BY <1>4, <1>5, <2>2 DEF Range
  <2>4. IsInjective(t) BY <1>5, <2>1, <2>2 DEF IsInjective
  <2> QED BY <2>3, <2>4
<1> QED BY <1>2, <1>3, <1>6 DEF t

-----------------------------------------------------------------------------
(* Inodes are found and made.                                              *)

\* What an operation that may only add an inode keeps.
OnlyInodes(v, w) ==
  /\ Sound(w) /\ w.files = v.files /\ w.keyboard_file_data = v.keyboard_file_data
  /\ Open(w) = Open(v) /\ InodesOf(v) \subseteq InodesOf(w)
  /\ {g \in Handles : Is(w, g, "kdb")} = {g \in Handles : Is(v, g, "kdb")}

LEMMA InsertKeeps ==
  ASSUME NEW v, Sound(v), IsMem(mem), NEW path \in Keys, NEW inode \in Inodes,
         inode.number_of_references = 0, inode.refused = 0,
         inode.file_operations = "kdb" => path = "kdb"
  PROVE  LET w == insert_new_inode(v, path, inode)
         IN /\ OnlyInodes(v, w)
            /\ w.inodes = v.inodes \/ w.inodes = Append(v.inodes, inode)
            /\ v.map.size = 0 /\ Used(v.map) = {} => w.inodes = Append(v.inodes, inode)
            /\ ~Refuses(v, path) => w.inodes = Append(v.inodes, inode)
            /\ /\ Leads(v, mem) /\ New(v.map, mem, mem[path]) /\ inode.path = mem[path]
               /\ ~Refuses(v, path)
               => Leads(w, mem)
<1> DEFINE len == Len(mem[path])
           n == Len(v.inodes)
           put == hashmap_put(v.map, mem, path, len, n + 1)
           inodes == IF put.failed THEN v.inodes ELSE Append(v.inodes, inode)
           w == insert_new_inode(v, path, inode)
<1>1. /\ IsVfs(v) /\ v.map \in Tables(Keys) /\ v.inodes \in Seq(Inodes) /\ IsFiles(v.files)
      /\ v.keyboard_file_data \in Seq(Int)
  BY DEF Sound, IsVfs
<1>2. len \in Nat /\ len # 0 /\ DOMAIN mem = Keys BY WholePath
<1>3. n \in Nat /\ DOMAIN v.inodes = 1..n BY <1>1, LenProperties
<1>4. /\ put \in [failed : BOOLEAN, map : Tables(Keys)]
      /\ Used(put.map) \subseteq Used(v.map) \cup (IF put.failed THEN {} ELSE {Element(path, len, n + 1)})
      /\ v.map.size = 0 /\ Used(v.map) = {} => ~put.failed
      /\ Places(put, [map |-> v.map, key |-> path, len |-> len, data |-> n + 1], mem)
  <2>1. n + 1 \in Nat BY <1>3
  <2> HIDE DEF len, n
  <2> QED BY <1>1, <1>2, <2>1, PutIs
<1>r. Refuses(v, path) <=> put.failed BY DEF Refuses
<1>5. w = VfsOf(put.map, inodes, v.keyboard_file_data, v.files)
  BY <1>1, InsertedIs DEF insert_new_inode
<1>6. /\ w.map = put.map /\ w.inodes = inodes /\ w.keyboard_file_data = v.keyboard_file_data
      /\ w.files = v.files
  BY <1>5 DEF VfsOf
<1> HIDE DEF put, w, len, n
<1>7. /\ inodes \in Seq(Inodes) /\ \A m \in 1..n : m \in DOMAIN inodes /\ inodes[m] = v.inodes[m]
      /\ ~put.failed => DOMAIN inodes = 1..(n + 1) /\ inodes[n + 1] = inode
  <2>1. CASE put.failed BY <1>1, <1>3, <2>1
  <2>2. CASE ~put.failed
    <3> DEFINE a == Append(v.inodes, inode)
    <3>1. a \in Seq(Inodes) /\ Len(a) = n + 1 /\ (\A i \in 1..n : a[i] = v.inodes[i]) /\ a[n + 1] = inode
      BY <1>1, AppendProperties DEF n
    <3>2. inodes = a BY <2>2
    <3> HIDE DEF a, inodes
    <3>3. DOMAIN a = 1..(n + 1) BY <3>1, LenProperties
    <3>4. \A m \in 1..n : m \in 1..(n + 1) BY <1>3
    <3> QED BY <3>1, <3>2, <3>3, <3>4
  <2> QED BY <2>1, <2>2
<1>8. put.failed => inodes = v.inodes OBVIOUS
<1> HIDE DEF inodes
<1>9. IsVfs(w)
  <2>1. put.map \in Tables(Keys) BY <1>4
  <2> QED BY <1>1, <1>5, <1>6, <1>7, <2>1 DEF IsVfs
<1>10. \A m \in InodesOf(v) : m \in 1..n /\ m \in InodesOf(w) /\ w.inodes[m] = v.inodes[m] /\ Ops(w, m) = Ops(v, m)
  BY <1>3, <1>6, <1>7 DEF InodesOf, Ops
<1>11. Open(w) = Open(v) /\ \A g \in Open(v) : v.files[g].inode \in InodesOf(v)
  BY <1>6 DEF Open, Sound, FilesAreOfInodes
<1>12. FilesAreOfInodes(w) BY <1>6, <1>10, <1>11 DEF FilesAreOfInodes
<1>13. DirectoriesAreOther(w) BY <1>6, <1>10, <1>11 DEF DirectoriesAreOther, Sound
<1>14. ASSUME NEW e \in Used(w.map)
       PROVE  /\ e.data \in InodesOf(w)
              /\ Ops(w, e.data) = "kdb" => e.key = "kdb" /\ e.key_len = Len(Literals["kdb"])
  <2>1. CASE e \in Used(v.map)
    <3>1. /\ e.data \in InodesOf(v)
          /\ Ops(v, e.data) = "kdb" => e.key = "kdb" /\ e.key_len = Len(Literals["kdb"])
      BY <2>1 DEF Sound, TableLeadsToInodes
    <3> QED BY <1>10, <3>1
  <2>2. CASE ~put.failed /\ e = Element(path, len, n + 1)
    <3>1. e.key = path /\ e.key_len = len /\ e.data = n + 1 BY <2>2 DEF Element
    <3>2. n + 1 \in InodesOf(w) /\ Ops(w, n + 1) = inode.file_operations
      BY <1>3, <1>6, <1>7, <2>2 DEF InodesOf, Ops
    <3>3. path = "kdb" => len = Len(Literals["kdb"]) BY ConstantsAre DEF len, IsMem
    <3> QED BY <3>1, <3>2, <3>3
  <2>3. e \in Used(v.map) \/ (~put.failed /\ e = Element(path, len, n + 1)) BY <1>4, <1>6
  <2> QED BY <2>1, <2>2, <2>3
<1>15. TableLeadsToInodes(w) BY <1>14 DEF TableLeadsToInodes
<1>16. ASSUME NEW m \in InodesOf(w)
       PROVE  w.inodes[m].number_of_references = Cardinality(HandlesOf(w, m)) + w.inodes[m].refused
  <2>1. HandlesOf(w, m) = HandlesOf(v, m) BY <1>6, <1>11 DEF HandlesOf
  <2>2. CASE m \in InodesOf(v)
    <3>1. v.inodes[m].number_of_references = Cardinality(HandlesOf(v, m)) + v.inodes[m].refused
      BY <2>2 DEF Sound, Counted
    <3> QED BY <1>10, <2>1, <2>2, <3>1
  <2>3. CASE m \notin InodesOf(v)
    <3>1. ~put.failed BY <1>6, <1>8, <2>3 DEF InodesOf
    <3>2. m = n + 1 BY <1>3, <1>6, <1>7, <2>3, <3>1 DEF InodesOf
    <3>3. w.inodes[m] = inode BY <1>6, <1>7, <3>1, <3>2
    <3>4. HandlesOf(v, m) = {} BY <1>11, <2>3 DEF HandlesOf
    <3>5. Cardinality(HandlesOf(w, m)) = 0 BY <2>1, <3>4, FS_EmptySet
    <3> QED BY <3>3, <3>5
  <2> QED BY <2>2, <2>3
<1>17. Sound(w) BY <1>9, <1>12, <1>13, <1>15, <1>16 DEF Sound, Counted
<1>18. {g \in Handles : Is(w, g, "kdb")} = {g \in Handles : Is(v, g, "kdb")}
  BY <1>6, <1>10, <1>11 DEF Is
<1>19. OnlyInodes(v, w) BY <1>6, <1>10, <1>11, <1>17, <1>18 DEF OnlyInodes
<1>20. w.inodes = IF put.failed THEN v.inodes ELSE Append(v.inodes, inode) BY <1>6 DEF inodes
<1>21. ASSUME Leads(v, mem), New(v.map, mem, mem[path]), inode.path = mem[path], ~put.failed
       PROVE  Leads(w, mem)
  <2> DEFINE call == [map |-> v.map, key |-> path, len |-> len, data |-> n + 1]
             e == Element(path, len, n + 1)
  <2>1. Given(call) = e /\ call.map = v.map BY DEF Given
  <2>2. e.key = path /\ e.key_len = len /\ e.data = n + 1 BY DEF Element
  <2>3. Places(put, call, mem) BY <1>4
  <2> HIDE DEF call, e
  <2>4. PathOf(mem, e) = mem[path] BY <2>2, WholePath DEF PathOf, len
  <2>5. Whole(mem, e) BY <1>2, <2>2, <2>4 DEF Whole, len
  <2>6. Found(put.map, mem) /\ Used(put.map) = Used(v.map) \cup {e}
    BY <1>21, <2>1, <2>3, <2>4, <2>5 DEF Places, Leads
  <2>7. w.inodes = Append(v.inodes, inode) BY <1>20, <1>21
  <2>8. e.data = Len(v.inodes) + 1 BY <2>2 DEF n
  <2>9. PathOf(mem, e) = inode.path /\ New(v.map, mem, inode.path) BY <1>21, <2>4
  <2>10. Found(w.map, mem) /\ Used(w.map) = Used(v.map) \cup {e} BY <1>6, <2>6
  <2> QED BY <1>1, <1>21, <2>7, <2>8, <2>9, <2>10, LeadsOn
<1> QED BY <1>4, <1>19, <1>20, <1>21, <1>r DEF w

\* The inode of a path is one of the VFS, and the keyboard's only by its name.
LEMMA LookupIs ==
  ASSUME NEW v, Sound(v), IsMem(mem), NEW p \in Keys, Known(v, p) # NULL
  PROVE  /\ Known(v, p) \in InodesOf(v)
         /\ p \in DOMAIN Literals \ {"kdb"} => Ops(v, Known(v, p)) # "kdb"
<1> DEFINE bytes == mem[p]
           at == Holding(v.map, mem, bytes)
           e == v.map.data[Min(at)]
<1>1. v.map \in Tables(Keys) BY DEF Sound, IsVfs
<1>2. Len(mem[p]) # 0 /\ Bytes(mem, p, Len(mem[p])) = bytes BY WholePath
<1>3. at # {} /\ Known(v, p) = e.data BY <1>2 DEF Known, hashmap_get
<1>4. Probed(v.map, bytes) \subseteq Indexes(v.map) /\ Probed(v.map, bytes) \subseteq Nat
  BY <1>1, ProbedInside
<1>5. at \subseteq Nat BY <1>4 DEF Holding, UsedIn
<1>6. Min(at) \in at BY <1>3, <1>5, MinIs
<1>7. e \in Used(v.map) BY <1>4, <1>6 DEF Holding, UsedIn, Used
<1>8. e.key_len = Len(bytes) /\ Bytes(mem, e.key, e.key_len) = bytes
  BY <1>6 DEF Holding, hashmap_memcmp_comparer
<1> HIDE DEF e, at, bytes
<1>9. /\ e.data \in InodesOf(v)
      /\ Ops(v, e.data) = "kdb" => e.key = "kdb" /\ e.key_len = Len(Literals["kdb"])
  BY <1>7 DEF Sound, TableLeadsToInodes
<1>10. ASSUME p \in DOMAIN Literals \ {"kdb"}, Ops(v, e.data) = "kdb" PROVE FALSE
  <2>1. mem["kdb"] = Literals["kdb"] /\ mem[p] = Literals[p] /\ "kdb" \in Keys /\ "kdb" \in DOMAIN Literals
    BY <1>10, ConstantsAre DEF IsMem
  <2>2. Bytes(mem, "kdb", Len(mem["kdb"])) = mem["kdb"] BY <2>1, WholePath
  <2>3. bytes = Literals["kdb"] BY <1>8, <1>9, <1>10, <2>1, <2>2
  <2>4. Literals[p] # Literals["kdb"] BY <1>10, <2>1, ConstantsAre
  <2> QED BY <2>1, <2>3, <2>4 DEF bytes
<1> QED BY <1>3, <1>9, <1>10

LEMMA DeviceIs ==
  ASSUME IsMem(mem), NEW path \in Keys, NEW ops \in Drivers, NEW type \in Nat
  PROVE  LET inode == Device(mem[path], ops, type)
         IN /\ inode \in Inodes /\ inode.number_of_references = 0 /\ inode.refused = 0
            /\ inode.file_operations = ops /\ inode.path = mem[path]
<1>1. mem[path] \in Paths BY WholePath
<1> QED BY <1>1 DEF Device, Inodes

LEMMA PhysicalIs ==
  ASSUME IsMem(mem), IsDisk(disk), NEW path \in Keys
  PROVE  LET inode == Physical(mem[path])
         IN /\ inode \in Inodes /\ inode.number_of_references = 0 /\ inode.refused = 0
            /\ inode.file_operations = "fs" /\ inode.path = mem[path]
<1> DEFINE type == PhysicalType(mem[path])
<1>1. type \in Nat BY DEF PhysicalType, IsDisk, VFS_ERROR
<1>2. Physical(mem[path]) = Device(mem[path], "fs", type) BY DEF Physical
<1>3. "fs" \in Drivers BY DEF Drivers
<1> HIDE DEF type
<1>4. LET inode == Device(mem[path], "fs", type)
      IN /\ inode \in Inodes /\ inode.number_of_references = 0 /\ inode.refused = 0
         /\ inode.file_operations = "fs" /\ inode.path = mem[path]
  BY <1>1, <1>3, DeviceIs
<1> QED BY <1>2, <1>4

LEMMA Unchanged ==
  ASSUME NEW v, Sound(v)
  PROVE  OnlyInodes(v, v)
BY DEF OnlyInodes

\* Making a device; the keyboard's is made under its own name.
LEMMA CreateKeeps ==
  ASSUME NEW v, Sound(v), IsMem(mem), NEW path \in Keys, NEW ops \in Drivers, NEW type \in Nat,
         ops = "kdb" => path = "kdb"
  PROVE  /\ OnlyInodes(v, vfs_create_device_file(v, path, ops, type))
         /\ OnlyInodes(v, vfs_create_device_file_no_checks(v, path, ops, type))
         /\ v.map.size = 0 /\ Used(v.map) = {} =>
              InodesOf(vfs_create_device_file_no_checks(v, path, ops, type)) # {}
         /\ Leads(v, mem) /\ ~Refuses(v, path) => Leads(vfs_create_device_file(v, path, ops, type), mem)
         /\ Leads(v, mem) /\ ~Refuses(v, path) /\ Used(v.map) = {} =>
              Leads(vfs_create_device_file_no_checks(v, path, ops, type), mem)
<1> DEFINE inode == Device(mem[path], ops, type)
           w == vfs_create_device_file_no_checks(v, path, ops, type)
<1>1. /\ inode \in Inodes /\ inode.number_of_references = 0 /\ inode.refused = 0
      /\ inode.file_operations = ops /\ inode.path = mem[path]
  BY DeviceIs
<1>2. w = insert_new_inode(v, path, inode) BY DEF vfs_create_device_file_no_checks
<1> HIDE DEF inode, w
<1>3. /\ OnlyInodes(v, w)
      /\ v.map.size = 0 /\ Used(v.map) = {} => w.inodes = Append(v.inodes, inode)
      /\ Leads(v, mem) /\ New(v.map, mem, mem[path]) /\ ~Refuses(v, path) => Leads(w, mem)
  BY <1>1, <1>2, InsertKeeps
<1>4. \/ vfs_create_device_file(v, path, ops, type) = v
      \/ vfs_create_device_file(v, path, ops, type) = w /\ Known(v, path) = NULL
  BY DEF vfs_create_device_file, w, Known
<1>5. ASSUME v.map.size = 0, Used(v.map) = {} PROVE InodesOf(w) # {}
  <2>1. v.inodes \in Seq(Inodes) BY DEF Sound, IsVfs
  <2>2. w.inodes \in Seq(Inodes) /\ w.inodes # <<>> BY <1>1, <1>3, <1>5, <2>1, AppendProperties
  <2>3. Len(w.inodes) \in DOMAIN w.inodes BY <2>2, LenProperties, EmptySeq
  <2> QED BY <2>3 DEF InodesOf
<1>6. ASSUME Leads(v, mem), Known(v, path) = NULL PROVE New(v.map, mem, mem[path])
  BY <1>6, Sought DEF Leads, Sound
<1>7. Used(v.map) = {} => New(v.map, mem, mem[path]) BY DEF New
<1> QED BY <1>3, <1>4, <1>5, <1>6, <1>7, Unchanged DEF w

\* The inode of a path that exists, old or new.
LEMMA WithInodeKeeps ==
  ASSUME NEW v, Sound(v), IsMem(mem), IsDisk(disk), NEW path \in Keys
  PROVE  LET w == WithInode(v, path)
             n == InodeAt(v, w, path)
         IN /\ OnlyInodes(v, w)
            /\ InodesOf(w) # {} => n \in InodesOf(w)
            /\ ~InsertFails(v, path) => n \in InodesOf(w)
            /\ ~InsertFails(v, path) /\ path \in DOMAIN Literals \ {"kdb"} => Ops(w, n) # "kdb"
            /\ ~InsertFails(v, path) /\ Leads(v, mem) => Leads(w, mem)
<1> DEFINE w == WithInode(v, path)
           n == InodeAt(v, w, path)
           inode == Physical(mem[path])
<1>1. CASE Known(v, path) # NULL
  <2>1. w = v /\ n = Known(v, path) BY <1>1 DEF WithInode, InodeAt
  <2>2. /\ Known(v, path) \in InodesOf(v)
        /\ path \in DOMAIN Literals \ {"kdb"} => Ops(v, Known(v, path)) # "kdb"
    BY <1>1, LookupIs
  <2> HIDE DEF w, n
  <2> QED BY <2>1, <2>2, Unchanged DEF w, n
<1>2. CASE Known(v, path) = NULL
  <2>1. w = insert_new_inode(v, path, inode) /\ n = Len(w.inodes) BY <1>2 DEF WithInode, InodeAt
  <2>2. /\ inode \in Inodes /\ inode.number_of_references = 0 /\ inode.refused = 0
        /\ inode.file_operations = "fs" /\ inode.path = mem[path]
    BY PhysicalIs
  <2>3. InsertFails(v, path) <=> Refuses(v, path) BY <1>2 DEF InsertFails
  <2> HIDE DEF inode, w, n
  <2>4. /\ OnlyInodes(v, w) /\ (w.inodes = v.inodes \/ w.inodes = Append(v.inodes, inode))
        /\ ~Refuses(v, path) => w.inodes = Append(v.inodes, inode)
        /\ Leads(v, mem) /\ New(v.map, mem, mem[path]) /\ ~Refuses(v, path) => Leads(w, mem)
    BY <2>1, <2>2, InsertKeeps
  <2>5. w.inodes \in Seq(Inodes) /\ v.inodes \in Seq(Inodes)
    BY <2>4 DEF OnlyInodes, Sound, IsVfs
  <2>6. DOMAIN w.inodes = 1..n /\ n \in Nat BY <2>1, <2>5, LenProperties
  <2>7. InodesOf(w) # {} => n \in InodesOf(w) BY <2>6 DEF InodesOf
  <2>8. ASSUME w.inodes = Append(v.inodes, inode) PROVE n \in InodesOf(w) /\ Ops(w, n) # "kdb"
    <3> DEFINE a == Append(v.inodes, inode)
    <3>1. Len(a) = Len(v.inodes) + 1 /\ a[Len(v.inodes) + 1] = inode BY <2>2, <2>5, AppendProperties
    <3>2. Len(v.inodes) \in Nat BY <2>5, LenProperties
    <3>3. w.inodes = a BY <2>8
    <3> HIDE DEF a
    <3>4. n = Len(v.inodes) + 1 /\ w.inodes[n] = inode BY <2>1, <3>1, <3>3
    <3>5. n \in DOMAIN w.inodes BY <2>6, <3>2, <3>4
    <3>6. Ops(w, n) = "fs" BY <2>2, <3>4 DEF Ops
    <3> QED BY <3>5, <3>6 DEF InodesOf
  <2>9. Leads(v, mem) => New(v.map, mem, mem[path]) BY <1>2, Sought DEF Leads, Sound
  <2> QED BY <2>3, <2>4, <2>7, <2>8, <2>9 DEF w, n
<1> QED BY <1>1, <1>2

-----------------------------------------------------------------------------
(* Files are opened and closed.                                            *)

\* One more file is open, the last of the registry if it is the keyboard's.
OneMore(v, u, h) ==
  Open(u) = Open(v) \cup {h} /\ (Is(u, h, "kdb") => Last(u.keyboard_file_data) = h)

LEMMA OpenFileKeeps ==
  ASSUME NEW v, Sound(v), IsMem(mem), IsDisk(disk), NEW path \in Keys,
         NEW h \in Handles \ Open(v), NEW outcome,
         InodesOf(v) # {} \/ ~InsertFails(v, path)
  PROVE  LET u == vfs_open_file(v, path, h, outcome)
         IN /\ Sound(u) /\ InodesOf(u) # {}
            /\ outcome = "opened" => OneMore(v, u, h)
            /\ Registered(v) /\ outcome # "registry full" => Registered(u)
            /\ ~InsertFails(v, path) /\ Leads(v, mem) => Leads(u, mem)
<1> DEFINE w == WithInode(v, path)
           n == InodeAt(v, w, path)
           u == vfs_open_file(v, path, h, outcome)
           s == v.keyboard_file_data
           registry == IF Ops(w, n) = "kdb" THEN Register(w, h, outcome) ELSE s
           K(x) == {g \in Handles : Is(x, g, "kdb")}
<1>1. /\ OnlyInodes(v, w) /\ n \in InodesOf(w)
      /\ ~InsertFails(v, path) /\ Leads(v, mem) => Leads(w, mem)
  <2>1. /\ OnlyInodes(v, w)
        /\ ~InsertFails(v, path) /\ Leads(v, mem) => Leads(w, mem)
        /\ InodesOf(w) # {} => n \in InodesOf(w)
        /\ ~InsertFails(v, path) => n \in InodesOf(w)
    BY WithInodeKeeps
  <2> HIDE DEF w, n
  <2>2. InodesOf(v) \subseteq InodesOf(w) BY <2>1 DEF OnlyInodes
  <2> QED BY <2>1, <2>2
<1>2. u = OpenInode(w, n, h, outcome) BY DEF vfs_open_file, AtPath
<1> HIDE DEF w, n, u
<1>3. /\ Sound(w) /\ IsVfs(w) /\ w.keyboard_file_data = s /\ s \in Seq(Int)
      /\ Open(w) = Open(v) /\ K(w) = K(v)
  BY <1>1 DEF OnlyInodes, Sound, IsVfs
<1>4. h \in Handles /\ h \in Int /\ -1 \in Int /\ h \notin Open(w) BY <1>3, ConstantsAre
<1> HIDE DEF s
<1>5. registry \in Seq(Int)
  <2>1. Append(s, h) \in Seq(Int) /\ Append(s, -1) \in Seq(Int) BY <1>3, <1>4, AppendProperties
  <2> QED BY <1>3, <2>1 DEF Register, Garbage
<1>6. u = IF outcome = "opened" THEN VfsOf(w.map, Bump(w.inodes, n, 1), registry, [w.files EXCEPT ![h] = File(n)])
          ELSE VfsOf(w.map, Refuse(Bump(w.inodes, n, 1), n), registry, w.files)
  BY <1>2, <1>3, OpenInodeIs
<1>7. u.keyboard_file_data = registry BY <1>6 DEF VfsOf
<1>p. SamePaths(w, u)
  <2> DEFINE bumped == Bump(w.inodes, n, 1)
  <2>1. w.inodes \in Seq(Inodes) /\ 1 \in Int BY <1>3 DEF IsVfs
  <2>2. bumped \in Seq(Inodes) /\ Alike(w.inodes, bumped) BY <2>1, CountsAreNoPaths
  <2> HIDE DEF bumped
  <2>3. Alike(bumped, Refuse(bumped, n)) BY <2>1, <2>2, CountsAreNoPaths
  <2>4. Alike(w.inodes, Refuse(bumped, n)) BY <2>2, <2>3, AlikeTwice
  <2>5. u.map = w.map /\ (u.inodes = bumped \/ u.inodes = Refuse(bumped, n)) BY <1>6 DEF VfsOf, bumped
  <2> QED BY <2>2, <2>4, <2>5 DEF SamePaths
<1>l. ~InsertFails(v, path) /\ Leads(v, mem) => Leads(u, mem) BY <1>1, <1>p, LeadsStays
<1>8. CASE outcome = "opened"
  <2> DEFINE f == File(n)
  <2>1. IsFile(f) /\ f.open /\ f.inode = n /\ "entries" \notin DOMAIN f
    <3>1. w.inodes \in Seq(Inodes) BY <1>3 DEF IsVfs
    <3>2. n \in Nat BY <1>1, <3>1, LenProperties DEF InodesOf
    <3> QED BY <3>2 DEF IsFile, File
  <2>2. u = VfsOf(w.map, Bump(w.inodes, n, 1), registry, [w.files EXCEPT ![h] = f]) BY <1>6, <1>8
  <2> HIDE DEF f, registry
  <2>3. /\ Sound(u) /\ SameInodes(w, u) /\ Open(u) = Open(w) \cup {h}
        /\ K(u) = K(w) \cup (IF Ops(w, n) = "kdb" THEN {h} ELSE {})
    <3>1. h \in Handles \ Open(w) /\ n \in InodesOf(w) BY <1>1, <1>4
    <3>2. "entries" \in DOMAIN f => Ops(w, n) # "kdb" BY <2>1
    <3> DEFINE t == VfsOf(w.map, Bump(w.inodes, n, 1), registry, [w.files EXCEPT ![h] = f])
    <3>3. /\ Sound(t) /\ SameInodes(w, t) /\ Open(t) = Open(w) \cup {h}
          /\ {g \in Handles : Is(t, g, "kdb")} =
               {g \in Handles : Is(w, g, "kdb")} \cup (IF Ops(w, n) = "kdb" THEN {h} ELSE {})
      BY <1>3, <1>5, <2>1, <3>1, <3>2, OpenKeeps
    <3>4. u = t BY <2>2
    <3> HIDE DEF t
    <3> QED BY <3>3, <3>4
  <2>4. ASSUME Registered(v) PROVE Registered(u)
    <3>1. Range(s) = K(v) /\ IsInjective(s) BY <2>4 DEF Registered, s
    <3>2. h \notin Range(s) BY <1>3, <1>4, <3>1 DEF Is
    <3>3. CASE Ops(w, n) = "kdb"
      <4>1. registry = Append(s, h) BY <1>3, <1>8, <3>3 DEF registry, Register
      <4>2. Range(registry) = Range(s) \cup {h} /\ IsInjective(registry)
        BY <1>3, <1>4, <3>1, <3>2, <4>1, AppendRange
      <4>3. Range(registry) = K(u) BY <1>3, <2>3, <3>1, <3>3, <4>2
      <4> QED BY <1>7, <4>2, <4>3 DEF Registered
    <3>4. CASE Ops(w, n) # "kdb"
      <4>1. registry = s BY <3>4 DEF registry
      <4>2. K(u) = K(v) BY <1>3, <2>3, <3>4
      <4> QED BY <1>7, <3>1, <4>1, <4>2 DEF Registered
    <3> QED BY <3>3, <3>4
  <2>5. InodesOf(u) # {} BY <1>1, <2>3 DEF SameInodes
  <2>6. ASSUME Is(u, h, "kdb") PROVE Last(u.keyboard_file_data) = h
    <3>1. h \in K(u) /\ h \notin K(w) BY <1>4, <2>6 DEF Is
    <3>2. Ops(w, n) = "kdb" BY <2>3, <3>1
    <3>3. registry = Append(s, h) BY <1>3, <1>8, <3>2 DEF registry, Register
    <3>4. Last(registry) = h BY <1>3, <1>4, <3>3, AppendProperties DEF Last
    <3> QED BY <1>7, <3>4
  <2> QED BY <1>3, <1>8, <1>l, <2>3, <2>4, <2>5, <2>6 DEF u, OneMore
<1>9. CASE outcome # "opened"
  <2>1. u = VfsOf(w.map, Refuse(Bump(w.inodes, n, 1), n), registry, w.files) BY <1>6, <1>9
  <2> HIDE DEF registry
  <2>2. Sound(u) /\ SameInodes(w, u) /\ Open(u) = Open(w) /\ K(u) = K(w)
    BY <1>1, <1>3, <1>5, <2>1, RefusalKeeps
  <2>3. ASSUME Registered(v), outcome # "registry full" PROVE Registered(u)
    <3>1. Range(s) = K(v) /\ IsInjective(s) BY <2>3 DEF Registered, s
    <3>2. registry = s BY <1>3, <1>9, <2>3 DEF registry, Register
    <3>3. K(u) = K(v) BY <1>3, <2>2
    <3> QED BY <1>7, <3>1, <3>2, <3>3 DEF Registered
  <2>4. InodesOf(u) # {} BY <1>1, <2>2 DEF SameInodes
  <2> QED BY <1>3, <1>9, <1>l, <2>2, <2>3, <2>4 DEF u
<1> QED BY <1>8, <1>9

\* Closing a file, even one that is closed, keeps the VFS in its type and every
\* path.
LEMMA AnyCloseKeeps ==
  ASSUME NEW v, IsVfs(v), NEW h \in Handles, NEW n
  PROVE  LET u == vfs_close_file(v, h, n)
         IN IsVfs(u) /\ SamePaths(v, u)
<1> DEFINE s == v.keyboard_file_data
           y == [v.inodes EXCEPT ![n].number_of_references = @ - 1]
           z == IF Ops(v, n) = "kdb" THEN keyboard_close(v, h) ELSE s
           x == [v.files EXCEPT ![h].open = FALSE]
           u == vfs_close_file(v, h, n)
<1>1. /\ v.map \in Tables(Keys) /\ v.inodes \in Seq(Inodes) /\ s \in Seq(Int) /\ IsFiles(v.files)
  BY DEF IsVfs
<1>2. u = VfsOf(v.map, y, z, x) BY AnyCloseIs
<1>3. y \in Seq(Inodes) /\ Alike(v.inodes, y)
  <2>1. CASE n \in DOMAIN v.inodes
    <3>1. y = Bump(v.inodes, n, -1) BY <1>1, <2>1, MinusOne
    <3>2. -1 \in Int OBVIOUS
    <3> HIDE DEF y
    <3> QED BY <1>1, <3>1, <3>2, CountsAreNoPaths
  <2>2. CASE n \notin DOMAIN v.inodes
    <3>1. y = v.inodes BY <1>1, <2>2
    <3> HIDE DEF y
    <3> QED BY <1>1, <3>1 DEF Alike
  <2> QED BY <2>1, <2>2
<1>4. z \in Seq(Int)
  <2>1. keyboard_close(v, h) = IF s = <<>> THEN <<>> ELSE Front(s) BY DEF keyboard_close
  <2> HIDE DEF s
  <2> QED BY <1>1, <2>1, EmptySeq, FrontRange
<1>5. IsFiles(x) BY <1>1, FileClosed
<1> HIDE DEF x, y, z, u
<1>6. u.map = v.map /\ u.inodes = y /\ u.keyboard_file_data = z /\ u.files = x BY <1>2 DEF VfsOf
<1>7. IsVfs(u) BY <1>1, <1>2, <1>3, <1>4, <1>5, <1>6 DEF IsVfs
<1>8. SamePaths(v, u) BY <1>3, <1>6 DEF SamePaths
<1> QED BY <1>7, <1>8 DEF u

\* A keyboard file may go when it is the last of the registry.
LEMMA CloseFileKeeps ==
  ASSUME NEW v, Sound(v), NEW h \in Open(v), NEW n, n = v.files[h].inode
  PROVE  LET u == vfs_close_file(v, h, n)
         IN /\ Sound(u) /\ SameInodes(v, u) /\ InodesOf(u) # {} /\ Open(u) = Open(v) \ {h}
            /\ \A g \in Handles \ {h} : u.files[g] = v.files[g]
            /\ Ops(v, n) # "kdb" => u.keyboard_file_data = v.keyboard_file_data
            /\ Registered(v) /\ (Ops(v, n) = "kdb" => Last(v.keyboard_file_data) = h) => Registered(u)
<1> DEFINE u == vfs_close_file(v, h, n)
           s == v.keyboard_file_data
           registry == IF Ops(v, n) = "kdb" THEN keyboard_close(v, h) ELSE s
           K(x) == {g \in Handles : Is(x, g, "kdb")}
<1>1. IsVfs(v) /\ s \in Seq(Int) /\ n \in InodesOf(v) /\ h \in Handles
  BY DEF Sound, IsVfs, FilesAreOfInodes, Open
<1>2. u = VfsOf(v.map, Bump(v.inodes, n, -1), registry, [v.files EXCEPT ![h].open = FALSE])
  BY <1>1, CloseFileIs
<1>3. keyboard_close(v, h) = IF s = <<>> THEN <<>> ELSE Front(s) BY DEF keyboard_close
<1> HIDE DEF u, s
<1>4. registry \in Seq(Int) BY <1>1, <1>3, EmptySeq, FrontRange
<1>5. u.keyboard_file_data = registry BY <1>2 DEF VfsOf
<1>6. Ops(v, n) # "kdb" => registry = s OBVIOUS
<1>7. Ops(v, n) = "kdb" /\ s # <<>> => registry = Front(s) BY <1>3
<1> HIDE DEF registry
<1>8. /\ Sound(u) /\ SameInodes(v, u) /\ Open(u) = Open(v) \ {h}
      /\ \A g \in Handles \ {h} : u.files[g] = v.files[g]
      /\ K(u) = K(v) \ {h}
  BY <1>2, <1>4, CloseKeeps
<1>9. ASSUME Registered(v), Ops(v, n) = "kdb" => Last(s) = h PROVE Registered(u)
  <2>1. Range(s) = K(v) /\ IsInjective(s) BY <1>9 DEF Registered, s
  <2>2. CASE Ops(v, n) = "kdb"
    <3>1. h \in K(v) BY <1>1, <2>2 DEF Is
    <3>2. s # <<>>
      <4>1. s = <<>> => Range(s) = {} BY EmptySeq DEF Range
      <4> QED BY <2>1, <3>1, <4>1
    <3>3. Range(registry) = Range(s) \ {h} /\ IsInjective(registry)
      BY <1>1, <1>7, <1>9, <2>1, <2>2, <3>2, FrontRange
    <3> QED BY <1>5, <1>8, <2>1, <3>3 DEF Registered
  <2>3. CASE Ops(v, n) # "kdb"
    <3>1. h \notin K(v) BY <1>1, <2>3 DEF Is
    <3> QED BY <1>5, <1>6, <1>8, <2>1, <2>3, <3>1 DEF Registered
  <2> QED BY <2>2, <2>3
<1>10. InodesOf(u) # {} BY <1>1, <1>8 DEF SameInodes
<1> QED BY <1>5, <1>6, <1>8, <1>9, <1>10 DEF u, s

\* Directories are opened, the root's and the devices', and closed.
LEMMA OpenDirectoryKeeps ==
  ASSUME NEW v, Sound(v), IsMem(mem), IsDisk(disk), NEW path \in {"root", "dev"},
         NEW h \in Handles \ Open(v), ~InsertFails(v, path)
  PROVE  LET u == vfs_open_directory(v, path, h)
         IN /\ Sound(u) /\ InodesOf(u) # {} /\ (Registered(v) => Registered(u))
            /\ Leads(v, mem) => Leads(u, mem)
<1> DEFINE w == WithInode(v, path)
           n == InodeAt(v, w, path)
           entries == (IF Ops(w, n) = "fs" THEN Children(mem[path]) ELSE {}) \cup Listed(w, mem[path])
           f == [open |-> TRUE, inode |-> n, entries |-> entries]
           u == vfs_open_directory(v, path, h)
           s == v.keyboard_file_data
           K(x) == {g \in Handles : Is(x, g, "kdb")}
<1>1. path \in Keys /\ path \in DOMAIN Literals \ {"kdb"} BY ConstantsAre
<1>2. /\ OnlyInodes(v, w) /\ n \in InodesOf(w) /\ Ops(w, n) # "kdb"
      /\ Leads(v, mem) => Leads(w, mem)
  BY <1>1, WithInodeKeeps
<1>3. u = IF w.inodes[n].type # VFS_DIRECTORY THEN w
          ELSE DirectoryOpened(w, n, h, f)
  BY DEF vfs_open_directory, DirectoryOpened
<1> HIDE DEF entries
<1>4. f.open /\ f.inode = n /\ f.entries = entries /\ f.open \in BOOLEAN OBVIOUS
<1>5. f = [open |-> f.open, inode |-> f.inode, entries |-> f.entries] OBVIOUS
<1> HIDE DEF f, w, n, u, s
<1>6. /\ Sound(w) /\ IsVfs(w) /\ w.keyboard_file_data = s /\ s \in Seq(Int)
      /\ Open(w) = Open(v) /\ K(w) = K(v)
  BY <1>2 DEF OnlyInodes, Sound, IsVfs, s
<1>7. IsFile(f)
  <2>1. w.inodes \in Seq(Inodes) BY <1>6 DEF IsVfs
  <2>2. n \in Nat BY <1>2, <2>1, LenProperties DEF InodesOf
  <2> QED BY <1>4, <1>5, <2>2 DEF IsFile
<1>8. CASE w.inodes[n].type # VFS_DIRECTORY
  <2>1. u = w BY <1>3, <1>8
  <2>2. Registered(v) => Registered(w) BY <1>6 DEF Registered, s
  <2> QED BY <1>2, <1>6, <2>1, <2>2 DEF u
<1>9. CASE w.inodes[n].type = VFS_DIRECTORY
  <2> DEFINE t == VfsOf(w.map, Bump(w.inodes, n, 1), s, [w.files EXCEPT ![h] = f])
  <2>1. u = t
    <3>1. u = DirectoryOpened(w, n, h, f) BY <1>3, <1>9
    <3> QED BY <1>6, <3>1, OpenDirectoryIs
  <2>2. h \in Handles \ Open(w) BY <1>6
  <2>3. /\ Sound(t) /\ SameInodes(w, t)
        /\ {g \in Handles : Is(t, g, "kdb")} =
             {g \in Handles : Is(w, g, "kdb")} \cup (IF Ops(w, n) = "kdb" THEN {h} ELSE {})
    BY <1>2, <1>4, <1>6, <1>7, <2>2, OpenKeeps
  <2>4. t.keyboard_file_data = s BY DEF VfsOf
  <2> HIDE DEF t
  <2>5. K(t) = K(v) BY <1>2, <1>6, <2>3
  <2>6. Registered(v) => Registered(t) BY <2>4, <2>5 DEF Registered, s
  <2>7. InodesOf(t) # {} BY <1>2, <2>3 DEF SameInodes
  <2>8. SamePaths(w, t)
    <3>1. w.inodes \in Seq(Inodes) /\ 1 \in Int BY <1>6 DEF IsVfs
    <3>2. Alike(w.inodes, Bump(w.inodes, n, 1)) BY <3>1, CountsAreNoPaths
    <3> QED BY <3>2 DEF SamePaths, t, VfsOf
  <2>9. Leads(v, mem) => Leads(t, mem) BY <1>2, <2>8, LeadsStays
  <2> QED BY <2>1, <2>3, <2>6, <2>7, <2>9 DEF u
<1> QED BY <1>8, <1>9

LEMMA CloseDirectoryKeeps ==
  ASSUME NEW v, Sound(v), NEW h \in Open(v), NEW n, n = v.files[h].inode
  PROVE  LET u == DirectoryClosed(v, n, h)
         IN /\ Sound(u) /\ InodesOf(u) # {} /\ SamePaths(v, u)
            /\ Registered(v) /\ Ops(v, n) # "kdb" => Registered(u)
<1> DEFINE u == DirectoryClosed(v, n, h)
           registry == v.keyboard_file_data
           K(x) == {g \in Handles : Is(x, g, "kdb")}
<1>1. IsVfs(v) /\ n \in InodesOf(v) BY DEF Sound, FilesAreOfInodes
<1>2. u = VfsOf(v.map, Bump(v.inodes, n, -1), registry, [v.files EXCEPT ![h].open = FALSE])
  BY <1>1, CloseDirectoryIs
<1>3. registry \in Seq(Int) BY <1>1 DEF IsVfs
<1> HIDE DEF u, registry
<1>4. /\ Sound(u) /\ SameInodes(v, u) /\ Open(u) = Open(v) \ {h}
      /\ \A g \in Handles \ {h} : u.files[g] = v.files[g]
      /\ K(u) = K(v) \ {h}
  BY <1>2, <1>3, CloseKeeps
<1>5. ASSUME Registered(v), Ops(v, n) # "kdb" PROVE Registered(u)
  <2>1. h \notin K(v) BY <1>5 DEF Is
  <2>2. K(u) = K(v) BY <1>4, <2>1
  <2>3. u.keyboard_file_data = registry BY <1>2 DEF VfsOf
  <2> QED BY <1>5, <2>2, <2>3 DEF Registered, registry
<1>6. InodesOf(u) # {} BY <1>1, <1>4 DEF SameInodes
<1>7. SamePaths(v, u)
  <2>1. v.inodes \in Seq(Inodes) /\ -1 \in Int BY <1>1 DEF IsVfs
  <2>2. Alike(v.inodes, Bump(v.inodes, n, -1)) BY <2>1, CountsAreNoPaths
  <2> QED BY <1>2, <2>2 DEF SamePaths, VfsOf
<1> QED BY <1>4, <1>5, <1>6, <1>7 DEF u

\* A process ends: its streams are closed, each as it was when the first went.
CloseStream(v, w, h) == IF h = NoStream THEN w ELSE vfs_close_file(w, h, v.files[h].inode)
LastIfKeyboard(v, C) == \A h \in C : Is(v, h, "kdb") => Last(v.keyboard_file_data) = h
\* With the files of C closed, none or the one of the keyboard among them.
Closing(v, w, C) ==
  /\ Sound(w) /\ SameInodes(v, w) /\ Open(w) = Open(v) \ C
  /\ \A g \in Handles \ C : w.files[g] = v.files[g]
  /\ Registered(v) /\ LastIfKeyboard(v, C) =>
       /\ Registered(w)
       /\ w.keyboard_file_data = v.keyboard_file_data \/ \E c \in C : Is(v, c, "kdb")

LEMMA CloseStreamKeeps ==
  ASSUME NEW v, Sound(v), NEW w, NEW C, Closing(v, w, C), NEW h \in Open(v) \ C
  PROVE  Closing(v, CloseStream(v, w, h), C \cup {h})
<1> DEFINE n == v.files[h].inode
           u == vfs_close_file(w, h, n)
<1>1. h \in Handles /\ h # 0 /\ h \in Open(w) /\ n \in InodesOf(v)
  BY ConstantsAre DEF Closing, Open, Sound, FilesAreOfInodes
<1>2. CloseStream(v, w, h) = u BY <1>1 DEF CloseStream, NoStream
<1>3. n = w.files[h].inode /\ Ops(w, n) = Ops(v, n) /\ Sound(w)
  BY <1>1 DEF Closing, SameInodes
<1>4. Is(v, h, "kdb") <=> Ops(v, n) = "kdb" BY DEF Is
<1> HIDE DEF n, u
<1>5. /\ Sound(u) /\ SameInodes(w, u) /\ Open(u) = Open(w) \ {h}
      /\ \A g \in Handles \ {h} : u.files[g] = w.files[g]
      /\ Ops(w, n) # "kdb" => u.keyboard_file_data = w.keyboard_file_data
      /\ Registered(w) /\ (Ops(w, n) = "kdb" => Last(w.keyboard_file_data) = h) => Registered(u)
  BY <1>1, <1>3, CloseFileKeeps DEF u
<1>6. SameInodes(v, u) BY <1>5 DEF Closing, SameInodes
<1>7. Open(u) = Open(v) \ (C \cup {h}) BY <1>5 DEF Closing
<1>8. \A g \in Handles \ (C \cup {h}) : u.files[g] = v.files[g] BY <1>5 DEF Closing
<1>9. ASSUME Registered(v), LastIfKeyboard(v, C \cup {h})
      PROVE  /\ Registered(u)
             /\ u.keyboard_file_data = v.keyboard_file_data \/ \E c \in C \cup {h} : Is(v, c, "kdb")
  <2>1. /\ Registered(w)
        /\ w.keyboard_file_data = v.keyboard_file_data \/ \E c \in C : Is(v, c, "kdb")
    BY <1>9 DEF Closing, LastIfKeyboard
  <2>2. CASE Ops(v, n) = "kdb"
    <3>1. Is(v, h, "kdb") /\ Last(v.keyboard_file_data) = h BY <1>4, <1>9, <2>2 DEF LastIfKeyboard
    <3>2. \A c \in C : ~Is(v, c, "kdb") BY <1>9, <3>1 DEF LastIfKeyboard
    <3>3. w.keyboard_file_data = v.keyboard_file_data BY <2>1, <3>2
    <3> QED BY <1>5, <2>1, <3>1, <3>3
  <2>3. CASE Ops(v, n) # "kdb"
    <3>1. u.keyboard_file_data = w.keyboard_file_data /\ Registered(u) BY <1>3, <1>5, <2>1, <2>3
    <3> QED BY <2>1, <3>1
  <2> QED BY <2>2, <2>3
<1>10. Closing(v, u, C \cup {h}) BY <1>5, <1>6, <1>7, <1>8, <1>9 DEF Closing
<1> QED BY <1>2, <1>10

LEMMA AnyStreamKeeps ==
  ASSUME NEW v, Sound(v), NEW w, NEW C, Closing(v, w, C), NEW h \in (Open(v) \ C) \cup {NoStream}
  PROVE  Closing(v, CloseStream(v, w, h), C \cup ({h} \ {NoStream}))
<1>1. CASE h = NoStream
  <2>1. CloseStream(v, w, h) = w /\ C \cup ({h} \ {NoStream}) = C BY <1>1 DEF CloseStream
  <2> QED BY <2>1
<1>2. CASE h # NoStream
  <2>1. h \in Open(v) \ C /\ C \cup ({h} \ {NoStream}) = C \cup {h} BY <1>2
  <2> QED BY <2>1, CloseStreamKeeps
<1> QED BY <1>1, <1>2

LEMMA RemoveKeeps ==
  ASSUME NEW v, Sound(v), NEW a, NEW b, NEW c, NEW s, s = <<a, b, c>>,
         {a, b, c} \subseteq Open(v) \cup {NoStream},
         \A i, j \in 1..3 : i # j /\ s[i] # NoStream => s[i] # s[j]
  PROVE  LET u == remove_process(v, s)
         IN /\ Sound(u)
            /\ Registered(v) /\ LastIfKeyboard(v, {a, b, c} \ {NoStream}) => Registered(u)
<1> DEFINE x == CloseStream(v, v, a)
           y == CloseStream(v, x, b)
           u == CloseStream(v, y, c)
           A == {} \cup ({a} \ {NoStream})
           B == A \cup ({b} \ {NoStream})
           D == B \cup ({c} \ {NoStream})
<1>1. s[1] = a /\ s[2] = b /\ s[3] = c BY DEF NoStream
<1>2. remove_process(v, s) = u BY <1>1 DEF remove_process, CloseStream
<1>3. /\ a # NoStream => a # b /\ a # c
      /\ b # NoStream => b # c
  <2>1. 1 \in 1..3 /\ 2 \in 1..3 /\ 3 \in 1..3 /\ 1 # 2 /\ 1 # 3 /\ 2 # 3 OBVIOUS
  <2> QED BY <1>1, <2>1
<1>4. Closing(v, v, {}) BY DEF Closing, SameInodes
<1> HIDE DEF x, y, u
<1>5. Closing(v, x, A)
  <2>1. a \in (Open(v) \ {}) \cup {NoStream} OBVIOUS
  <2> QED BY <1>4, <2>1, AnyStreamKeeps DEF x
<1>6. Closing(v, y, B)
  <2>1. b \in (Open(v) \ A) \cup {NoStream} BY <1>3
  <2> HIDE DEF A
  <2> QED BY <1>5, <2>1, AnyStreamKeeps DEF y
<1>7. Closing(v, u, D)
  <2>1. c \in (Open(v) \ B) \cup {NoStream} BY <1>3
  <2> HIDE DEF B
  <2> QED BY <1>6, <2>1, AnyStreamKeeps DEF u
<1>8. D = {a, b, c} \ {NoStream} OBVIOUS
<1> HIDE DEF D
<1> QED BY <1>2, <1>7, <1>8 DEF Closing

\* The end of a process moves no path, whatever it closes twice.
LEMMA AnyStreamMovesNothing ==
  ASSUME NEW v, NEW w, IsVfs(w), NEW h \in Handles \cup {NoStream}
  PROVE  LET u == CloseStream(v, w, h)
         IN IsVfs(u) /\ SamePaths(w, u)
<1>1. CASE h = NoStream
  <2>1. CloseStream(v, w, h) = w BY <1>1 DEF CloseStream
  <2> QED BY <2>1 DEF SamePaths, Alike
<1>2. CASE h # NoStream
  <2> DEFINE n == v.files[h].inode
  <2>1. CloseStream(v, w, h) = vfs_close_file(w, h, n) /\ h \in Handles BY <1>2 DEF CloseStream
  <2> HIDE DEF n
  <2> QED BY <2>1, AnyCloseKeeps
<1> QED BY <1>1, <1>2

LEMMA RemoveMovesNothing ==
  ASSUME NEW v, IsVfs(v), NEW a \in Handles \cup {NoStream}, NEW b \in Handles \cup {NoStream},
         NEW c \in Handles \cup {NoStream}, NEW s, s = <<a, b, c>>
  PROVE  LET u == remove_process(v, s)
         IN IsVfs(u) /\ SamePaths(v, u)
<1> DEFINE x == CloseStream(v, v, a)
           y == CloseStream(v, x, b)
           u == CloseStream(v, y, c)
<1>1. s[1] = a /\ s[2] = b /\ s[3] = c OBVIOUS
<1>2. remove_process(v, s) = u BY <1>1 DEF remove_process, CloseStream
<1> HIDE DEF x, y, u
<1>3. IsVfs(x) /\ SamePaths(v, x) BY AnyStreamMovesNothing DEF x
<1>4. IsVfs(y) /\ SamePaths(x, y) BY <1>3, AnyStreamMovesNothing DEF y
<1>5. IsVfs(u) /\ SamePaths(y, u) BY <1>4, AnyStreamMovesNothing DEF u
<1>6. SamePaths(v, u) BY <1>3, <1>4, <1>5 DEF SamePaths, Alike
<1> QED BY <1>2, <1>5, <1>6

-----------------------------------------------------------------------------
(* The inductive invariant.                                                *)

Histories == [kept : BOOLEAN, inOrder : BOOLEAN, short : BOOLEAN, twice : BOOLEAN]
Handle == Handles \cup {NoStream}
InvType ==
  /\ IsMem(mem) /\ IsDisk(disk) /\ boot \in 0..5 /\ history \in Histories
  /\ streams \in [Processes -> {<<>>} \cup (Handle \X Handle \X Handle)]

\* The kernel opens the disk and the console before there is a process.
InvBoot ==
  /\ history.twice => boot = 5
  /\ boot = 0 => vfs.map.size = 0 /\ Used(vfs.map) = {} /\ Open(vfs) = {}
  /\ boot = 1 => Open(vfs) \subseteq {1}
  /\ boot \in 2..4 => Open(vfs) \subseteq {1, 2}
  /\ boot \in 1..4 => InodesOf(vfs) # {}

InvVfs == ~history.twice => Sound(vfs) /\ (history.inOrder /\ ~history.short => Registered(vfs))

\* The paths, also after a file was closed twice.
InvPaths == IsVfs(vfs) /\ (history.kept => Leads(vfs, mem))

Inv == InvType /\ InvBoot /\ InvVfs /\ InvPaths

LEMMA MallocIs ==
  ASSUME Free # {}
  PROVE  malloc \in Handles \ Open(vfs) /\ \A x \in Free : malloc <= x
BY MinIs, ConstantsAre DEF malloc, Free

LEMMA InodesDoNotRegister ==
  ASSUME NEW v, NEW w, OnlyInodes(v, w), Registered(v)
  PROVE  Registered(w)
BY DEF OnlyInodes, Registered

\* The fields of a history that an action does not write.
LEMMA HistoryIs ==
  ASSUME history \in Histories
  PROVE  history = [kept |-> history.kept, inOrder |-> history.inOrder,
                    short |-> history.short, twice |-> history.twice]
BY DEF Histories

LEMMA InvInit == Init => Inv
<1> SUFFICES ASSUME Init PROVE Inv OBVIOUS
<1>1. IsMem(mem)
  <2>2. mem = [p \in Keys |-> IF p \in DOMAIN Literals THEN Literals[p] ELSE Literals["log"]]
    BY DEF Init, Keys
  <2>3. Literals["log"] \in Paths /\ \A p \in DOMAIN Literals : Literals[p] \in Paths
    BY ConstantsAre, WrittenIs DEF Written, Range
  <2> QED BY <2>2, <2>3 DEF IsMem, Keys
<1>2. IsDisk(disk) BY ConstantsAre DEF Init, IsDisk
<1>3. vfs = VfsOf(hashmap_create_ex(2), <<>>, <<>>, [h \in Handles |-> Fresh]) BY DEF Init, VfsOf
<1>4. LET m == hashmap_create_ex(2) IN m \in Tables(Keys) /\ Used(m) = {} /\ m.size = 0
  <2>1. 1 \in 1..(HASH_BITS - 1) /\ Bit[1] = 2
    <3>1. 1 \in 0..HASH_BITS /\ 0 \in 0..HASH_BITS /\ 1 \in 1..(HASH_BITS - 1) BY HashIs
    <3>2. Bit[0] = 1 /\ Bit[1] = 2 * Bit[1 - 1] BY <3>1, HashIs, BitIs
    <3> QED BY <3>1, <3>2
  <2> QED BY <2>1, CreateIs
<1>5. \A h \in Handles : vfs.files[h] = Fresh /\ ~vfs.files[h].open BY <1>3 DEF VfsOf, Fresh
<1>6. Open(vfs) = {} BY <1>5 DEF Open
<1>7. /\ vfs.map = hashmap_create_ex(2) /\ vfs.inodes = <<>> /\ vfs.keyboard_file_data = <<>>
      /\ vfs.files = [h \in Handles |-> vfs.files[h]]
  BY <1>3 DEF VfsOf
<1>8. IsFile(Fresh) BY DEF IsFile, Fresh
<1>9. IsFiles(vfs.files) BY <1>5, <1>7, <1>8 DEF IsFiles
<1>10. IsVfs(vfs)
  <2>1. <<>> \in Seq(Inodes) /\ <<>> \in Seq(Int) BY EmptySeq
  <2>2. vfs = VfsOf(vfs.map, vfs.inodes, vfs.keyboard_file_data, vfs.files) BY <1>3 DEF VfsOf
  <2> QED BY <1>4, <1>7, <1>9, <2>1, <2>2 DEF IsVfs
<1>11. InodesOf(vfs) = {} BY <1>7 DEF InodesOf
<1>12. Sound(vfs)
  BY <1>4, <1>6, <1>7, <1>10, <1>11 DEF Sound, FilesAreOfInodes, DirectoriesAreOther, TableLeadsToInodes, Counted
<1>13. Registered(vfs)
  <2>1. Range(<<>>) = {} /\ IsInjective(<<>>) BY DEF Range, IsInjective
  <2> QED BY <1>6, <1>7, <2>1 DEF Registered, Is
<1>14. history \in Histories /\ ~history.twice /\ boot = 0 BY DEF Init, Histories
<1>15. streams \in [Processes -> {<<>>} \cup (Handle \X Handle \X Handle)] BY DEF Init
<1>16. InvType BY <1>1, <1>2, <1>14, <1>15 DEF InvType
<1>17. InvBoot BY <1>4, <1>6, <1>7, <1>14 DEF InvBoot
<1>18. Leads(vfs, mem)
  <2>1. Found(vfs.map, mem) BY <1>4, <1>7, EmptyFinds
  <2>2. Len(vfs.inodes) = 0 BY <1>7
  <2> QED BY <1>4, <1>7, <1>11, <2>1, <2>2 DEF Leads
<1> QED BY <1>10, <1>12, <1>13, <1>16, <1>17, <1>18 DEF Inv, InvVfs, InvPaths

LEMMA InvBootDevices == ASSUME Inv, BootDevices PROVE Inv'
<1> DEFINE hdd == vfs_create_device_file_no_checks(vfs, "hdd", "hdd", VFS_BLOCK_DEVICE)
           drive == vfs_open_file(hdd, "hdd", malloc, "opened")
           u == vfs_create_device_file(drive, "tty", "tty", VFS_CHARACTER_DEVICE)
<1>1. /\ boot = 0 /\ ~history.twice /\ Sound(vfs) /\ IsMem(mem) /\ IsDisk(disk)
      /\ vfs.map.size = 0 /\ Used(vfs.map) = {} /\ Open(vfs) = {}
      /\ history.inOrder /\ ~history.short => Registered(vfs)
      /\ history.kept => Leads(vfs, mem)
      /\ ~Refuses(vfs, "hdd") /\ ~InsertFails(hdd, "hdd") /\ ~Refuses(drive, "tty")
  BY DEF Inv, InvType, InvBoot, InvVfs, InvPaths, BootDevices
<1>2. vfs' = u /\ boot' = 1 /\ UNCHANGED <<mem, disk, streams, history>> BY DEF BootDevices
<1>3. malloc \in Handles /\ malloc <= 1 /\ malloc = 1
  <2>1. Free = Handles /\ 1 \in Handles BY <1>1, ConstantsAre DEF Free
  <2>2. malloc \in Handles /\ malloc <= 1 BY <2>1, MallocIs
  <2> QED BY <2>2, ConstantsAre
<1>4. "hdd" \in Keys /\ "tty" \in Keys /\ "hdd" \in Drivers /\ "tty" \in Drivers
      /\ VFS_BLOCK_DEVICE \in Nat /\ VFS_CHARACTER_DEVICE \in Nat
  BY ConstantsAre DEF Drivers, VFS_BLOCK_DEVICE, VFS_CHARACTER_DEVICE
<1>5. /\ OnlyInodes(vfs, hdd) /\ InodesOf(hdd) # {}
      /\ Leads(vfs, mem) => Leads(hdd, mem)
  BY <1>1, <1>4, CreateKeeps
<1> HIDE DEF hdd
<1>6. Sound(hdd) /\ Open(hdd) = {} BY <1>1, <1>5 DEF OnlyInodes
<1>7. /\ Sound(drive) /\ InodesOf(drive) # {} /\ Open(drive) = {malloc}
      /\ Registered(hdd) => Registered(drive)
      /\ Leads(hdd, mem) => Leads(drive, mem)
  <2>1. malloc \in Handles \ Open(hdd) BY <1>3, <1>6
  <2> DEFINE h == malloc
  <2>2. h \in Handles \ Open(hdd) BY <2>1
  <2> HIDE DEF h
  <2>3. LET d == vfs_open_file(hdd, "hdd", h, "opened")
        IN /\ Sound(d) /\ InodesOf(d) # {} /\ OneMore(hdd, d, h)
           /\ Registered(hdd) => Registered(d)
           /\ Leads(hdd, mem) => Leads(d, mem)
    BY <1>1, <1>4, <1>5, <1>6, <2>2, OpenFileKeeps
  <2> QED BY <1>6, <2>3 DEF h, OneMore
<1> HIDE DEF drive
<1>8. OnlyInodes(drive, u) /\ (Leads(drive, mem) => Leads(u, mem)) BY <1>1, <1>4, <1>7, CreateKeeps
<1> HIDE DEF u
<1>9. Sound(u) /\ InodesOf(u) # {} /\ Open(u) = {1} BY <1>3, <1>7, <1>8 DEF OnlyInodes
<1>10. Registered(vfs) => Registered(u) BY <1>5, <1>7, <1>8, InodesDoNotRegister
<1>11. InvType' BY <1>2 DEF Inv, InvType
<1>12. InvBoot' BY <1>1, <1>2, <1>9 DEF InvBoot
<1>13. InvVfs' BY <1>1, <1>2, <1>9, <1>10 DEF InvVfs
<1>14. InvPaths' BY <1>1, <1>2, <1>5, <1>7, <1>8, <1>9 DEF InvPaths, Sound
<1> QED BY <1>11, <1>12, <1>13, <1>14 DEF Inv

LEMMA InvBootPrint == ASSUME Inv, BootPrint PROVE Inv'
<1> DEFINE h == malloc
           u == vfs_open_file(vfs, "tty", h, "opened")
<1>1. /\ boot = 1 /\ ~history.twice /\ Sound(vfs) /\ IsMem(mem) /\ IsDisk(disk)
      /\ Open(vfs) \subseteq {1} /\ InodesOf(vfs) # {}
      /\ history.inOrder /\ ~history.short => Registered(vfs)
      /\ ~InsertFails(vfs, "tty") /\ (history.kept => Leads(vfs, mem))
  BY DEF Inv, InvType, InvBoot, InvVfs, InvPaths, BootPrint
<1>2. vfs' = u /\ boot' = 2 /\ UNCHANGED <<mem, disk, streams, history>> BY DEF BootPrint
<1>3. h \in Handles \ Open(vfs) /\ h \in {1, 2}
  <2>1. 2 \in Free BY <1>1, ConstantsAre DEF Free
  <2>2. h \in Handles \ Open(vfs) /\ h <= 2 BY <2>1, MallocIs
  <2>3. h \in Nat /\ h # 0 BY <2>2, ConstantsAre
  <2> QED BY <2>2, <2>3
<1>a. h \in Handles \ Open(vfs) BY <1>3
<1> HIDE DEF h
<1>4. /\ Sound(u) /\ InodesOf(u) # {} /\ OneMore(vfs, u, h)
      /\ Registered(vfs) => Registered(u)
      /\ Leads(vfs, mem) => Leads(u, mem)
  <2>1. "tty" \in Keys BY ConstantsAre
  <2>2. /\ Sound(vfs) /\ IsMem(mem) /\ IsDisk(disk) /\ InodesOf(vfs) # {}
        /\ ~InsertFails(vfs, "tty")
    BY <1>1
  <2> QED BY <1>a, <2>1, <2>2, OpenFileKeeps
<1> HIDE DEF u
<1>5. Open(u) \subseteq {1, 2} BY <1>1, <1>3, <1>4 DEF OneMore
<1>6. InvType' BY <1>2 DEF Inv, InvType
<1>7. InvBoot' BY <1>1, <1>2, <1>4, <1>5 DEF InvBoot
<1>8. InvVfs' BY <1>1, <1>2, <1>4 DEF InvVfs
<1>9. InvPaths' BY <1>1, <1>2, <1>4 DEF InvPaths, Sound
<1> QED BY <1>6, <1>7, <1>8, <1>9 DEF Inv

\* The log of a disk that has none.
LEMMA CreateRegularKeeps ==
  ASSUME IsDisk(disk), NEW v, NEW path
  PROVE  IsDisk(vfs_create_regular_file(v, path))
<1>1. VFS_REGULAR_FILE \in Nat BY DEF VFS_REGULAR_FILE
<1> QED BY <1>1 DEF IsDisk, vfs_create_regular_file

LEMMA InvBootLog == ASSUME Inv, BootLog PROVE Inv'
<1> DEFINE h == malloc
           opened == vfs_open_file(vfs, "log", h, "opened")
           n == opened.files[h].inode
           u == vfs_close_file(opened, h, n)
<1>1. /\ boot \in {2, 3} /\ ~history.twice /\ Sound(vfs) /\ IsMem(mem) /\ IsDisk(disk)
      /\ Open(vfs) \subseteq {1, 2} /\ InodesOf(vfs) # {}
      /\ history.inOrder /\ ~history.short => Registered(vfs)
      /\ history.kept => Leads(vfs, mem)
  BY DEF Inv, InvType, InvBoot, InvVfs, InvPaths, BootLog
<1>2. UNCHANGED <<mem, streams, history>> BY DEF BootLog
<1>3. CASE Exists(vfs, "log")
  <2>1. vfs' = u /\ boot' = 4 /\ disk' = disk /\ ~InsertFails(vfs, "log") BY <1>3 DEF BootLog
  <2>2. h \in Handles \ Open(vfs)
    <3>1. 3 \in Free BY <1>1, ConstantsAre DEF Free
    <3> QED BY <3>1, MallocIs
  <2> HIDE DEF h
  <2>3. /\ Sound(opened) /\ InodesOf(opened) # {} /\ OneMore(vfs, opened, h)
        /\ Registered(vfs) => Registered(opened)
        /\ Leads(vfs, mem) => Leads(opened, mem)
    <3>1. "log" \in Keys BY ConstantsAre
    <3>2. /\ Sound(vfs) /\ IsMem(mem) /\ IsDisk(disk) /\ InodesOf(vfs) # {}
          /\ ~InsertFails(vfs, "log")
      BY <1>1, <2>1
    <3> QED BY <2>2, <3>1, <3>2, OpenFileKeeps
  <2> HIDE DEF opened
  <2>4. h \in Open(opened) /\ n = opened.files[h].inode BY <2>3 DEF OneMore
  <2>5. Ops(opened, n) = "kdb" => Last(opened.keyboard_file_data) = h
    BY <2>3, <2>4 DEF OneMore, Is
  <2> HIDE DEF n, u
  <2>6. /\ Sound(u) /\ InodesOf(u) # {} /\ Open(u) = Open(opened) \ {h}
        /\ Registered(opened) => Registered(u)
    BY <2>3, <2>4, <2>5, CloseFileKeeps DEF u
  <2>7. Open(u) \subseteq {1, 2} BY <1>1, <2>3, <2>6 DEF OneMore
  <2>8. InvType' BY <1>2, <2>1 DEF Inv, InvType
  <2>9. InvBoot' BY <1>1, <1>2, <2>1, <2>6, <2>7 DEF InvBoot
  <2>10. InvVfs' BY <1>1, <1>2, <2>1, <2>3, <2>6 DEF InvVfs
  <2>11. SamePaths(opened, u)
    <3>1. h \in Handles /\ IsVfs(opened) BY <2>2, <2>3 DEF Sound
    <3> QED BY <3>1, AnyCloseKeeps DEF u
  <2>12. Leads(vfs, mem) => Leads(u, mem) BY <2>3, <2>11, LeadsStays
  <2>13. InvPaths' BY <1>1, <1>2, <2>1, <2>6, <2>12 DEF InvPaths, Sound
  <2> QED BY <2>8, <2>9, <2>10, <2>13 DEF Inv
<1>4. CASE ~Exists(vfs, "log")
  <2>1. vfs' = vfs /\ boot' = 3 /\ disk' = vfs_create_regular_file(vfs, "log") BY <1>4 DEF BootLog
  <2>2. IsDisk(disk') BY <1>1, <2>1, CreateRegularKeeps
  <2>3. InvType' BY <1>2, <2>1, <2>2 DEF Inv, InvType
  <2>4. InvBoot' BY <1>1, <1>2, <2>1 DEF InvBoot
  <2>5. InvVfs' BY <1>1, <1>2, <2>1 DEF InvVfs
  <2>6. InvPaths' BY <1>1, <1>2, <2>1 DEF InvPaths, Sound
  <2> QED BY <2>3, <2>4, <2>5, <2>6 DEF Inv
<1> QED BY <1>3, <1>4

LEMMA InvBootFirstProcess == ASSUME Inv, BootFirstProcess PROVE Inv'
<1> DEFINE h == malloc
           tty == Min(Free \ {malloc})
           kdb == vfs_create_device_file(vfs, "kdb", "kdb", VFS_BLOCK_DEVICE)
           input == vfs_open_file(kdb, "kdb", h, "opened")
           u == vfs_open_file(input, "tty", tty, "opened")
<1>1. /\ boot = 4 /\ ~history.twice /\ Sound(vfs) /\ IsMem(mem) /\ IsDisk(disk)
      /\ Open(vfs) \subseteq {1, 2} /\ InodesOf(vfs) # {}
      /\ history.inOrder /\ ~history.short => Registered(vfs)
      /\ history.kept => Leads(vfs, mem)
      /\ ~Refuses(vfs, "kdb") /\ ~InsertFails(kdb, "kdb") /\ ~InsertFails(input, "tty")
  BY DEF Inv, InvType, InvBoot, InvVfs, InvPaths, BootFirstProcess
<1>2. PICK p \in Processes : vfs' = u /\ streams' = [streams EXCEPT ![p] = <<tty, tty, tty>>]
  BY DEF BootFirstProcess
<1>3. boot' = 5 /\ UNCHANGED <<mem, disk, history>> BY DEF BootFirstProcess
<1>4. h \in Handles \ Open(vfs) /\ tty \in Handles \ Open(vfs) /\ tty # h
  <2>1. 3 \in Free /\ 4 \in Free BY <1>1, ConstantsAre DEF Free
  <2>2. h \in Handles \ Open(vfs) BY <2>1, MallocIs
  <2> DEFINE rest == Free \ {h}
  <2>3. rest # {} /\ rest \in SUBSET Nat
    <3>1. Free \subseteq Nat BY ConstantsAre DEF Free
    <3>2. 3 \in rest \/ 4 \in rest BY <2>1
    <3> HIDE DEF h
    <3> QED BY <3>1, <3>2
  <2>4. tty = Min(rest) OBVIOUS
  <2> HIDE DEF rest, tty
  <2>5. tty \in rest BY <2>3, <2>4, MinIs
  <2> QED BY <2>2, <2>5 DEF rest, Free
<1> HIDE DEF h, tty
<1>5. "kdb" \in Keys /\ "tty" \in Keys /\ "kdb" \in Drivers /\ VFS_BLOCK_DEVICE \in Nat
  BY ConstantsAre DEF Drivers, VFS_BLOCK_DEVICE
<1>6. OnlyInodes(vfs, kdb) /\ (Leads(vfs, mem) => Leads(kdb, mem)) BY <1>1, <1>5, CreateKeeps
<1> HIDE DEF kdb
<1>7. Sound(kdb) /\ InodesOf(kdb) # {} /\ h \in Handles \ Open(kdb) /\ Open(kdb) = Open(vfs)
  BY <1>1, <1>4, <1>6 DEF OnlyInodes
<1>8. /\ Sound(input) /\ InodesOf(input) # {} /\ OneMore(kdb, input, h)
      /\ Registered(kdb) => Registered(input)
      /\ Leads(kdb, mem) => Leads(input, mem)
  <2>1. IsMem(mem) /\ IsDisk(disk) /\ ~InsertFails(kdb, "kdb") BY <1>1
  <2> QED BY <1>5, <1>7, <2>1, OpenFileKeeps
<1> HIDE DEF input
<1>9. tty \in Handles \ Open(input) BY <1>4, <1>7, <1>8 DEF OneMore
<1>10. Sound(u) /\ (Registered(input) => Registered(u)) /\ (Leads(input, mem) => Leads(u, mem))
  <2>1. IsMem(mem) /\ IsDisk(disk) /\ ~InsertFails(input, "tty") BY <1>1
  <2> QED BY <1>5, <1>8, <1>9, <2>1, OpenFileKeeps
<1> HIDE DEF u
<1>11. Registered(vfs) => Registered(u) BY <1>6, <1>8, <1>10, InodesDoNotRegister
<1>12. streams' \in [Processes -> {<<>>} \cup (Handle \X Handle \X Handle)]
  <2>1. <<tty, tty, tty>> \in Handle \X Handle \X Handle BY <1>4 DEF Handle
  <2>2. streams \in [Processes -> {<<>>} \cup (Handle \X Handle \X Handle)] BY DEF Inv, InvType
  <2> HIDE DEF tty
  <2> DEFINE t == <<tty, tty, tty>>
             T == {<<>>} \cup (Handle \X Handle \X Handle)
  <2>3. t \in T /\ streams \in [Processes -> T] /\ streams' = [streams EXCEPT ![p] = t]
    BY <1>2, <2>1, <2>2
  <2> HIDE DEF t, T
  <2>4. streams' \in [Processes -> T] BY <2>3
  <2> QED BY <2>4 DEF T
<1>13. InvType' BY <1>3, <1>12 DEF Inv, InvType
<1>14. InvBoot' BY <1>3 DEF InvBoot
<1>15. InvVfs' BY <1>1, <1>2, <1>3, <1>10, <1>11 DEF InvVfs
<1>16. InvPaths' BY <1>1, <1>2, <1>3, <1>6, <1>8, <1>10 DEF InvPaths, Sound
<1> QED BY <1>13, <1>14, <1>15, <1>16 DEF Inv

-----------------------------------------------------------------------------
(* The system calls.                                                       *)

LEMMA WhileRunning ==
  ASSUME Inv, Running
  PROVE  /\ boot = 5 /\ ~history.twice /\ Sound(vfs) /\ IsMem(mem) /\ IsDisk(disk) /\ history \in Histories
         /\ history.inOrder /\ ~history.short => Registered(vfs)
         /\ history.kept => Leads(vfs, mem)
         /\ boot' = boot => InvBoot'
BY DEF Inv, InvType, InvBoot, InvVfs, InvPaths, Running

LEMMA InvOpenFile == ASSUME Inv, NEW b \in Buffers, OpenFile(b) PROVE Inv'
<1>1. Running /\ Free # {} /\ ~InsertFails(vfs, b) BY DEF OpenFile, CanOpen
<1>2. PICK outcome : /\ vfs' = vfs_open_file(vfs, b, malloc, outcome)
                     /\ history' = [history EXCEPT !.short = @ \/ outcome = "registry full"]
  BY DEF OpenFile
<1>3. UNCHANGED <<mem, disk, streams, boot>> BY DEF OpenFile
<1>4. /\ Sound(vfs') /\ (Registered(vfs) /\ outcome # "registry full" => Registered(vfs'))
      /\ Leads(vfs, mem) => Leads(vfs', mem)
  <2> DEFINE h == malloc
  <2>1. h \in Handles \ Open(vfs) BY <1>1, MallocIs
  <2> HIDE DEF h
  <2>2. Sound(vfs) /\ IsMem(mem) /\ IsDisk(disk) BY <1>1, WhileRunning
  <2>3. b \in Keys BY DEF Keys
  <2>4. LET u == vfs_open_file(vfs, b, h, outcome)
        IN /\ Sound(u) /\ (Registered(vfs) /\ outcome # "registry full" => Registered(u))
           /\ Leads(vfs, mem) => Leads(u, mem)
    BY <1>1, <2>1, <2>2, <2>3, OpenFileKeeps
  <2> QED BY <1>2, <2>4 DEF h
<1>5. /\ history' \in Histories /\ history'.twice = history.twice /\ history'.inOrder = history.inOrder
      /\ history'.kept = history.kept
      /\ history'.short <=> (history.short \/ outcome = "registry full")
  BY <1>1, <1>2, WhileRunning DEF Histories
<1>6. InvType' BY <1>3, <1>5 DEF Inv, InvType
<1>7. InvBoot' BY <1>1, <1>3, WhileRunning
<1>8. InvVfs' BY <1>1, <1>4, <1>5, WhileRunning DEF InvVfs
<1>9. InvPaths' BY <1>1, <1>3, <1>4, <1>5, WhileRunning DEF InvPaths, Sound
<1> QED BY <1>6, <1>7, <1>8, <1>9 DEF Inv

LEMMA InvCreateFile == ASSUME Inv, NEW b \in Buffers, CreateFile(b) PROVE Inv'
<1>1. Running /\ disk' = vfs_create_regular_file(vfs, b) /\ UNCHANGED <<mem, vfs, streams, boot, history>>
  BY DEF CreateFile
<1>2. IsDisk(disk') BY <1>1, WhileRunning, CreateRegularKeeps
<1>3. InvType' BY <1>1, <1>2 DEF Inv, InvType
<1>4. InvBoot' BY <1>1, WhileRunning
<1>5. InvVfs' BY <1>1 DEF Inv, InvVfs
<1>6. InvPaths' BY <1>1 DEF Inv, InvPaths
<1> QED BY <1>3, <1>4, <1>5, <1>6 DEF Inv

\* A buffer that is no key may be rewritten.
LEMMA LeadsElsewhere ==
  ASSUME NEW v, IsVfs(v), NEW memory, DOMAIN memory = Keys, Leads(v, memory),
         NEW b, NEW path, \A e \in Used(v.map) : e.key # b
  PROVE  Leads(v, [memory EXCEPT ![b] = path])
<1> DEFINE m == v.map
           new == [memory EXCEPT ![b] = path]
<1>1. m \in Tables(Keys) BY DEF IsVfs
<1>2. \A e \in Used(m) : e.key \in Keys
  <2>1. TAKE e \in Used(m)
  <2>2. e \in Elements(Keys) /\ e.in_use BY <1>1, TableIs DEF Used, UsedIn
  <2>3. ~Unused.in_use BY DEF Unused
  <2> QED BY <2>2, <2>3 DEF Elements
<1>3. \A e \in Used(m) : new[e.key] = memory[e.key] BY <1>2
<1> HIDE DEF m, new
<1>4. \A e \in Used(m) : PathOf(new, e) = PathOf(memory, e) BY <1>3 DEF PathOf, Bytes
<1>5. \A i \in UsedIn(m, Indexes(m)) : m.data[i] \in Used(m) BY DEF Used
<1>6. Found(m, new) BY <1>4, <1>5 DEF Leads, Found, Whole, m
<1> QED BY <1>4, <1>6 DEF Leads, m, new

LEMMA InvRewritten ==
  ASSUME Inv, NEW b \in Buffers, NEW path \in Paths, Rewritten(b, path)
  PROVE  Inv'
<1>1. Running /\ mem' = [mem EXCEPT ![b] = path] /\ UNCHANGED <<vfs, disk, streams, boot>>
  BY DEF Rewritten
<1>2. history' = [history EXCEPT !.kept = @ /\ \A e \in hashmap_iterate_pairs(vfs.map) : e.key # b]
  BY DEF Rewritten
<1>3. IsMem(mem')
  <2>1. IsMem(mem) BY <1>1, WhileRunning
  <2>2. b \notin DOMAIN Literals BY ConstantsAre
  <2>3. \A p \in DOMAIN Literals : p \in Keys BY DEF Keys
  <2> QED BY <1>1, <2>1, <2>2, <2>3 DEF IsMem
<1> DEFINE untouched == \A e \in hashmap_iterate_pairs(vfs.map) : e.key # b
<1>4. /\ history' \in Histories /\ history'.twice = history.twice
      /\ history'.inOrder = history.inOrder /\ history'.short = history.short
      /\ history'.kept <=> (history.kept /\ untouched)
  <2> DEFINE kept == history.kept /\ untouched
  <2>1. kept \in BOOLEAN OBVIOUS
  <2>2. history' = [history EXCEPT !.kept = kept] BY <1>2
  <2>3. history \in Histories BY <1>1, WhileRunning
  <2> HIDE DEF kept
  <2>4. history' \in Histories /\ history'.twice = history.twice
        /\ history'.inOrder = history.inOrder /\ history'.short = history.short
        /\ history'.kept = kept
    BY <2>1, <2>2, <2>3 DEF Histories
  <2> QED BY <2>4 DEF kept
<1>5. InvType' BY <1>1, <1>3, <1>4 DEF Inv, InvType
<1>6. InvBoot' BY <1>1, WhileRunning
<1>7. InvVfs' BY <1>1, <1>4 DEF Inv, InvVfs
<1>8. IsVfs(vfs) /\ (history.kept => Leads(vfs, mem)) BY DEF Inv, InvPaths
<1>9. ASSUME history'.kept PROVE Leads(vfs, mem')
  <2>1. history.kept /\ \A e \in Used(vfs.map) : e.key # b
    BY <1>4, <1>9 DEF Used, hashmap_iterate_pairs
  <2>2. DOMAIN mem = Keys BY <1>1, WhileRunning DEF IsMem
  <2>3. Leads(vfs, [mem EXCEPT ![b] = path]) BY <1>8, <2>1, <2>2, LeadsElsewhere
  <2> QED BY <1>1, <2>3
<1>10. InvPaths' BY <1>1, <1>8, <1>9 DEF InvPaths
<1> QED BY <1>5, <1>6, <1>7, <1>10 DEF Inv

LEMMA InvWriteBuffer ==
  ASSUME Inv, NEW b \in Buffers, NEW path \in UserPaths, WriteBuffer(b, path)
  PROVE  Inv'
<1>1. path \in Paths BY WrittenIs DEF Written
<1> QED BY <1>1, InvRewritten DEF WriteBuffer

LEMMA InvOpenMissing == ASSUME Inv, NEW b \in Buffers, OpenMissing(b) PROVE Inv'
<1>1. PICK text \in Cut(mem[b]) : Rewritten(b, text) BY DEF OpenMissing
<1>2. Running /\ mem[b] # text BY <1>1 DEF Rewritten
<1>3. mem[b] \in Paths BY <1>2, WhileRunning, WholePath DEF Keys
<1>4. Len(mem[b]) \in 0..Len(mem[b]) /\ SubSeq(mem[b], 1, Len(mem[b])) = mem[b] BY <1>3, PathIs
<1>5. text \in Paths BY <1>1, <1>2, <1>3, <1>4, CutIs
<1> QED BY <1>1, <1>5, InvRewritten

LEMMA InvCreateMissing == ASSUME Inv, NEW b \in Buffers, CreateMissing(b) PROVE Inv'
<1>1. Absolute(mem[b]) BY DEF CreateMissing
<1>2. PICK text \in Cut(Parent(mem[b])) \ {Parent(mem[b])} : Rewritten(b, text) BY DEF CreateMissing
<1>3. mem[b] \in Paths BY <1>2, WhileRunning, WholePath DEF Keys, Rewritten
<1>4. PICK j \in 0..Len(mem[b]) : Parent(mem[b]) = SubSeq(mem[b], 1, j) BY <1>1, <1>3, ParentIs
<1>5. text \in Cut(SubSeq(mem[b], 1, j)) /\ text # SubSeq(mem[b], 1, j) BY <1>2, <1>4
<1>6. text \in Paths BY <1>3, <1>5, CutIs
<1> QED BY <1>2, <1>6, InvRewritten

LEMMA InvOpenDirectory == ASSUME Inv, NEW path \in {"root", "dev"}, OpenDirectory(path) PROVE Inv'
<1> DEFINE h == malloc
           u == vfs_open_directory(vfs, path, h)
<1>1. Running /\ Free # {} /\ ~InsertFails(vfs, path) BY DEF OpenDirectory, CanOpen
<1>2. vfs' = u /\ UNCHANGED <<mem, disk, streams, boot, history>> BY DEF OpenDirectory
<1>3. h \in Handles \ Open(vfs) BY <1>1, MallocIs
<1> HIDE DEF h
<1>4. Sound(u) /\ (Registered(vfs) => Registered(u)) /\ (Leads(vfs, mem) => Leads(u, mem))
  <2>1. Sound(vfs) /\ IsMem(mem) /\ IsDisk(disk) BY <1>1, WhileRunning
  <2> QED BY <1>1, <1>3, <2>1, OpenDirectoryKeeps
<1> HIDE DEF u
<1>5. InvType' BY <1>2 DEF Inv, InvType
<1>6. InvBoot' BY <1>1, <1>2, WhileRunning
<1>7. InvVfs' BY <1>1, <1>2, <1>4, WhileRunning DEF InvVfs
<1>8. InvPaths' BY <1>1, <1>2, <1>4, WhileRunning DEF InvPaths, Sound
<1> QED BY <1>5, <1>6, <1>7, <1>8 DEF Inv

LEMMA InvCloseDirectory == ASSUME Inv, NEW h \in Handles, vfs_close_directory(h) PROVE Inv'
<1> DEFINE n == vfs.files[h].inode
           u == DirectoryClosed(vfs, n, h)
<1>1. Running /\ h \in Open(vfs) /\ "entries" \in DOMAIN vfs.files[h]
  BY DEF vfs_close_directory, OpenFiles
<1>2. vfs' = u /\ UNCHANGED <<mem, disk, streams, boot, history>>
  BY DEF vfs_close_directory, DirectoryClosed
<1>3. Sound(vfs) BY <1>1, WhileRunning
<1>4. Ops(vfs, n) # "kdb" BY <1>1, <1>3 DEF Sound, DirectoriesAreOther
<1>5. h \in Open(vfs) /\ n = vfs.files[h].inode BY <1>1
<1> HIDE DEF n
<1>6. Sound(u) /\ SamePaths(vfs, u) /\ (Registered(vfs) => Registered(u))
  BY <1>3, <1>4, <1>5, CloseDirectoryKeeps
<1> HIDE DEF u
<1>7. InvType' BY <1>2 DEF Inv, InvType
<1>8. InvBoot' BY <1>1, <1>2, WhileRunning
<1>9. InvVfs' BY <1>1, <1>2, <1>6, WhileRunning DEF InvVfs
<1>10. Leads(vfs, mem) => Leads(u, mem) BY <1>6, LeadsStays
<1>11. InvPaths' BY <1>1, <1>2, <1>6, <1>10, WhileRunning DEF InvPaths, Sound
<1> QED BY <1>7, <1>8, <1>9, <1>11 DEF Inv

\* In a registry that follows the opens, a keyboard file that is not out of order
\* is the last.
LEMMA NotOutOfOrder ==
  ASSUME Registered(vfs), NEW h, Is(vfs, h, "kdb"), ~OutOfOrder(h)
  PROVE  Last(vfs.keyboard_file_data) = h
<1>1. h \in Range(vfs.keyboard_file_data) BY DEF Registered, Is, Open
<1>2. Range(<<>>) = {} BY EmptySeq DEF Range
<1>3. vfs.keyboard_file_data # <<>> BY <1>1, <1>2
<1> QED BY <1>3 DEF OutOfOrder

LEMMA InvCloseFile == ASSUME Inv, NEW h \in Handles, CloseFile(h) PROVE Inv'
<1> DEFINE n == vfs.files[h].inode
           u == vfs_close_file(vfs, h, n)
           inOrder == history.inOrder /\ ~OutOfOrder(h)
<1>1. Running /\ h \in Open(vfs) BY DEF CloseFile, OpenFiles
<1>2. vfs' = u /\ history' = [history EXCEPT !.inOrder = inOrder] /\ UNCHANGED <<mem, disk, streams, boot>>
  BY DEF CloseFile
<1>3. Sound(vfs) /\ history \in Histories BY <1>1, WhileRunning
<1>4. h \in Open(vfs) /\ n = vfs.files[h].inode BY <1>1
<1>5. Is(vfs, h, "kdb") <=> Ops(vfs, n) = "kdb" BY <1>1 DEF Is
<1> HIDE DEF n
<1>6. /\ Sound(u)
      /\ Registered(vfs) /\ (Ops(vfs, n) = "kdb" => Last(vfs.keyboard_file_data) = h) => Registered(u)
  BY <1>3, <1>4, CloseFileKeeps
<1>p. SamePaths(vfs, u) BY <1>3, AnyCloseKeeps DEF Sound
<1> HIDE DEF u
<1>7. Registered(vfs) /\ inOrder => Registered(u) BY <1>5, <1>6, NotOutOfOrder
<1>8. /\ history' \in Histories /\ history'.twice = history.twice /\ history'.short = history.short
      /\ history'.inOrder = inOrder /\ history'.kept = history.kept
  <2>1. inOrder \in BOOLEAN OBVIOUS
  <2> HIDE DEF inOrder
  <2> QED BY <1>2, <1>3, <2>1 DEF Histories
<1>9. inOrder => history.inOrder OBVIOUS
<1> HIDE DEF inOrder
<1>10. InvType' BY <1>2, <1>8 DEF Inv, InvType
<1>11. InvBoot' BY <1>1, <1>2, WhileRunning
<1>12. InvVfs' BY <1>1, <1>2, <1>6, <1>7, <1>8, <1>9, WhileRunning DEF InvVfs
<1>13. Leads(vfs, mem) => Leads(u, mem) BY <1>p, LeadsStays
<1>14. InvPaths' BY <1>1, <1>2, <1>6, <1>8, <1>13, WhileRunning DEF InvPaths, Sound
<1> QED BY <1>10, <1>11, <1>12, <1>14 DEF Inv

LEMMA InvCreateProcess ==
  ASSUME Inv, NEW p \in Processes, NEW out \in Streams, NEW in \in Streams,
         CreateProcess(p, <<out, in, NoStream>>)
  PROVE  Inv'
<1> DEFINE s == <<out, in, NoStream>>
           T == {<<>>} \cup (Handle \X Handle \X Handle)
<1>1. Running /\ streams' = [streams EXCEPT ![p] = s] /\ UNCHANGED <<mem, vfs, disk, boot, history>>
  BY DEF CreateProcess
<1>2. s \in T
  <2>1. out \in Handle /\ in \in Handle /\ NoStream \in Handle BY DEF Streams, OpenFiles, Open, Handle
  <2> QED BY <2>1
<1>3. streams \in [Processes -> T] BY DEF Inv, InvType
<1> HIDE DEF s, T
<1>4. streams' \in [Processes -> T] BY <1>1, <1>2, <1>3
<1>5. InvType' BY <1>1, <1>4 DEF Inv, InvType, T
<1>6. InvBoot' BY <1>1, WhileRunning
<1>7. InvVfs' BY <1>1 DEF Inv, InvVfs
<1>8. InvPaths' BY <1>1 DEF Inv, InvPaths
<1> QED BY <1>5, <1>6, <1>7, <1>8 DEF Inv

LEMMA InvExit == ASSUME Inv, NEW p \in Processes, Exit(p) PROVE Inv'
<1> DEFINE s == streams[p]
           T == {<<>>} \cup (Handle \X Handle \X Handle)
           inOrder == history.inOrder /\ \A i \in 1..3 : s[i] # NoStream => ~OutOfOrder(s[i])
           twice == Twice(s)
           u == remove_process(vfs, s)
<1>1. Running /\ s # <<>> /\ streams' = [streams EXCEPT ![p] = <<>>] /\ vfs' = u
      /\ history' = [history EXCEPT !.twice = twice, !.inOrder = inOrder] /\ UNCHANGED <<mem, disk, boot>>
  BY DEF Exit
<1>2. Sound(vfs) /\ history \in Histories /\ (history.inOrder /\ ~history.short => Registered(vfs))
  BY <1>1, WhileRunning
<1>3. streams \in [Processes -> T] BY DEF Inv, InvType
<1>4. streams' \in [Processes -> T] BY <1>1, <1>3
<1>5. PICK a \in Handle, b \in Handle, c \in Handle : s = <<a, b, c>>
  <2>1. s \in Handle \X Handle \X Handle BY <1>1, <1>3
  <2> QED BY <2>1
<1>6. s[1] = a /\ s[2] = b /\ s[3] = c BY <1>5
<1> HIDE DEF s
<1>7. ASSUME ~twice
      PROVE  Sound(u) /\ (Registered(vfs) /\ inOrder => Registered(u))
  <2>1. \A i \in 1..3 : s[i] # NoStream => s[i] \in Open(vfs)
    BY <1>7 DEF Twice, OpenFiles
  <2>2. \A i, j \in 1..3 : i # j /\ s[i] # NoStream => s[i] # s[j] BY <1>7 DEF Twice
  <2>3. 1 \in 1..3 /\ 2 \in 1..3 /\ 3 \in 1..3 OBVIOUS
  <2>4. {a, b, c} \subseteq Open(vfs) \cup {NoStream} BY <1>6, <2>1, <2>3
  <2>5. Registered(vfs) /\ inOrder => LastIfKeyboard(vfs, {a, b, c} \ {NoStream})
    <3>1. SUFFICES ASSUME Registered(vfs), inOrder, NEW h \in {a, b, c} \ {NoStream}, Is(vfs, h, "kdb")
                   PROVE  Last(vfs.keyboard_file_data) = h
      BY DEF LastIfKeyboard
    <3>2. \A i \in 1..3 : s[i] # NoStream => ~OutOfOrder(s[i]) BY <3>1
    <3>3. h # NoStream /\ (h = s[1] \/ h = s[2] \/ h = s[3]) BY <1>6
    <3>4. ~OutOfOrder(h) BY <2>3, <3>2, <3>3
    <3> QED BY <3>1, <3>4, NotOutOfOrder
  <2> HIDE DEF inOrder, u
  <2>6. /\ Sound(u)
        /\ Registered(vfs) /\ LastIfKeyboard(vfs, {a, b, c} \ {NoStream}) => Registered(u)
    BY <1>2, <1>5, <2>2, <2>4, RemoveKeeps DEF u
  <2> QED BY <2>5, <2>6
<1>p. IsVfs(u) /\ SamePaths(vfs, u)
  <2>1. IsVfs(vfs) BY <1>2 DEF Sound
  <2> HIDE DEF u
  <2> QED BY <1>5, <2>1, RemoveMovesNothing DEF u, Handle
<1>8. /\ history' \in Histories /\ history'.twice = twice /\ history'.short = history.short
      /\ history'.inOrder = inOrder /\ history'.kept = history.kept
  <2>1. inOrder \in BOOLEAN /\ twice \in BOOLEAN BY DEF Twice
  <2> HIDE DEF inOrder, twice
  <2> QED BY <1>1, <1>2, <2>1 DEF Histories
<1>9. inOrder => history.inOrder OBVIOUS
<1> HIDE DEF inOrder, twice, u
<1>10. InvType' BY <1>1, <1>4, <1>8 DEF Inv, InvType
<1>11. InvBoot' BY <1>1, WhileRunning
<1>12. InvVfs' BY <1>1, <1>2, <1>7, <1>8, <1>9 DEF InvVfs
<1>13. Leads(vfs, mem) => Leads(u, mem) BY <1>p, LeadsStays
<1>14. InvPaths' BY <1>1, <1>8, <1>13, <1>p, WhileRunning DEF InvPaths
<1> QED BY <1>10, <1>11, <1>12, <1>14 DEF Inv

LEMMA InvNext == Inv /\ [Next]_vars => Inv'
<1> SUFFICES ASSUME Inv, [Next]_vars PROVE Inv' OBVIOUS
<1>1. CASE BootDevices BY <1>1, InvBootDevices
<1>2. CASE BootPrint BY <1>2, InvBootPrint
<1>3. CASE BootLog BY <1>3, InvBootLog
<1>4. CASE BootFirstProcess BY <1>4, InvBootFirstProcess
<1>5. ASSUME NEW b \in Buffers, OpenFile(b) PROVE Inv' BY <1>5, InvOpenFile
<1>6. ASSUME NEW b \in Buffers, CreateFile(b) PROVE Inv' BY <1>6, InvCreateFile
<1>7. ASSUME NEW b \in Buffers, NEW path \in UserPaths, WriteBuffer(b, path) PROVE Inv'
  BY <1>7, InvWriteBuffer
<1>8. ASSUME NEW d \in {"root", "dev"}, OpenDirectory(d) PROVE Inv' BY <1>8, InvOpenDirectory
<1>9. ASSUME NEW h \in Handles, CloseFile(h) PROVE Inv' BY <1>9, InvCloseFile
<1>10. ASSUME NEW h \in Handles, vfs_close_directory(h) PROVE Inv' BY <1>10, InvCloseDirectory
<1>11. ASSUME NEW p \in Processes, Exit(p) PROVE Inv' BY <1>11, InvExit
<1>12. ASSUME NEW p \in Processes, NEW out \in Streams, NEW in \in Streams,
              CreateProcess(p, <<out, in, NoStream>>)
       PROVE  Inv'
  BY <1>12, InvCreateProcess
<1>14. ASSUME NEW b \in Buffers, OpenMissing(b) PROVE Inv' BY <1>14, InvOpenMissing
<1>15. ASSUME NEW b \in Buffers, CreateMissing(b) PROVE Inv' BY <1>15, InvCreateMissing
<1>16. CASE UNCHANGED vars BY <1>16 DEF vars, Inv, InvType, InvBoot, InvVfs, InvPaths
<1> QED
  BY <1>1, <1>2, <1>3, <1>4, <1>5, <1>6, <1>7, <1>8, <1>9, <1>10, <1>11, <1>12, <1>14, <1>15, <1>16
  DEF Next

LEMMA SpecInv == Spec => []Inv
BY InvInit, InvNext, PTL DEF Spec

-----------------------------------------------------------------------------
(* The promises.                                                           *)

\* Until the end of a process closes a file twice, the count of every inode is
\* the number of its open files and directories and of the opens its driver
\* refused, however its path was found and whatever the table does with its keys
\* (virtual-filesystem.c:226-284, process.c:153-161).
THEOREM CountsCorrect == Spec => []CountsMatchHandles
<1>1. Inv => CountsMatchHandles
  BY DEF Inv, InvVfs, Sound, Counted, HandlesOf, CountsMatchHandles
<1> QED BY <1>1, SpecInv, PTL

\* With keyboard files closed in the opposite order of their opens and a registry
\* that could grow, the registry has every open keyboard file once and no other,
\* through system calls, the ends of processes and the boot (keyboard.c:42-96).
THEOREM RegistryCorrect == Spec => []RegistryFollowsOpens
<1>1. Inv => RegistryFollowsOpens BY DEF Inv, InvVfs, Registered, RegistryFollowsOpens
<1> QED BY <1>1, SpecInv, PTL

\* While every buffer that became a key keeps its path, the table leads a path to
\* no inode but its own, and to that one whenever it is a device's or open,
\* whatever collides in the hash, through every doubling of the table and even
\* after a process closed a file twice (hashmap.h:336-389, 623-710,
\* virtual-filesystem.c:42-65, 262-272).
THEOREM LookupCorrect == Spec => []LookupFindsTheFile
<1>1. Inv => LookupFindsTheFile
  <2> SUFFICES ASSUME Inv, history.kept, NEW p \in DOMAIN mem
               PROVE  /\ Known(vfs, p) # NULL =>
                           /\ Known(vfs, p) \in InodesOf(vfs)
                           /\ vfs.inodes[Known(vfs, p)].path = mem[p]
                      /\ \A n \in InodesOf(vfs) : vfs.inodes[n].path = mem[p] => Known(vfs, p) = n
    BY DEF LookupFindsTheFile
  <2>1. IsVfs(vfs) /\ Leads(vfs, mem) /\ IsMem(mem) BY DEF Inv, InvPaths, InvType
  <2>2. p \in Keys BY <2>1 DEF IsMem
  <2>3. ASSUME Known(vfs, p) # NULL
        PROVE  Known(vfs, p) \in InodesOf(vfs) /\ vfs.inodes[Known(vfs, p)].path = mem[p]
    <3>1. PICK e \in Used(vfs.map) : PathOf(mem, e) = mem[p] /\ Known(vfs, p) = e.data
      BY <2>1, <2>2, <2>3, Sought DEF Leads
    <3> QED BY <2>1, <3>1 DEF Leads
  <2>4. \A n \in InodesOf(vfs) : vfs.inodes[n].path = mem[p] => Known(vfs, p) = n
    BY <2>1, <2>2, Reached
  <2> QED BY <2>3, <2>4
<1> QED BY <1>1, SpecInv, PTL

=============================================================================
