---------------------------- MODULE ProgramProofs ----------------------------
(***************************************************************************)
(* Proofs about the terminal and two programs.  However echoes interrupt   *)
(* each other, the cursor comes back to the screen, a line that is read in *)
(* pieces is the line that was typed, and the screen shows it while it is  *)
(* typed and nobody else prints; brainfuck's editor keeps the              *)
(* text that is typed; the board of minesweeper tells the truth.  For      *)
(* every screen, number of processes, set of keys and texts, size of       *)
(* buffers, field, and place that the random numbers give the bombs.       *)
(***************************************************************************)
EXTENDS Console, Brainfuck, Minesweeper, Recursion, FunctionTheorems, SequenceTheorems

-----------------------------------------------------------------------------
(* Prints that nobody interrupts.                                          *)

LEMMA SizesIs ==
  /\ VGA_WIDTH \in Nat /\ VGA_WIDTH > 0 /\ VGA_HEIGHT \in Nat /\ VGA_HEIGHT > 0
  /\ TAB \in Nat /\ TAB > 0
  /\ UINT8 \in Nat /\ VGA_WIDTH < UINT8 /\ VGA_HEIGHT < UINT8
<1>1. {VGA_WIDTH, VGA_HEIGHT, TAB, LINE} \cup Amounts \subseteq Nat \ {0}
  BY ConsoleAssumption
<1>2. UINT8 \in Nat /\ VGA_WIDTH < UINT8 /\ VGA_HEIGHT < UINT8 BY ConsoleAssumption
<1> QED BY <1>1, <1>2

LEMMA CharsIs ==
  /\ \A c \in {"NUL", "0", Space, "-", "back", "garbage"} : c \in Chars
  /\ \A i \in 1..16 : HexDigits[i] \in Chars
  /\ LetterKeys \subseteq Chars \X Chars /\ Texts \subseteq Seq(Chars)
<1>1. /\ {"NUL", "0", Space, "-", "back", "garbage"} \subseteq Chars /\ HexDigits \in [1..16 -> Chars]
      /\ LetterKeys \subseteq Chars \X Chars /\ Texts \subseteq Seq(Chars)
  BY ConsoleAssumption
<1> QED BY <1>1

LEMMA BytesIs ==
  ASSUME NEW n \in 0..(UINT8 - 1)
  PROVE  /\ Next8(n) \in 0..(UINT8 - 1) /\ Previous8(n) \in 0..(UINT8 - 1)
         /\ Next8(n) # 0 => Next8(n) = n + 1
         /\ n > 0 => Previous8(n) = n - 1
<1>1. n + 1 = UINT8 => (n + 1) % UINT8 = 0 BY SizesIs
<1>2. n + 1 < UINT8 => (n + 1) % UINT8 = n + 1 BY SizesIs
<1> QED BY <1>1, <1>2, SizesIs DEF Next8, Previous8

LEMMA CursorIs ==
  ASSUME NEW s \in Screens
  PROVE  /\ s.row \in Nat /\ s.row < UINT8 /\ s.col \in Nat /\ s.col < UINT8
         /\ s.row * VGA_WIDTH \in Nat /\ Cursor(s) \in Nat
<1>1. s.row \in Nat /\ s.row < UINT8 /\ s.col \in Nat /\ s.col < UINT8 BY SizesIs DEF Screens
<1>2. s.row * VGA_WIDTH \in Nat BY <1>1, SizesIs
<1> QED BY <1>1, <1>2 DEF Cursor

LEMMA WrittenIs ==
  ASSUME NEW contents \in [Cells -> Chars], NEW i, NEW c \in Chars
  PROVE  /\ Written(contents, i, c) \in [Cells -> Chars]
         /\ i \in Cells => Written(contents, i, c)[i] = c
         /\ \A j \in Cells : j # i => Written(contents, i, c)[j] = contents[j]
         /\ Below(contents, i) \in Chars
BY CharsIs DEF Written, Below

LEMMA CellsBelow ==
  ASSUME NEW j \in Cells, NEW i \in Nat, i <= j
  PROVE  i \in Cells
<1>1. VGA_WIDTH * VGA_HEIGHT \in Int BY SizesIs
<1> QED BY <1>1 DEF Cells

\* The screens whose cursor is not behind the last column or row, unless that of t is.
Near(t) == {s \in Screens : /\ s.row >= VGA_HEIGHT => t.row >= VGA_HEIGHT
                            /\ s.col >= VGA_WIDTH => t.col >= VGA_WIDTH}

LEMMA NewlineIs ==
  ASSUME NEW s \in Screens
  PROVE  newline(s) \in Screens /\ newline(s).col = 0 /\ newline(s).row < VGA_HEIGHT
<1>1. CASE Next8(s.row) < VGA_HEIGHT
  <2>1. newline(s) = [cells |-> s.cells, row |-> Next8(s.row), col |-> 0] BY <1>1 DEF newline
  <2>2. Next8(s.row) \in 0..(UINT8 - 1) /\ s.cells \in [Cells -> Chars] BY BytesIs DEF Screens
  <2> QED BY <1>1, <2>1, <2>2, SizesIs DEF Screens
<1>2. CASE ~(Next8(s.row) < VGA_HEIGHT)
  <2>1. newline(s) = [cells |-> [i \in Cells |-> Below(s.cells, i)],
                      row |-> VGA_HEIGHT - 1, col |-> 0]
    BY <1>2 DEF newline
  <2>2. \A i \in Cells : Below(s.cells, i) \in Chars BY CharsIs, WrittenIs DEF Screens
  <2>3. [i \in Cells |-> Below(s.cells, i)] \in [Cells -> Chars] BY <2>2
  <2> QED BY <2>1, <2>3, SizesIs DEF Screens
<1> QED BY <1>1, <1>2

LEMMA PutIs ==
  ASSUME NEW s \in Screens, NEW c \in Chars
  PROVE  Put(s, c) \in Screens /\ Put(s, c).col < VGA_WIDTH
         /\ (Put(s, c).row < VGA_HEIGHT \/ Put(s, c).row = s.row)
<1> DEFINE contents == IF Cursor(s) \in Cells THEN Written(s.cells, Cursor(s), c) ELSE s.cells
           t == [cells |-> contents, row |-> s.row, col |-> Next8(s.col)]
<1>1. contents \in [Cells -> Chars] BY WrittenIs DEF Screens
<1>2. s.row \in 0..(UINT8 - 1) /\ Next8(s.col) \in 0..(UINT8 - 1) BY BytesIs DEF Screens
<1>3. Put(s, c) = IF t.col >= VGA_WIDTH THEN newline(t) ELSE t BY DEF Put
<1> HIDE DEF contents
<1>4. t \in Screens BY <1>1, <1>2 DEF Screens
<1>5. newline(t) \in Screens /\ newline(t).col = 0 /\ newline(t).row < VGA_HEIGHT
  BY <1>4, NewlineIs
<1> QED BY <1>2, <1>3, <1>4, <1>5, SizesIs

\* One character takes the cursor to no column or row behind the last.
LEMMA PutNear ==
  ASSUME NEW t \in Screens, NEW s \in Near(t), NEW c \in Chars
  PROVE  Put(s, c) \in Near(t)
<1>1. s \in Screens BY DEF Near
<1>2. /\ Put(s, c) \in Screens /\ Put(s, c).col < VGA_WIDTH
      /\ Put(s, c).row < VGA_HEIGHT \/ Put(s, c).row = s.row
  BY <1>1, PutIs
<1>3. Put(s, c).col \in Nat /\ Put(s, c).row \in Nat BY <1>2, CursorIs
<1> QED BY <1>2, <1>3, SizesIs DEF Near

LEMMA BlanksNear ==
  ASSUME NEW t \in Screens, NEW s \in Near(t)
  PROVE  Blanks(s) \in Near(t)
<1> DEFINE G == [k \in 1..TAB |-> [u \in Near(t) |-> Put(u, Space)]]
           F(g) == g = [k \in 0..TAB |-> IF k = 0 THEN s ELSE Put(g[k - 1], Space)]
<1>1. Space \in Chars BY CharsIs
<1>2. G \in [1..TAB -> [Near(t) -> Near(t)]] BY <1>1, PutNear
<1>3. \A k \in 1..TAB : \A u \in Near(t) : G[k][u] = Put(u, Space) OBVIOUS
<1> HIDE DEF G
<1>4. PICK f \in [0..TAB -> Near(t)] : Turns(f, TAB, s, G) BY <1>2, SizesIs, TurnsExist
<1>5. F(f)
  <2>1. \A k \in 0..TAB : f[k] = IF k = 0 THEN s ELSE G[k][f[k - 1]] BY <1>4 DEF Turns
  <2>2. \A k \in 0..TAB : k # 0 => k \in 1..TAB /\ f[k - 1] \in Near(t) BY SizesIs
  <2> QED BY <1>3, <2>1, <2>2
<1>6. PICK h : Blanks(s) = h[TAB] /\ F(h) BY <1>5 DEF Blanks
<1>7. h[0] = s /\ \A k \in 1..TAB : h[k] = Put(h[k - 1], Space)
  <2>1. \A k \in 0..TAB : h[k] = IF k = 0 THEN s ELSE Put(h[k - 1], Space) BY <1>6
  <2> QED BY <2>1, SizesIs
<1>8. \A k \in 1..TAB : h[k - 1] \in Near(t) => h[k] = G[k][h[k - 1]] BY <1>3, <1>7
<1>9. \A k \in 0..TAB : h[k] \in Near(t) BY <1>2, <1>7, <1>8, SizesIs, TurnsStay
<1> QED BY <1>6, <1>9, SizesIs

LEMMA CharNear ==
  ASSUME NEW t \in Screens, NEW s \in Near(t), NEW c \in Chars
  PROVE  print_char(s, c) \in Near(t)
<1>1. s \in Screens /\ s.col \in Nat /\ s.row \in Nat BY CursorIs DEF Near
<1>2. newline(s) \in Near(t) BY <1>1, NewlineIs, CursorIs, SizesIs DEF Near
<1>3. [s EXCEPT !.col = 0] \in Near(t) BY <1>1, SizesIs DEF Near, Screens
<1>4. [s EXCEPT !.col = IF @ > 0 THEN @ - 1 ELSE @] \in Near(t)
  BY <1>1, SizesIs DEF Near, Screens
<1> QED BY <1>2, <1>3, <1>4, BlanksNear, PutNear DEF print_char

LEMMA PrintNear ==
  ASSUME screen \in Screens, NEW text \in Lines
  PROVE  tty_print(text) \in Near(screen)
<1> DEFINE N == Len(text)
           X == Near(screen)
           G == [k \in 1..N |-> [u \in X |-> print_char(u, text[k])]]
           F(g) == g = [k \in 0..N |-> IF k = 0 THEN screen ELSE print_char(g[k - 1], text[k])]
<1>1. N \in Nat /\ \A k \in 1..N : text[k] \in Chars BY LenProperties, ElementOfSeq DEF Lines
<1>2. G \in [1..N -> [X -> X]] /\ screen \in X
  <2>1. screen \in X BY DEF Near
  <2> QED BY <1>1, <2>1, CharNear
<1>3. \A k \in 1..N : \A u \in X : G[k][u] = print_char(u, text[k]) OBVIOUS
<1> HIDE DEF G, X
<1>4. PICK f \in [0..N -> X] : Turns(f, N, screen, G) BY <1>1, <1>2, TurnsExist
<1>5. F(f)
  <2>1. \A k \in 0..N : f[k] = IF k = 0 THEN screen ELSE G[k][f[k - 1]] BY <1>4 DEF Turns
  <2>2. \A k \in 0..N : k # 0 => k \in 1..N /\ f[k - 1] \in X BY <1>1
  <2> QED BY <1>3, <2>1, <2>2
<1>6. PICK h : tty_print(text) = h[N] /\ F(h) BY <1>5 DEF tty_print
<1>7. h[0] = screen /\ \A k \in 1..N : h[k] = print_char(h[k - 1], text[k])
  <2>1. \A k \in 0..N : h[k] = IF k = 0 THEN screen ELSE print_char(h[k - 1], text[k]) BY <1>6
  <2> QED BY <1>1, <2>1
<1>8. \A k \in 1..N : h[k - 1] \in X => h[k] = G[k][h[k - 1]] BY <1>3, <1>7
<1>9. \A k \in 0..N : h[k] \in X BY <1>1, <1>2, <1>7, <1>8, TurnsStay
<1> QED BY <1>1, <1>6, <1>9 DEF X

\* What print_int and print_hex print.
LEMMA DigitsType ==
  ASSUME NEW n \in Nat, NEW base \in {10, 16}
  PROVE  DigitsIn(n, base) \in Lines
<1> DEFINE Digit(m) == HexDigits[(m % base) + 1]
           D == [m \in 1..n |-> m \div base]
           G == [m \in 1..n |-> [x \in Lines |-> Append(x, Digit(m))]]
           F(g) == g = [m \in 0..n |-> IF m = 0 THEN <<>> ELSE Append(g[m \div base], Digit(m))]
<1>1. \A m \in Nat : Digit(m) \in Chars
  <2>1. \A m \in Nat : (m % base) + 1 \in 1..16 OBVIOUS
  <2> QED BY <2>1, CharsIs
<1>2. D \in [1..n -> Nat] /\ \A m \in 1..n : D[m] < m OBVIOUS
<1>13. \A m \in 1..n : D[m] = m \div base OBVIOUS
<1>3. <<>> \in Lines BY DEF Lines
<1> HIDE DEF Digit, D
<1>4. G \in [1..n -> [Lines -> Lines]] BY <1>1 DEF Lines
<1>5. \A m \in 1..n : \A x \in Lines : G[m][x] = Append(x, Digit(m)) OBVIOUS
<1> HIDE DEF G
<1>6. PICK f \in [0..n -> Lines] : Descends(f, n, <<>>, D, G)
  BY <1>2, <1>3, <1>4, DescendingExists
<1>7. F(f)
  <2>1. \A m \in 0..n : f[m] = IF m = 0 THEN <<>> ELSE G[m][f[D[m]]] BY <1>6 DEF Descends
  <2>2. \A m \in 0..n : m # 0 => m \in 1..n OBVIOUS
  <2>3. \A m \in 1..n : D[m] \in 0..n BY <1>2
  <2>4. \A m \in 0..n : f[m] = IF m = 0 THEN <<>> ELSE Append(f[m \div base], Digit(m))
    BY <1>13, <1>5, <2>1, <2>2, <2>3
  <2>5. f = [m \in 0..n |-> f[m]] OBVIOUS
  <2> QED BY <2>4, <2>5
<1>8. PICK h : DigitsIn(n, base) = h[n] /\ F(h) BY <1>7 DEF DigitsIn, Digit
<1>9. \A m \in 0..n : h[m] = IF m = 0 THEN <<>> ELSE Append(h[m \div base], Digit(m)) BY <1>8
<1>10. h[0] \in Lines BY <1>3, <1>9
<1>11. \A m \in 1..n : h[D[m]] \in Lines => h[m] = G[m][h[D[m]]]
  <2>1. \A m \in 1..n : m \in 0..n /\ m # 0 OBVIOUS
  <2>2. \A m \in 1..n : h[m] = Append(h[D[m]], Digit(m)) BY <1>9, <1>13, <2>1
  <2> QED BY <1>5, <2>2
<1>12. StartsIn(h, n, Lines, D, G) BY <1>2, <1>4, <1>10, <1>11 DEF StartsIn
<1>14. \A m \in 0..n : h[m] \in Lines BY <1>12, DescendingStays
<1> QED BY <1>8, <1>14

LEMMA NumberType ==
  ASSUME NEW n \in PrintedInts
  PROVE  print_int(n) \in Lines /\ print_hex(n) \in Lines
<1>1. n \in Int /\ IntMin \in Int /\ IntMin < 0 BY ConsoleAssumption
<1>2. <<"0">> \in Lines /\ <<"-">> \in Lines BY CharsIs DEF Lines
<1>3. n \in Nat => DigitsIn(n, 10) \in Lines BY DigitsType
<1>4. n < 0 => DigitsIn(-n, 10) \in Lines BY <1>1, DigitsType
<1>5. n < 0 => <<"-">> \o DigitsIn(-n, 10) \in Lines BY <1>2, <1>4, ConcatProperties DEF Lines
<1>6. n % (-2 * IntMin) \in Nat BY <1>1
<1>7. DigitsIn(n % (-2 * IntMin), 16) \in Lines BY <1>6, DigitsType
<1> QED BY <1>1, <1>2, <1>3, <1>5, <1>7 DEF print_int, print_hex

-----------------------------------------------------------------------------
(* The files.                                                              *)

\* A read hands over the first part of the rest and keeps the second.
LEMMA HandOverIs ==
  ASSUME TypeOK, NEW p \in Procs, NEW rest \in Lines, NEW amount \in Nat,
         HandOver(p, rest, amount)
  PROVE  /\ file' \in [Procs -> [open : BOOLEAN, has : BOOLEAN, rest : Lines]]
         /\ got' \in [Procs -> Lines] /\ zero' \in [Procs -> BOOLEAN]
         /\ file'[p].open /\ file'[p].has
         /\ got'[p] \o file'[p].rest = got[p] \o rest
         /\ \A q \in Procs : q # p => file'[q] = file[q] /\ got'[q] = got[q]
<1> DEFINE n == IF Len(rest) < amount THEN Len(rest) ELSE amount
           first == SubSeq(rest, 1, n)
           second == SubSeq(rest, n + 1, Len(rest))
<1>1. Len(rest) \in Nat /\ rest \in Seq(Chars) BY LenProperties DEF Lines
<1>2. n \in 0..Len(rest) BY <1>1
<1> HIDE DEF n
<1>3. first \in Lines /\ second \in Lines
  <2>1. \A i \in 1..Len(rest) : rest[i] \in Chars BY <1>1, ElementOfSeq
  <2>2. /\ \A i \in 1..n : rest[i] \in Chars
        /\ \A i \in (n + 1)..Len(rest) : rest[i] \in Chars
    BY <1>1, <1>2, <2>1
  <2>3. n \in Int /\ n + 1 \in Int /\ Len(rest) \in Int /\ 1 \in Int BY <1>1, <1>2
  <2>4. first \in Seq(Chars) BY <2>2, <2>3, SubSeqProperties
  <2>5. second \in Seq(Chars) BY <2>2, <2>3, SubSeqProperties
  <2> QED BY <2>4, <2>5 DEF Lines
<1>4. first \o second = rest
  <2>1. 1 \in 1..(Len(rest) + 1) /\ n \in (1 - 1)..Len(rest) /\ Len(rest) \in n..Len(rest)
    BY <1>1, <1>2
  <2>2. first \o second = SubSeq(rest, 1, Len(rest)) BY <1>1, <2>1, ConcatAdjacentSubSeq
  <2> QED BY <1>1, <2>2, SubSeqFull
<1>5. /\ file' = [file EXCEPT ![p] = [open |-> TRUE, has |-> TRUE, rest |-> second]]
      /\ got' = [got EXCEPT ![p] = got[p] \o first]
      /\ zero' = [zero EXCEPT ![p] = n = 0]
  BY DEF HandOver, n
<1> HIDE DEF first, second
<1>6. got[p] \in Lines BY DEF TypeOK
<1>7. got[p] \o first \in Lines BY <1>3, <1>6, ConcatProperties DEF Lines
<1>8. (got[p] \o first) \o second = got[p] \o rest
  <2>1. (got[p] \o first) \o second = got[p] \o (first \o second)
    <3>1. got[p] \in Seq(Chars) /\ first \in Seq(Chars) /\ second \in Seq(Chars)
      BY <1>3, <1>6 DEF Lines
    <3>2. \A x, y, z \in Seq(Chars) : (x \o y) \o z = x \o (y \o z)
      BY ConcatAssociative
    <3> QED BY <3>1, <3>2
  <2> QED BY <1>4, <2>1
<1>9. file'[p] = [open |-> TRUE, has |-> TRUE, rest |-> second] /\ got'[p] = got[p] \o first
  BY <1>5 DEF TypeOK
<1>10. file' \in [Procs -> [open : BOOLEAN, has : BOOLEAN, rest : Lines]]
  BY <1>3, <1>5 DEF TypeOK
<1>11. got' \in [Procs -> Lines] /\ zero' \in [Procs -> BOOLEAN] BY <1>5, <1>7 DEF TypeOK
<1> QED BY <1>5, <1>8, <1>9, <1>10, <1>11 DEF TypeOK

\* A line loses its last character.
LEMMA FrontIs ==
  ASSUME NEW line \in Lines, Len(line) > 0
  PROVE  /\ Front(line) \in Lines /\ Len(Front(line)) = Len(line) - 1
         /\ \A i \in 1..(Len(line) - 1) : Front(line)[i] = line[i]
<1>1. Len(line) \in Nat /\ line \in Seq(Chars) BY LenProperties DEF Lines
<1>2. \A i \in 1..(Len(line) - 1) : line[i] \in Chars BY <1>1, ElementOfSeq
<1>3. 1 \in Int /\ Len(line) - 1 \in Int BY <1>1
<1>4. /\ SubSeq(line, 1, Len(line) - 1) \in Seq(Chars)
      /\ Len(SubSeq(line, 1, Len(line) - 1)) =
           IF 1 <= Len(line) - 1 THEN (Len(line) - 1) - 1 + 1 ELSE 0
      /\ \A i \in 1..((Len(line) - 1) - 1 + 1) :
           SubSeq(line, 1, Len(line) - 1)[i] = line[1 + i - 1]
  BY <1>2, <1>3, SubSeqProperties
<1>5. \A i \in 1..(Len(line) - 1) : SubSeq(line, 1, Len(line) - 1)[i] = line[i]
  BY <1>1, <1>4
<1>6. Front(line) = SubSeq(line, 1, Len(line) - 1) BY DEF Front
<1>7. Len(SubSeq(line, 1, Len(line) - 1)) = Len(line) - 1
  <2>1. \A k \in Nat : k > 0 => (IF 1 <= k - 1 THEN (k - 1) - 1 + 1 ELSE 0) = k - 1 OBVIOUS
  <2>2. Len(SubSeq(line, 1, Len(line) - 1)) =
          IF 1 <= Len(line) - 1 THEN (Len(line) - 1) - 1 + 1 ELSE 0
    BY <1>4
  <2> QED BY <1>1, <2>1, <2>2
<1>8. Front(line) \in Lines BY <1>4, <1>6 DEF Lines
<1> QED BY <1>5, <1>6, <1>7, <1>8

-----------------------------------------------------------------------------
(* The echoes.                                                             *)

Echoed == Seq(Chars \cup {"newline"})
Putting == {"column", "row", "cell", "load column", "store column", "test width"}
Backing == {"test", "load back", "store back"}

\* The step an echo is at, and the character it prints.
Fits(e) ==
  /\ e.at = "done" <=> e.text = <<>>
  /\ e.at \in Putting => Head(e.text) \notin {"newline", "back"}
  /\ e.at \in Backing => Head(e.text) = "back"

LEMMA StateIs ==
  ASSUME NEW text \in Echoed, NEW step \in Steps, NEW value \in 0..(UINT8 - 1), NEW place \in Nat
  PROVE  State(text, step, value, place) \in EchoStates
BY DEF State, EchoStates, Echoed

LEMMA EchoIs ==
  ASSUME NEW text \in Echoed
  PROVE  /\ Echo(text) \in EchoStates /\ Fits(Echo(text))
         /\ Echo(text).text = text /\ Echo(text).at = First(text)
         /\ First(text) \in {"done", "column", "home", "test"}
<1>1. First(text) \in {"done", "column", "home", "test"} BY DEF First
<1>2. First(text) \in Steps BY <1>1 DEF Steps
<1>3. Echo(text) \in EchoStates BY <1>2, StateIs, SizesIs DEF Echo
<1>4. Echo(text).text = text /\ Echo(text).at = First(text) BY DEF Echo, State
<1>5. Fits(Echo(text)) BY <1>4 DEF Fits, First, Putting, Backing
<1> QED BY <1>1, <1>3, <1>4, <1>5

LEMMA NextCharIs ==
  ASSUME NEW text \in Echoed, text # <<>>
  PROVE  Tail(text) \in Echoed /\ Head(text) \in Chars \cup {"newline"}
BY HeadTailProperties DEF Echoed

-----------------------------------------------------------------------------
(* The invariant.                                                          *)

\* The line of a process: as get_line has it, none, or a part given and the rest.
LineKept(p) ==
  /\ reading[p].waits =>
       /\ file[p].open /\ ~file[p].has /\ got[p] = <<>>
       /\ reading[p].buffer = wanted[p].text /\ reading[p].shifted = wanted[p].shift
  /\ ~reading[p].waits => echo[p].text = <<>> /\ ~reading[p].ended
  /\ ~reading[p].waits /\ ~file[p].has => wanted[p] = NewLine /\ got[p] = <<>>
  /\ file[p].has => file[p].open
  /\ file[p].has /\ ~wanted[p].lost => got[p] \o file[p].rest = wanted[p].text

Open == {"test width", "home"}
Erasing == <<"back", Space, "back">>
Blanking == <<Space, "back">>

\* The echo of a key that puts a character: a blank over the one erased, or the last
\* of the line; the column it goes to, from where the line begins; and the steps before
\* the character is in the text buffer, and after.
Puts(line, text) ==
  \/ text = Blanking
  \/ Len(line) > 0 /\ text = <<line[Len(line)]>> /\ line[Len(line)] \notin {"newline", "back"}
Column(line, text) == IF text = Blanking THEN Len(line) ELSE Len(line) - 1
Before == {"column", "row", "cell"}
After == {"load column", "store column"}

\* The cursor of s is in column n of a line that begins at o, and the first n
\* characters of the line are on the screen.
Inside(s, o, n) == n <= s.col /\ Cursor(s) = o + n
OnScreen(line, o, s, n) == \A i \in 1..n : s.cells[o + i - 1] = line[i]

\* The line stands in one row of s from o on, and e echoes its last key.
Stands(line, o, s, e) ==
  /\ e.at \in {"done"} \cup Before \cup After \cup Open \cup Backing
  /\ e.at = "done" => e.text = <<>> /\ Inside(s, o, Len(line))
  /\ e.at \in Backing => e.text \in {Erasing, <<"back">>} /\ Inside(s, o, Len(line) + 1)
  /\ e.at \in Before \cup After => Puts(line, e.text) /\ Inside(s, o, Column(line, e.text))
  /\ e.at \in Open => Puts(line, e.text) /\ Inside(s, o, Column(line, e.text) + 1)
  /\ e.at \notin Before => OnScreen(line, o, s, Len(line))
  /\ e.at \in Before => OnScreen(line, o, s, Column(line, e.text))
  /\ e.at \in {"row", "store column", "store back"} => e.read = s.col
  /\ e.at = "cell" => e.cell = Cursor(s)

LineShown(p) ==
  reading[p].waits /\ origin[p] # Nowhere => Stands(wanted[p].text, origin[p], screen, echo[p])

KeptInv == \A p \in Procs : LineKept(p)
FitInv == \A p \in Procs : Fits(echo[p])
ShownInv == \A p \in Procs : LineShown(p)
IInv == TypeOK /\ KeptInv /\ FitInv /\ ShownInv /\ CursorComesBack

LEMMA InitInv == ConsoleInit => IInv
<1> SUFFICES ASSUME ConsoleInit PROVE IInv OBVIOUS
<1>1. <<>> \in Lines /\ <<>> \in Echoed BY DEF Lines, Echoed
<1>2. "NUL" \in Chars BY CharsIs
<1>3. MaxCalls \in Nat BY ConsoleAssumption
<1>4. screen \in Screens /\ screen.row < VGA_HEIGHT /\ screen.col < VGA_WIDTH
  BY <1>2, SizesIs DEF ConsoleInit, Screens
<1>5. Silence \in EchoStates /\ Fits(Silence)
  <2>1. Silence = Echo(<<>>) BY DEF Silence, Echo, First
  <2> QED BY <1>1, <2>1, EchoIs
<1>6. TypeOK
  <2>1. /\ NoLine \in [open : BOOLEAN, has : BOOLEAN, rest : Lines]
        /\ NoCall \in [buffer : Lines, shifted : BOOLEAN, grown : BOOLEAN, ended : BOOLEAN,
                       waits : BOOLEAN, amount : Nat]
        /\ NewLine \in [text : Lines, shift : BOOLEAN, lost : BOOLEAN]
    BY <1>1 DEF NoLine, NoCall, Call, NewLine
  <2>2. strayed \in BOOLEAN /\ zero \in [Procs -> BOOLEAN] BY DEF ConsoleInit
  <2>3. /\ calls \in 0..MaxCalls /\ origin \in [Procs -> Nat \cup {Nowhere}]
        /\ got \in [Procs -> Lines]
    BY <1>1, <1>3 DEF ConsoleInit
  <2> QED BY <1>4, <1>5, <2>1, <2>2, <2>3 DEF ConsoleInit, TypeOK
<1>7. KeptInv BY DEF ConsoleInit, KeptInv, LineKept, NoLine, NoCall, Call, NewLine, Silence, State
<1>8. FitInv BY <1>5 DEF ConsoleInit, FitInv
<1>9. ShownInv BY DEF ConsoleInit, ShownInv, LineShown, NoCall, Call
<1>10. CursorComesBack BY <1>4, CursorIs, SizesIs DEF CursorComesBack
<1> QED BY <1>6, <1>7, <1>8, <1>9, <1>10 DEF IInv

-----------------------------------------------------------------------------
(* What a step leaves alone.                                               *)

LEMMA KeptSame ==
  ASSUME NEW q \in Procs, LineKept(q), reading'[q] = reading[q], file'[q] = file[q],
         got'[q] = got[q], wanted'[q] = wanted[q], echo'[q] = echo[q]
  PROVE  LineKept(q)'
BY DEF LineKept

LEMMA ShownSame ==
  ASSUME NEW q \in Procs, LineShown(q), reading'[q].waits => reading[q].waits,
         wanted'[q] = wanted[q], echo'[q] = echo[q],
         origin'[q] = Nowhere \/ (origin'[q] = origin[q] /\ screen' = screen)
  PROVE  LineShown(q)'
BY DEF LineShown

\* The cursor behind the last column or row, after a step of p or of nobody's echo.
LEMMA BackSame ==
  ASSUME CursorComesBack, \A q \in Procs : echo'[q].at = echo[q].at,
         strayed => strayed',
         screen'.row >= VGA_HEIGHT => screen.row >= VGA_HEIGHT,
         screen'.col >= VGA_WIDTH => screen.col >= VGA_WIDTH
  PROVE  CursorComesBack'
BY DEF CursorComesBack, HeightOpen, WidthOpen

LEMMA BackStep ==
  ASSUME CursorComesBack, NEW p \in Procs, \A q \in Procs : q # p => echo'[q] = echo[q],
         strayed => strayed',
         screen'.row >= VGA_HEIGHT =>
           HeightOpen(p)' \/ (screen.row >= VGA_HEIGHT /\ ~HeightOpen(p)),
         screen'.col >= VGA_WIDTH =>
           strayed' \/ WidthOpen(p)' \/ (screen.col >= VGA_WIDTH /\ ~WidthOpen(p))
  PROVE  CursorComesBack'
<1>1. \A q \in Procs : q # p => (HeightOpen(q)' <=> HeightOpen(q)) /\ (WidthOpen(q)' <=> WidthOpen(q))
  BY DEF HeightOpen, WidthOpen
<1>2. screen'.row >= VGA_HEIGHT => \E q \in Procs : HeightOpen(q)'
  BY <1>1 DEF CursorComesBack
<1>3. screen'.col >= VGA_WIDTH => strayed' \/ \E q \in Procs : WidthOpen(q)'
  BY <1>1 DEF CursorComesBack
<1> QED BY <1>2, <1>3 DEF CursorComesBack, HeightOpen, WidthOpen

\* A step that prints at once, and does no more.
LEMMA PrintStep ==
  ASSUME IInv, NEW s \in Near(screen), Shown(s), Counted,
         UNCHANGED <<fileVars, reading, echo, strayed>>
  PROVE  IInv'
<1>1. /\ screen' = s /\ origin' = [q \in Procs |-> Nowhere] /\ s \in Screens
      /\ calls < MaxCalls /\ calls' = calls + 1 /\ calls \in 0..MaxCalls
      /\ UNCHANGED <<file, wanted, got, zero, reading, echo, strayed>>
  BY DEF Shown, Counted, IInv, TypeOK, Near, fileVars
<1>2. TypeOK'
  <2>1. calls' \in 0..MaxCalls BY <1>1, ConsoleAssumption
  <2> QED BY <1>1, <2>1 DEF IInv, TypeOK
<1>3. KeptInv' BY <1>1, KeptSame DEF IInv, KeptInv
<1>4. ShownInv' BY <1>1, ShownSame DEF IInv, ShownInv
<1>5. FitInv' BY <1>1 DEF IInv, FitInv
<1>6. CursorComesBack' BY <1>1, BackSame DEF IInv, Near
<1> QED BY <1>2, <1>3, <1>4, <1>5, <1>6 DEF IInv

\* A step that changes a file that waits for no line, and prints nothing.
LEMMA FileStep ==
  ASSUME IInv, TypeOK', NEW p \in Procs, ~reading[p].waits, LineKept(p)',
         \A q \in Procs : q # p =>
           file'[q] = file[q] /\ wanted'[q] = wanted[q] /\ got'[q] = got[q],
         UNCHANGED <<screen, reading, echo, origin, strayed>>
  PROVE  IInv'
<1>1. KeptInv'
  <2>1. ASSUME NEW q \in Procs, q # p PROVE LineKept(q)' BY <2>1, KeptSame DEF IInv, KeptInv
  <2> QED BY <2>1 DEF KeptInv
<1>2. ShownInv'
  <2>1. ASSUME NEW q \in Procs, q # p PROVE LineShown(q)'
    BY <2>1, ShownSame DEF IInv, ShownInv
  <2>2. LineShown(p)' BY DEF LineShown
  <2> QED BY <2>1, <2>2 DEF ShownInv
<1>3. FitInv' BY DEF IInv, FitInv
<1>4. CursorComesBack' BY BackSame DEF IInv
<1> QED BY <1>1, <1>2, <1>3, <1>4 DEF IInv

LEMMA OpenStep ==
  ASSUME IInv, NEW p \in Procs, tty_open(p)
  PROVE  IInv'
<1>1. /\ file' = [file EXCEPT ![p] = NoLine] /\ zero' = [zero EXCEPT ![p] = FALSE]
      /\ UNCHANGED <<screen, reading, echo, wanted, got, origin, strayed, calls>>
      /\ ~reading[p].waits /\ ~file[p].open /\ TypeOK /\ LineKept(p)
  BY DEF tty_open, Idle, IInv, KeptInv
<1>2. NoLine \in [open : BOOLEAN, has : BOOLEAN, rest : Lines] /\ ~NoLine.has
  BY DEF NoLine, Lines
<1>3. TypeOK' BY <1>1, <1>2 DEF TypeOK
<1>4. file'[p] = NoLine BY <1>1 DEF TypeOK
<1>5. LineKept(p)' BY <1>1, <1>2, <1>4 DEF LineKept
<1>6. \A q \in Procs : q # p => file'[q] = file[q] BY <1>1 DEF TypeOK
<1> QED BY <1>1, <1>3, <1>5, <1>6, FileStep

\* Closing a file drops its line, and so does the read that returns 0.
LEMMA DropStep ==
  ASSUME IInv, NEW p \in Procs, tty_close(p) \/ ReadEnd(p)
  PROVE  IInv'
<1>1. PICK new \in {Closed, NoLine} :
        /\ file' = [file EXCEPT ![p] = new] /\ wanted' = [wanted EXCEPT ![p] = NewLine]
        /\ got' = [got EXCEPT ![p] = <<>>]
        /\ zero' = zero \/ zero' = [zero EXCEPT ![p] = TRUE]
        /\ UNCHANGED <<screen, reading, echo, origin, strayed, calls>>
  BY DEF tty_close, ReadEnd
<1>2. ~reading[p].waits /\ TypeOK /\ LineKept(p)
  BY DEF tty_close, ReadEnd, Idle, IInv, KeptInv
<1>3. <<>> \in Lines BY DEF Lines
<1>4. new \in [open : BOOLEAN, has : BOOLEAN, rest : Lines] /\ ~new.has
  <2>1. CASE new = NoLine BY <1>3, <2>1 DEF NoLine
  <2>2. CASE new = Closed BY <1>3, <2>2 DEF Closed
  <2> QED BY <2>1, <2>2
<1>5. NewLine \in [text : Lines, shift : BOOLEAN, lost : BOOLEAN] BY <1>3 DEF NewLine
<1>6. TypeOK' BY <1>1, <1>2, <1>3, <1>4, <1>5 DEF TypeOK
<1>7. /\ file'[p] = new /\ wanted'[p] = NewLine /\ got'[p] = <<>> /\ reading' = reading
      /\ echo' = echo
  BY <1>1, <1>2 DEF TypeOK
<1>8. LineKept(p)' BY <1>2, <1>4, <1>7 DEF LineKept
<1>9. \A q \in Procs : q # p =>
        file'[q] = file[q] /\ wanted'[q] = wanted[q] /\ got'[q] = got[q]
  BY <1>1, <1>2 DEF TypeOK
<1>10. UNCHANGED <<screen, reading, echo, origin, strayed>> BY <1>1
<1> QED BY <1>2, <1>6, <1>8, <1>9, <1>10, FileStep

LEMMA ReadStep ==
  ASSUME IInv, NEW p \in Procs, NEW amount \in Amounts, tty_read(p, amount)
  PROVE  IInv'
<1>1. /\ HandOver(p, file[p].rest, amount) /\ file[p].has /\ ~reading[p].waits
      /\ UNCHANGED <<screen, reading, echo, wanted, origin, strayed, calls>>
      /\ TypeOK /\ LineKept(p)
  BY DEF tty_read, Idle, IInv, KeptInv
<1>2. amount \in Nat /\ file[p].rest \in Lines BY <1>1, ConsoleAssumption DEF TypeOK
<1>3. /\ file' \in [Procs -> [open : BOOLEAN, has : BOOLEAN, rest : Lines]]
      /\ got' \in [Procs -> Lines] /\ zero' \in [Procs -> BOOLEAN]
      /\ file'[p].open /\ file'[p].has
      /\ got'[p] \o file'[p].rest = got[p] \o file[p].rest
      /\ \A q \in Procs : q # p => file'[q] = file[q] /\ got'[q] = got[q]
  BY <1>1, <1>2, HandOverIs
<1>4. TypeOK' BY <1>1, <1>3 DEF TypeOK
<1>5. LineKept(p)' BY <1>1, <1>3 DEF LineKept
<1> QED BY <1>1, <1>3, <1>4, <1>5, FileStep

LEMMA FailStep ==
  ASSUME IInv, NEW p \in Procs, ReadFails(p)
  PROVE  IInv'
<1>1. /\ zero' = [zero EXCEPT ![p] = TRUE] /\ ~reading[p].waits
      /\ UNCHANGED <<screen, file, reading, echo, wanted, got, origin, strayed, calls>>
  BY DEF ReadFails, Idle
<1>2. TypeOK' BY <1>1 DEF IInv, TypeOK
<1>3. LineKept(p)' BY <1>1, KeptSame DEF IInv, KeptInv
<1> QED BY <1>1, <1>2, <1>3, FileStep

-----------------------------------------------------------------------------
(* The keys.                                                               *)

\* A step of get_line of p.
LEMMA KeyStep ==
  ASSUME IInv, TypeOK', NEW p \in Procs, LineKept(p)', LineShown(p)', Fits(echo'[p]),
         CursorComesBack',
         \A q \in Procs : q # p =>
           /\ reading'[q] = reading[q] /\ file'[q] = file[q] /\ echo'[q] = echo[q]
           /\ wanted'[q] = wanted[q] /\ got'[q] = got[q]
           /\ origin'[q] = Nowhere \/ (origin'[q] = origin[q] /\ screen' = screen)
  PROVE  IInv'
<1>1. KeptInv' BY KeptSame DEF IInv, KeptInv
<1>2. ShownInv' BY ShownSame DEF IInv, ShownInv
<1>3. FitInv' BY DEF IInv, FitInv
<1> QED BY <1>1, <1>2, <1>3 DEF IInv

LEMMA LineStep ==
  ASSUME IInv, NEW p \in Procs, NEW amount \in Amounts, ReadLine(p, amount)
  PROVE  IInv'
<1> DEFINE call == Call(TRUE, amount)
<1>1. /\ reading' = [reading EXCEPT ![p] = call]
      /\ origin' = [origin EXCEPT ![p] = Cursor(screen)]
      /\ zero' = [zero EXCEPT ![p] = FALSE]
      /\ UNCHANGED <<screen, echo, file, wanted, got, strayed>>
      /\ ~reading[p].waits /\ file[p].open /\ ~file[p].has
      /\ calls < MaxCalls /\ calls' = calls + 1
      /\ TypeOK /\ LineKept(p) /\ Fits(echo[p]) /\ calls \in 0..MaxCalls
  BY DEF ReadLine, Counted, Idle, IInv, KeptInv, FitInv, TypeOK
<1>2. amount \in Nat /\ MaxCalls \in Nat BY ConsoleAssumption
<1>3. call = [buffer |-> <<>>, shifted |-> FALSE, grown |-> FALSE, ended |-> FALSE,
              waits |-> TRUE, amount |-> amount]
  BY DEF Call
<1>4. call \in [buffer : Lines, shifted : BOOLEAN, grown : BOOLEAN, ended : BOOLEAN,
                waits : BOOLEAN, amount : Nat]
  <2>1. <<>> \in Lines BY DEF Lines
  <2> QED BY <1>2, <2>1 DEF Call
<1>5. Cursor(screen) \in Nat BY <1>1, CursorIs DEF TypeOK
<1>6. calls' \in 0..MaxCalls BY <1>1, <1>2
<1> HIDE DEF call
<1>7. TypeOK' BY <1>1, <1>4, <1>5, <1>6 DEF TypeOK
<1>8. reading'[p] = call /\ origin'[p] = Cursor(screen) BY <1>1 DEF TypeOK
<1>9. wanted[p] = NewLine /\ got[p] = <<>> /\ echo[p].text = <<>> BY <1>1 DEF LineKept
<1>10. LineKept(p)'
  <2>1. reading'[p].waits /\ reading'[p].buffer = <<>> /\ reading'[p].shifted = FALSE
    BY <1>3, <1>8
  <2>2. wanted'[p].text = <<>> /\ wanted'[p].shift = FALSE /\ got'[p] = <<>>
    BY <1>1, <1>9 DEF NewLine
  <2>3. file' = file BY <1>1
  <2>4. reading'[p].shifted = wanted'[p].shift BY <2>1, <2>2
  <2> QED BY <1>1, <2>1, <2>2, <2>3, <2>4 DEF LineKept
<1>11. LineShown(p)'
  <2>1. wanted[p].text = <<>> /\ Len(wanted[p].text) = 0 BY <1>9 DEF NewLine
  <2>2. screen.col \in Nat BY <1>1, CursorIs DEF TypeOK
  <2>3. echo[p].at = "done" BY <1>1, <1>9 DEF Fits
  <2>4. Inside(screen, Cursor(screen), 0) BY <1>5, <2>2 DEF Inside
  <2>5. OnScreen(wanted[p].text, Cursor(screen), screen, 0) BY DEF OnScreen
  <2>6. Stands(wanted[p].text, Cursor(screen), screen, echo[p])
    BY <1>9, <2>1, <2>3, <2>4, <2>5 DEF Stands, Backing, Before, After, Open
  <2> QED BY <1>1, <1>8, <2>6 DEF LineShown
<1>12. \A q \in Procs : q # p =>
         /\ reading'[q] = reading[q] /\ file'[q] = file[q] /\ echo'[q] = echo[q]
         /\ wanted'[q] = wanted[q] /\ got'[q] = got[q]
         /\ origin'[q] = origin[q] /\ screen' = screen
  BY <1>1 DEF TypeOK
<1>13. CursorComesBack' BY <1>1, BackSame DEF IInv
<1> QED BY <1>1, <1>7, <1>10, <1>11, <1>12, <1>13, KeyStep

LEMMA ShiftStep ==
  ASSUME IInv, NEW p \in Procs, NEW pressed \in BOOLEAN, ShiftKey(p, pressed)
  PROVE  IInv'
<1>1. /\ reading' = [reading EXCEPT ![p].shifted = pressed]
      /\ wanted' = [wanted EXCEPT ![p].shift = pressed]
      /\ UNCHANGED <<screen, echo, file, got, zero, origin, strayed, calls>>
      /\ TypeOK /\ LineKept(p) /\ LineShown(p) /\ Fits(echo[p]) /\ reading[p].waits
  BY DEF ShiftKey, WithShift, Fetching, IInv, KeptInv, ShownInv, FitInv
<1>2. TypeOK' BY <1>1 DEF TypeOK
<1>3. /\ reading'[p].waits /\ reading'[p].buffer = reading[p].buffer
      /\ reading'[p].shifted = pressed
      /\ wanted'[p].text = wanted[p].text /\ wanted'[p].shift = pressed
  BY <1>1 DEF TypeOK
<1>4. LineKept(p)' BY <1>1, <1>3 DEF LineKept
<1>5. LineShown(p)' BY <1>1, <1>3 DEF LineShown
<1>6. \A q \in Procs : q # p => reading'[q] = reading[q] /\ wanted'[q] = wanted[q]
  BY <1>1 DEF TypeOK
<1>7. CursorComesBack' BY <1>1, BackSame DEF IInv
<1> QED BY <1>1, <1>2, <1>4, <1>5, <1>6, <1>7, KeyStep

\* A key that begins an echo.
LEMMA BeginStep ==
  ASSUME IInv, NEW p \in Procs, NEW text \in Echoed, NEW stays \in BOOLEAN,
         reading[p].waits, echo[p].text = <<>>, BeginsEcho(p, text, stays),
         NEW r \in [buffer : Lines, shifted : BOOLEAN, grown : BOOLEAN, ended : BOOLEAN,
                    waits : BOOLEAN, amount : Nat],
         NEW w \in [text : Lines, shift : BOOLEAN, lost : BOOLEAN],
         reading' = [reading EXCEPT ![p] = r], wanted' = [wanted EXCEPT ![p] = w],
         r.waits, r.buffer = w.text, r.shifted = w.shift, calls' \in 0..MaxCalls,
         stays /\ origin[p] # Nowhere => Stands(w.text, origin[p], screen, Echo(text))
  PROVE  IInv'
<1>1. /\ echo' = [echo EXCEPT ![p] = Echo(text)]
      /\ origin' = [origin EXCEPT ![p] = IF stays THEN @ ELSE Nowhere]
      /\ UNCHANGED <<screen, file, got, zero, strayed>>
      /\ TypeOK /\ LineKept(p) /\ Fits(echo[p])
  BY DEF BeginsEcho, IInv, KeptInv, FitInv
<1>2. Echo(text) \in EchoStates /\ Fits(Echo(text)) BY EchoIs
<1>3. TypeOK' BY <1>1, <1>2 DEF TypeOK
<1>4. /\ reading'[p] = r /\ wanted'[p] = w /\ echo'[p] = Echo(text)
      /\ origin'[p] = Nowhere \/ (stays /\ origin'[p] = origin[p])
  BY <1>1 DEF TypeOK
<1>5. LineKept(p)' BY <1>1, <1>4 DEF LineKept
<1>6. LineShown(p)' BY <1>1, <1>4 DEF LineShown
<1>7. \A q \in Procs : q # p =>
        /\ reading'[q] = reading[q] /\ wanted'[q] = wanted[q] /\ echo'[q] = echo[q]
        /\ origin'[q] = origin[q]
  BY <1>1 DEF TypeOK
<1>8. CursorComesBack'
  <2>1. echo[p].at = "done" BY <1>1 DEF Fits
  <2>2. ~HeightOpen(p) /\ ~WidthOpen(p) BY <2>1 DEF HeightOpen, WidthOpen
  <2> QED BY <1>1, <1>7, <2>2, BackStep DEF IInv
<1> QED BY <1>1, <1>2, <1>3, <1>4, <1>5, <1>6, <1>7, <1>8, KeyStep

\* The texts of a backspace.
LEMMA BackTexts ==
  /\ Erasing \in Echoed /\ Blanking \in Echoed /\ <<"back">> \in Echoed /\ <<>> \in Echoed
  /\ Erasing # <<>> /\ Head(Erasing) = "back" /\ Tail(Erasing) = Blanking
  /\ Blanking # <<>> /\ Head(Blanking) = Space /\ Tail(Blanking) = <<"back">>
  /\ Len(Blanking) = 2 /\ <<"back">> # <<>> /\ Head(<<"back">>) = "back" /\ Tail(<<"back">>) = <<>>
  /\ Space \notin {"newline", "back"}
<1>1. {"back", Space} \subseteq Chars BY CharsIs
<1>2. /\ Erasing \in Echoed /\ Blanking \in Echoed /\ <<"back">> \in Echoed /\ <<>> \in Echoed
  BY <1>1 DEF Erasing, Blanking, Echoed
<1>3. Space \notin {"newline", "back"} BY DEF Space
<1> QED BY <1>2, <1>3 DEF Erasing, Blanking

\* A line on the screen, when nothing is echoed.
LEMMA IdleIs ==
  ASSUME NEW line \in Lines, NEW o, NEW s, NEW e, e.text = <<>>, Fits(e), Stands(line, o, s, e)
  PROVE  Inside(s, o, Len(line)) /\ OnScreen(line, o, s, Len(line)) /\ Len(line) \in Nat
<1>1. e.at = "done" BY DEF Fits
<1>2. Len(line) \in Nat BY LenProperties DEF Lines
<1> QED BY <1>1, <1>2 DEF Stands, Before

\* A backspace, before it is echoed.
LEMMA ErasedIs ==
  ASSUME NEW line \in Lines, Len(line) > 0, NEW o, NEW s, NEW e, e.text = <<>>, Fits(e),
         Stands(line, o, s, e)
  PROVE  Stands(Front(line), o, s, Echo(Erasing))
<1>1. Inside(s, o, Len(line)) /\ OnScreen(line, o, s, Len(line)) /\ Len(line) \in Nat BY IdleIs
<1>2. /\ Len(Front(line)) = Len(line) - 1
      /\ \A i \in 1..(Len(line) - 1) : Front(line)[i] = line[i]
  BY FrontIs
<1>3. Echo(Erasing).text = Erasing /\ Echo(Erasing).at = "test"
  BY EchoIs, BackTexts DEF First
<1>4. OnScreen(Front(line), o, s, Len(Front(line))) BY <1>1, <1>2 DEF OnScreen
<1>5. Inside(s, o, Len(Front(line)) + 1)
  <2>1. Len(Front(line)) + 1 = Len(line) BY <1>1, <1>2
  <2> QED BY <1>1, <2>1
<1> QED BY <1>3, <1>4, <1>5 DEF Stands, Backing, Before, After, Open

\* A letter, before it is echoed.
LEMMA LongerIs ==
  ASSUME NEW line \in Lines, NEW c \in Chars, c \notin {"newline", "back"}, NEW o, NEW s,
         NEW e, e.text = <<>>, Fits(e), Stands(line, o, s, e)
  PROVE  Stands(Append(line, c), o, s, Echo(<<c>>))
<1> DEFINE longer == Append(line, c)
<1>1. Inside(s, o, Len(line)) /\ OnScreen(line, o, s, Len(line)) /\ Len(line) \in Nat BY IdleIs
<1>2. /\ Len(longer) = Len(line) + 1 /\ longer[Len(line) + 1] = c
      /\ \A i \in 1..Len(line) : longer[i] = line[i]
  BY AppendProperties DEF Lines
<1>3. <<c>> # <<>> /\ Head(<<c>>) = c /\ <<c>> # Blanking /\ <<c>> \in Echoed
  BY DEF Echoed, Blanking
<1>4. First(<<c>>) = "column" BY <1>3 DEF First
<1>5. Echo(<<c>>).text = <<c>> /\ Echo(<<c>>).at = "column" BY <1>3, <1>4, EchoIs
<1> HIDE DEF longer
<1>6. Len(longer) > 0 /\ longer[Len(longer)] = c /\ Len(longer) - 1 = Len(line) BY <1>1, <1>2
<1>7. Column(longer, <<c>>) = Len(line) BY <1>3, <1>6 DEF Column
<1>8. Puts(longer, <<c>>) BY <1>6 DEF Puts
<1>9. OnScreen(longer, o, s, Len(line)) BY <1>1, <1>2 DEF OnScreen
<1>10. Stands(longer, o, s, Echo(<<c>>))
  BY <1>1, <1>5, <1>7, <1>8, <1>9 DEF Stands, Backing, Before, After, Open
<1> QED BY <1>10 DEF longer

LEMMA BackspaceStep ==
  ASSUME IInv, NEW p \in Procs, BackspaceKey(p)
  PROVE  IInv'
<1> DEFINE line == wanted[p].text
           r == [reading[p] EXCEPT !.buffer = Front(line)]
           w == [wanted[p] EXCEPT !.text = Front(line)]
<1>1. /\ reading[p].waits /\ echo[p].text = <<>> /\ Len(line) > 0
      /\ BeginsEcho(p, Erasing, TRUE) /\ TypeOK /\ LineKept(p) /\ LineShown(p)
      /\ reading[p].buffer = line /\ reading[p].shifted = wanted[p].shift /\ line \in Lines
      /\ Counted
  BY DEF BackspaceKey, Fetching, Length, IInv, KeptInv, ShownInv, LineKept, TypeOK, Erasing
<1>2. reading' = [reading EXCEPT ![p] = r] /\ wanted' = [wanted EXCEPT ![p] = w]
  BY <1>1 DEF BackspaceKey, WithoutLast, TypeOK
<1>3. /\ Front(line) \in Lines /\ Len(Front(line)) = Len(line) - 1 /\ Len(line) \in Nat
      /\ \A i \in 1..(Len(line) - 1) : Front(line)[i] = line[i]
  BY <1>1, FrontIs, LenProperties DEF Lines
<1>4. /\ r \in [buffer : Lines, shifted : BOOLEAN, grown : BOOLEAN, ended : BOOLEAN,
                waits : BOOLEAN, amount : Nat]
      /\ w \in [text : Lines, shift : BOOLEAN, lost : BOOLEAN]
  BY <1>1, <1>3 DEF TypeOK
<1>5. r.waits /\ r.buffer = w.text /\ r.shifted = w.shift /\ w.text = Front(line)
  BY <1>1 DEF TypeOK
<1>6. calls' \in 0..MaxCalls BY <1>1, ConsoleAssumption DEF Counted, TypeOK
<1>7. Erasing \in Echoed BY BackTexts
<1>8. ASSUME origin[p] # Nowhere
      PROVE  Stands(Front(line), origin[p], screen, Echo(Erasing))
  <2>1. Stands(line, origin[p], screen, echo[p]) BY <1>1, <1>8 DEF LineShown
  <2>2. Fits(echo[p]) BY DEF IInv, FitInv
  <2> QED BY <1>1, <2>1, <2>2, ErasedIs
<1> HIDE DEF r, w, line
<1> QED BY <1>1, <1>2, <1>4, <1>5, <1>6, <1>7, <1>8, BeginStep

LEMMA KeyIs ==
  ASSUME NEW k \in LetterKeys, NEW shifted \in BOOLEAN
  PROVE  /\ keycode_to_ascii(k, shifted) \in Chars
         /\ keycode_to_ascii(k, shifted) \notin {"newline", "return", "back"}
<1>1. k[1] \in Chars /\ k[2] \in Chars BY CharsIs
<1>2. {k[1], k[2]} \cap {"newline", "return", "back"} = {} BY ConsoleAssumption
<1>3. k[1] \notin {"newline", "return", "back"} /\ k[2] \notin {"newline", "return", "back"}
  BY <1>2
<1> QED BY <1>1, <1>3 DEF keycode_to_ascii

LEMMA LetterStep ==
  ASSUME IInv, NEW p \in Procs, NEW k \in LetterKeys, LetterKey(p, k)
  PROVE  IInv'
<1> DEFINE c == keycode_to_ascii(k, reading[p].shifted)
           line == wanted[p].text
           longer == Append(line, c)
           text == IF c = "tab" THEN [i \in 1..TAB |-> Space] ELSE <<c>>
           r == [reading[p] EXCEPT !.buffer = longer, !.grown = TRUE]
           w == [wanted[p] EXCEPT !.text = longer]
<1>1. /\ reading[p].waits /\ echo[p].text = <<>>
      /\ BeginsEcho(p, text, c # "tab") /\ TypeOK /\ LineKept(p) /\ LineShown(p)
      /\ reading[p].buffer = line /\ reading[p].shifted = wanted[p].shift /\ line \in Lines
      /\ Counted /\ reading[p].shifted \in BOOLEAN
  BY DEF LetterKey, Fetching, IInv, KeptInv, ShownInv, LineKept, TypeOK
<1>2. c \in Chars /\ c \notin {"newline", "return", "back"} BY <1>1, KeyIs
<1>3. reading' = [reading EXCEPT ![p] = r] BY <1>1 DEF LetterKey, TypeOK
<1>4. wanted' = [wanted EXCEPT ![p] = w]
  <2>1. WithKey(wanted[p], k) = w BY <1>1 DEF WithKey, keycode_to_ascii
  <2>2. wanted' = [wanted EXCEPT ![p] = WithKey(wanted[p], k)] BY DEF LetterKey
  <2> QED BY <2>1, <2>2
<1>5. /\ longer \in Lines /\ Len(line) \in Nat /\ Len(longer) = Len(line) + 1
      /\ \A i \in 1..Len(line) : longer[i] = line[i]
      /\ longer[Len(line) + 1] = c
  BY <1>1, <1>2, LenProperties, AppendProperties DEF Lines
<1> HIDE DEF longer, c
<1>6. /\ r \in [buffer : Lines, shifted : BOOLEAN, grown : BOOLEAN, ended : BOOLEAN,
                waits : BOOLEAN, amount : Nat]
      /\ w \in [text : Lines, shift : BOOLEAN, lost : BOOLEAN]
  <2> HIDE DEF line
  <2>1. reading[p] \in [buffer : Lines, shifted : BOOLEAN, grown : BOOLEAN, ended : BOOLEAN,
                        waits : BOOLEAN, amount : Nat]
    BY <1>1 DEF TypeOK
  <2>2. wanted[p] \in [text : Lines, shift : BOOLEAN, lost : BOOLEAN] BY <1>1 DEF TypeOK
  <2> QED BY <1>5, <2>1, <2>2
<1>7. r.waits /\ r.buffer = w.text /\ r.shifted = w.shift /\ w.text = longer
  BY <1>1 DEF TypeOK
<1>8. calls' \in 0..MaxCalls BY <1>1, ConsoleAssumption DEF Counted, TypeOK
<1>9. text \in Echoed
  <2>1. Space \in Chars BY CharsIs
  <2>2. TAB \in Nat BY SizesIs
  <2>3. [i \in 1..TAB |-> Space] \in Echoed BY <2>1, <2>2 DEF Echoed
  <2>4. <<c>> \in Echoed BY <1>2 DEF Echoed
  <2> QED BY <2>3, <2>4
<1>10. ASSUME c # "tab", origin[p] # Nowhere
       PROVE  Stands(longer, origin[p], screen, Echo(text))
  <2>1. Stands(line, origin[p], screen, echo[p]) BY <1>1, <1>10 DEF LineShown
  <2>2. Fits(echo[p]) BY DEF IInv, FitInv
  <2>3. text = <<c>> BY <1>10
  <2> HIDE DEF line, text
  <2> QED BY <1>1, <1>2, <2>1, <2>2, <2>3, LongerIs DEF longer
<1> HIDE DEF r, w, line, text
<1> QED BY <1>1, <1>3, <1>4, <1>6, <1>7, <1>8, <1>9, <1>10, BeginStep

LEMMA EnterStep ==
  ASSUME IInv, NEW p \in Procs, EnterKey(p)
  PROVE  IInv'
<1> DEFINE r == [reading[p] EXCEPT !.ended = TRUE]
<1>1. /\ reading[p].waits /\ echo[p].text = <<>> /\ BeginsEcho(p, <<"newline">>, FALSE)
      /\ reading' = [reading EXCEPT ![p] = r] /\ UNCHANGED <<wanted, calls>>
      /\ TypeOK /\ LineKept(p)
  BY DEF EnterKey, Fetching, IInv, KeptInv, TypeOK
<1>2. /\ r \in [buffer : Lines, shifted : BOOLEAN, grown : BOOLEAN, ended : BOOLEAN,
                waits : BOOLEAN, amount : Nat]
      /\ r.waits /\ r.buffer = wanted[p].text /\ r.shifted = wanted[p].shift
  BY <1>1 DEF TypeOK, LineKept
<1>3. /\ wanted[p] \in [text : Lines, shift : BOOLEAN, lost : BOOLEAN]
      /\ wanted' = [wanted EXCEPT ![p] = wanted[p]] /\ calls' \in 0..MaxCalls
  BY <1>1 DEF TypeOK
<1>4. <<"newline">> \in Echoed BY DEF Echoed
<1> HIDE DEF r
<1> QED BY <1>1, <1>2, <1>3, <1>4, BeginStep

\* The end of a line: what get_line returns to the read is handed over, and the process
\* waits no more.
LEMMA ReturnStep ==
  ASSUME IInv, NEW p \in Procs, reading[p].waits, echo[p].text = <<>>, NEW line \in Lines,
         Return(p, line),
         wanted' \in [Procs -> [text : Lines, shift : BOOLEAN, lost : BOOLEAN]],
         wanted'[p].lost \/ wanted'[p].text = line,
         \A q \in Procs : q # p => wanted'[q] = wanted[q]
  PROVE  IInv'
<1>1. /\ TypeOK /\ LineKept(p) /\ reading[p].amount \in Nat /\ Fits(echo[p])
      /\ reading' = [reading EXCEPT ![p] = NoCall]
      /\ origin' = [origin EXCEPT ![p] = Nowhere]
      /\ HandOver(p, line, reading[p].amount)
      /\ UNCHANGED <<screen, echo, strayed, calls>>
  BY DEF IInv, KeptInv, FitInv, TypeOK, Return
<1>2. /\ file' \in [Procs -> [open : BOOLEAN, has : BOOLEAN, rest : Lines]]
      /\ got' \in [Procs -> Lines] /\ zero' \in [Procs -> BOOLEAN]
      /\ file'[p].open /\ file'[p].has
      /\ got'[p] \o file'[p].rest = got[p] \o line
      /\ \A q \in Procs : q # p => file'[q] = file[q] /\ got'[q] = got[q]
  BY <1>1, HandOverIs
<1>3. NoCall \in [buffer : Lines, shifted : BOOLEAN, grown : BOOLEAN, ended : BOOLEAN,
                  waits : BOOLEAN, amount : Nat]
  <2>1. <<>> \in Lines BY DEF Lines
  <2> QED BY <2>1 DEF NoCall, Call
<1>4. reading' \in [Procs -> [buffer : Lines, shifted : BOOLEAN, grown : BOOLEAN, ended : BOOLEAN,
                             waits : BOOLEAN, amount : Nat]]
  BY <1>1, <1>3 DEF TypeOK
<1>5. TypeOK' BY <1>1, <1>2, <1>4 DEF TypeOK
<1>6. ~reading'[p].waits /\ ~reading'[p].ended BY <1>1 DEF TypeOK, NoCall, Call
<1>7. got[p] \o line = line
  <2>1. got[p] = <<>> BY <1>1 DEF LineKept
  <2>2. \A x \in Seq(Chars) : <<>> \o x = x BY ConcatEmptySeq
  <2> QED BY <2>1, <2>2 DEF Lines
<1>8. LineKept(p)' BY <1>1, <1>2, <1>6, <1>7 DEF LineKept
<1>9. LineShown(p)' BY <1>6 DEF LineShown
<1>10. \A q \in Procs : q # p => reading'[q] = reading[q] /\ origin'[q] = origin[q]
  BY <1>1 DEF TypeOK
<1>11. CursorComesBack' BY <1>1, BackSame DEF IInv
<1> QED BY <1>1, <1>2, <1>5, <1>8, <1>9, <1>10, <1>11, KeyStep

LEMMA ReturnLineStep ==
  ASSUME IInv, NEW p \in Procs, ReturnLine(p)
  PROVE  IInv'
<1>1. /\ reading[p].ended /\ echo[p].text = <<>> /\ Return(p, reading[p].buffer)
      /\ wanted' = wanted /\ TypeOK /\ LineKept(p)
  BY DEF ReturnLine, IInv, KeptInv
<1>2. reading[p].waits /\ reading[p].buffer \in Lines /\ wanted[p].text = reading[p].buffer
  BY <1>1 DEF TypeOK, LineKept
<1>3. wanted' \in [Procs -> [text : Lines, shift : BOOLEAN, lost : BOOLEAN]]
  BY <1>1 DEF TypeOK
<1> QED BY <1>1, <1>2, <1>3, ReturnStep

LEMMA CannotGrowStep ==
  ASSUME IInv, NEW p \in Procs, NEW k \in LetterKeys, NEW garbage \in {<<>>, <<"garbage">>},
         CannotGrow(p, k, garbage)
  PROVE  IInv'
<1> DEFINE line == <<keycode_to_ascii(k, reading[p].shifted)>> \o garbage
<1>1. /\ reading[p].waits /\ echo[p].text = <<>> /\ Return(p, line)
      /\ wanted' = [wanted EXCEPT ![p].lost = TRUE] /\ TypeOK
  BY DEF CannotGrow, Fetching, IInv
<1>2. line \in Lines
  <2>1. reading[p].shifted \in BOOLEAN BY <1>1 DEF TypeOK
  <2>2. keycode_to_ascii(k, reading[p].shifted) \in Chars BY <2>1, KeyIs
  <2>3. <<keycode_to_ascii(k, reading[p].shifted)>> \in Seq(Chars) BY <2>2
  <2>4. "garbage" \in Chars BY CharsIs
  <2>5. garbage \in Seq(Chars)
    <3>1. <<>> \in Seq(Chars) /\ <<"garbage">> \in Seq(Chars) BY <2>4
    <3> QED BY <3>1
  <2> QED BY <2>3, <2>5, ConcatProperties DEF Lines
<1> HIDE DEF line
<1>3. wanted' \in [Procs -> [text : Lines, shift : BOOLEAN, lost : BOOLEAN]]
  BY <1>1 DEF TypeOK
<1>4. wanted'[p].lost /\ \A q \in Procs : q # p => wanted'[q] = wanted[q]
  BY <1>1 DEF TypeOK
<1> QED BY <1>1, <1>2, <1>3, <1>4, ReturnStep

-----------------------------------------------------------------------------
(* The accesses of an echo, and the line on the screen.                    *)

\* A step that stores nothing.
LEMMA StandsMoves ==
  ASSUME NEW line, NEW o, NEW s, NEW e, Stands(line, o, s, e), NEW f, f.text = e.text,
         NEW stage \in {Before, After, Open, Backing}, e.at \in stage, f.at \in stage,
         f.at \in {"row", "store column", "store back"} => f.read = s.col,
         f.at = "cell" => f.cell = Cursor(s)
  PROVE  Stands(line, o, s, f)
<1>1. CASE stage = Before BY <1>1 DEF Stands, Before, After, Open, Backing
<1>2. CASE stage = After BY <1>2 DEF Stands, Before, After, Open, Backing
<1>3. CASE stage = Open BY <1>3 DEF Stands, Before, After, Open, Backing
<1>4. CASE stage = Backing BY <1>4 DEF Stands, Before, After, Open, Backing
<1> QED BY <1>1, <1>2, <1>3, <1>4

\* The character an echo puts.
LEMMA PutsIs ==
  ASSUME NEW line \in Lines, NEW text, Puts(line, text)
  PROVE  /\ Len(line) \in Nat /\ Column(line, text) \in Nat /\ text # <<>>
         /\ \/ /\ Column(line, text) = Len(line) /\ Tail(text) = <<"back">>
            \/ /\ Column(line, text) + 1 = Len(line) /\ Tail(text) = <<>>
               /\ Len(line) > 0 /\ Head(text) = line[Len(line)]
<1>1. Len(line) \in Nat BY LenProperties DEF Lines
<1>2. CASE text = Blanking BY <1>1, <1>2, BackTexts DEF Column
<1>3. CASE text # Blanking
  <2>1. Len(line) > 0 /\ text = <<line[Len(line)]>> BY <1>3 DEF Puts
  <2>2. Head(text) = line[Len(line)] /\ Tail(text) = <<>> /\ text # <<>> BY <2>1
  <2>3. Column(line, text) = Len(line) - 1 BY <1>3 DEF Column
  <2>4. Len(line) > 0 BY <2>1
  <2>5. Column(line, text) \in Nat /\ Column(line, text) + 1 = Len(line)
    BY <1>1, <2>3, <2>4
  <2> QED BY <1>1, <2>2, <2>4, <2>5
<1> QED BY <1>2, <1>3

\* The cursor moves in its row.
LEMMA InsideMoves ==
  ASSUME NEW o \in Nat, NEW n \in Nat, NEW s \in Screens, NEW t \in Screens, t.row = s.row
  PROVE  /\ t.col = s.col => (Inside(s, o, n) => Inside(t, o, n)) /\ Cursor(t) = Cursor(s)
         /\ t.col = s.col + 1 /\ Inside(s, o, n) => Inside(t, o, n + 1)
         /\ t.col = s.col - 1 /\ Inside(s, o, n + 1) => Inside(t, o, n)
<1>1. s.col \in Nat /\ s.row * VGA_WIDTH \in Nat BY CursorIs
<1>2. t.col = s.col + 1 => Cursor(t) = Cursor(s) + 1 BY <1>1 DEF Cursor
<1>3. t.col = s.col - 1 => Cursor(t) = Cursor(s) - 1 BY <1>1 DEF Cursor
<1>4. t.col = s.col => Cursor(t) = Cursor(s) BY <1>1 DEF Cursor
<1>5. Cursor(s) \in Nat BY CursorIs
<1> QED BY <1>1, <1>2, <1>3, <1>4, <1>5 DEF Inside

LEMMA PlaceIs ==
  ASSUME NEW o \in Nat, NEW n \in Nat, NEW i \in 1..n
  PROVE  o + i - 1 \in Nat /\ o + i - 1 <= o + n /\ o + i - 1 # o + n
OBVIOUS

LEMMA LastPlaceIs == \A o, n \in Nat : o + (n + 1) - 1 = o + n
OBVIOUS

LEMMA WrittenAt ==
  ASSUME NEW s \in Screens, NEW i \in Cells, NEW c \in Chars, NEW contents,
         contents = Written(s.cells, i, c)
  PROVE  /\ contents \in [Cells -> Chars] /\ contents[i] = c
         /\ \A j \in Cells : j # i => contents[j] = s.cells[j]
<1>1. s.cells \in [Cells -> Chars] BY DEF Screens
<1> QED BY <1>1, WrittenIs

\* The write.
WritesCell(s, t, i, c) == t.row = s.row /\ t.col = s.col /\ t.cells = Written(s.cells, i, c)

LEMMA ScreenWritten ==
  ASSUME NEW line, NEW o \in Nat, NEW n \in Nat, NEW s \in Screens, NEW i \in Cells,
         NEW c \in Chars, Inside(s, o, n), OnScreen(line, o, s, n), i = Cursor(s),
         NEW t \in Screens, WritesCell(s, t, i, c)
  PROVE  /\ Inside(t, o, n) /\ OnScreen(line, o, t, n)
         /\ line[n + 1] = c => OnScreen(line, o, t, n + 1)
<1>1. Inside(t, o, n) BY InsideMoves DEF WritesCell
<1>2. i = o + n BY DEF Inside
<1>3. t.cells[i] = c /\ \A j \in Cells : j # i => t.cells[j] = s.cells[j]
  BY WrittenAt DEF WritesCell
<1>4. ASSUME NEW j \in 1..n PROVE t.cells[o + j - 1] = line[j]
  <2>1. o + j - 1 \in Nat /\ o + j - 1 <= i /\ o + j - 1 # i BY <1>2, PlaceIs
  <2>2. o + j - 1 \in Cells BY <2>1, CellsBelow
  <2> QED BY <1>3, <2>1, <2>2 DEF OnScreen
<1>5. ASSUME line[n + 1] = c, NEW j \in 1..(n + 1) PROVE t.cells[o + j - 1] = line[j]
  <2>1. CASE j = n + 1
    <3>1. o + j - 1 = i BY <1>2, <2>1, LastPlaceIs
    <3> QED BY <1>3, <1>5, <2>1, <3>1
  <2>2. CASE j # n + 1
    <3>1. j \in 1..n BY <2>2
    <3> QED BY <1>4, <3>1
  <2> QED BY <2>1, <2>2
<1> QED BY <1>1, <1>4, <1>5 DEF OnScreen

LEMMA StandsWritten ==
  ASSUME NEW line \in Lines, NEW o \in Nat, NEW s \in Screens, NEW e, Stands(line, o, s, e),
         e.at = "cell", NEW i \in Cells, e.cell = i, NEW c \in Chars, c = Head(e.text),
         NEW f, f.text = e.text, f.at = "load column",
         NEW t \in Screens, WritesCell(s, t, i, c)
  PROVE  Stands(line, o, t, f)
<1> DEFINE n == Column(line, e.text)
<1>1. Puts(line, e.text) /\ Inside(s, o, n) /\ OnScreen(line, o, s, n) /\ i = Cursor(s)
  BY DEF Stands, Before, After, Open, Backing
<1>2. /\ n \in Nat
      /\ n = Len(line) \/ (c = line[Len(line)] /\ n + 1 = Len(line))
  BY <1>1, PutsIs
<1> HIDE DEF n
<1>3. /\ Inside(t, o, n) /\ OnScreen(line, o, t, n)
      /\ line[n + 1] = c => OnScreen(line, o, t, n + 1)
  <2>1. n \in Nat BY <1>2
  <2> QED BY <1>1, <2>1, ScreenWritten
<1>4. OnScreen(line, o, t, Len(line)) BY <1>2, <1>3
<1> QED BY <1>1, <1>3, <1>4 DEF Stands, Before, After, Open, Backing, n

\* The column, one more; the last one of a byte is followed by 0.
LEMMA StandsAdvanced ==
  ASSUME NEW line \in Lines, NEW o \in Nat, NEW s \in Screens, NEW e, Stands(line, o, s, e),
         e.at = "store column", Next8(e.read) # 0,
         NEW f, f.text = e.text, f.at = "test width",
         NEW t \in Screens, t.row = s.row, t.col = Next8(e.read), t.cells = s.cells
  PROVE  Stands(line, o, t, f)
<1> DEFINE n == Column(line, e.text)
<1>1. /\ Puts(line, e.text) /\ Inside(s, o, n) /\ OnScreen(line, o, s, Len(line))
      /\ e.read = s.col
  BY DEF Stands, Before, After, Open, Backing
<1>2. n \in Nat BY <1>1, PutsIs
<1> HIDE DEF n
<1>3. s.col \in 0..(UINT8 - 1) BY DEF Screens
<1>4. t.col = s.col + 1 BY <1>1, <1>3, BytesIs
<1>5. Inside(t, o, n + 1) BY <1>1, <1>2, <1>4, InsideMoves
<1>6. OnScreen(line, o, t, Len(line)) BY <1>1 DEF OnScreen
<1> QED BY <1>1, <1>5, <1>6 DEF Stands, Before, After, Open, Backing, n

\* The end of a character that is written.
LEMMA StandsPut ==
  ASSUME NEW line \in Lines, NEW o, NEW s, NEW e, Stands(line, o, s, e),
         e.at = "test width", e.text \in Echoed
  PROVE  Stands(line, o, s, Echo(Tail(e.text)))
<1> DEFINE n == Column(line, e.text)
           f == Echo(Tail(e.text))
<1>1. /\ Puts(line, e.text) /\ Inside(s, o, n + 1) /\ OnScreen(line, o, s, Len(line))
  BY DEF Stands, Before, After, Open, Backing
<1>2. /\ Len(line) \in Nat /\ e.text # <<>>
      /\ \/ n = Len(line) /\ Tail(e.text) = <<"back">>
         \/ n + 1 = Len(line) /\ Tail(e.text) = <<>>
  BY <1>1, PutsIs
<1>3. Tail(e.text) \in Echoed BY <1>2, NextCharIs
<1>4. f.text = Tail(e.text) /\ f.at = First(Tail(e.text)) BY <1>3, EchoIs
<1> HIDE DEF n, f
<1>5. CASE n = Len(line) /\ Tail(e.text) = <<"back">>
  <2>1. f.at = "test" BY <1>4, <1>5, BackTexts DEF First
  <2> QED BY <1>1, <1>4, <1>5, <2>1 DEF Stands, Before, After, Open, Backing, f
<1>6. CASE n + 1 = Len(line) /\ Tail(e.text) = <<>>
  <2>1. f.at = "done" BY <1>4, <1>6 DEF First
  <2> QED BY <1>1, <1>4, <1>6, <2>1 DEF Stands, Before, After, Open, Backing, f
<1> QED BY <1>2, <1>5, <1>6

\* The cursor is not in column 0 before a '\b'.
LEMMA BackIs ==
  ASSUME NEW line \in Lines, NEW o, NEW s \in Screens, NEW e, Stands(line, o, s, e),
         e.at \in Backing
  PROVE  /\ Len(line) \in Nat /\ Inside(s, o, Len(line) + 1) /\ s.col > 0
         /\ e.text \in {Erasing, <<"back">>} /\ OnScreen(line, o, s, Len(line))
<1>1. Len(line) \in Nat BY LenProperties DEF Lines
<1>2. /\ e.text \in {Erasing, <<"back">>} /\ Inside(s, o, Len(line) + 1)
      /\ OnScreen(line, o, s, Len(line))
  BY DEF Stands, Before, After, Open, Backing
<1>3. s.col \in Nat BY CursorIs
<1>4. Len(line) + 1 <= s.col BY <1>2 DEF Inside
<1>5. s.col > 0 BY <1>1, <1>3, <1>4
<1> QED BY <1>1, <1>2, <1>5

LEMMA StandsBack ==
  ASSUME NEW line \in Lines, NEW o \in Nat, NEW s \in Screens, NEW e, Stands(line, o, s, e),
         e.at = "store back", e.text \in Echoed,
         NEW t \in Screens, t.row = s.row, t.col = Previous8(e.read), t.cells = s.cells
  PROVE  Stands(line, o, t, Echo(Tail(e.text)))
<1> DEFINE f == Echo(Tail(e.text))
<1>1. /\ Len(line) \in Nat /\ Inside(s, o, Len(line) + 1) /\ s.col > 0
      /\ e.text \in {Erasing, <<"back">>} /\ OnScreen(line, o, s, Len(line))
  BY BackIs DEF Backing
<1>2. s.col \in 0..(UINT8 - 1) /\ e.read = s.col BY DEF Screens, Stands
<1>3. t.col = s.col - 1 BY <1>1, <1>2, BytesIs
<1>4. Inside(t, o, Len(line)) BY <1>1, <1>3, InsideMoves
<1>5. OnScreen(line, o, t, Len(line)) BY <1>1 DEF OnScreen
<1>6. Inside(t, o, Len(line)) /\ OnScreen(line, o, t, Len(line)) BY <1>4, <1>5
<1>7. e.text # <<>> /\ (Tail(e.text) = Blanking \/ Tail(e.text) = <<>>) BY <1>1, BackTexts
<1>8. Tail(e.text) \in Echoed BY <1>7, NextCharIs
<1>9. f.text = Tail(e.text) /\ f.at = First(Tail(e.text)) BY <1>8, EchoIs
<1> HIDE DEF f
<1>10. CASE Tail(e.text) = Blanking
  <2>1. f.at = "column" BY <1>9, <1>10, BackTexts DEF First
  <2>2. Puts(line, Blanking) /\ Column(line, Blanking) = Len(line) BY DEF Puts, Column
  <2> QED BY <1>6, <1>9, <1>10, <2>1, <2>2 DEF Stands, Before, After, Open, Backing, f
<1>11. CASE Tail(e.text) = <<>>
  <2>1. f.at = "done" BY <1>9, <1>11 DEF First
  <2> QED BY <1>6, <1>9, <1>11, <2>1 DEF Stands, Before, After, Open, Backing, f
<1> QED BY <1>7, <1>10, <1>11

-----------------------------------------------------------------------------
(* The steps of an echo.                                                   *)

\* What holds before each of them.
LEMMA AtIs ==
  ASSUME IInv, NEW p \in Procs, echo[p].at # "done"
  PROVE  /\ echo[p].text \in Echoed /\ echo[p].text # <<>> /\ Fits(echo[p])
         /\ echo[p].read \in 0..(UINT8 - 1) /\ echo[p].cell \in Nat
         /\ screen \in Screens /\ screen.col \in 0..(UINT8 - 1) /\ screen.row \in 0..(UINT8 - 1)
         /\ Cursor(screen) \in Nat /\ wanted[p].text \in Lines
         /\ origin[p] # Nowhere =>
              origin[p] \in Nat /\ Stands(wanted[p].text, origin[p], screen, echo[p])
<1>1. TypeOK /\ Fits(echo[p]) /\ LineKept(p) /\ LineShown(p)
  BY DEF IInv, FitInv, KeptInv, ShownInv
<1>2. /\ echo[p].text \in Echoed /\ echo[p].read \in 0..(UINT8 - 1) /\ echo[p].cell \in Nat
      /\ screen \in Screens /\ wanted[p].text \in Lines
  BY <1>1 DEF TypeOK, EchoStates, Echoed
<1>3. echo[p].text # <<>> BY <1>1 DEF Fits
<1>4. reading[p].waits BY <1>1, <1>3 DEF LineKept
<1>5. origin[p] # Nowhere => origin[p] \in Nat BY <1>1 DEF TypeOK
<1>6. screen.col \in 0..(UINT8 - 1) /\ screen.row \in 0..(UINT8 - 1) BY <1>2 DEF Screens
<1>7. Cursor(screen) \in Nat BY <1>2, CursorIs
<1> QED BY <1>1, <1>2, <1>3, <1>4, <1>5, <1>6, <1>7 DEF LineShown

Tall == {"test height", "scroll", "last row"}

\* A step of the echo of p that goes on with e.
LEMMA EchoStep ==
  ASSUME IInv, NEW p \in Procs, echo[p].at # "done", NEW e \in EchoStates, Fits(e), GoesOn(p, e),
         screen' \in Screens, strayed' \in BOOLEAN, strayed => strayed',
         origin' \in [Procs -> Nat \cup {Nowhere}],
         \A q \in Procs : q # p =>
           origin'[q] = Nowhere \/ (origin'[q] = origin[q] /\ screen' = screen),
         origin'[p] # Nowhere => Stands(wanted[p].text, origin'[p], screen', e),
         screen'.row >= VGA_HEIGHT =>
           e.at \in Tall \/ (screen.row >= VGA_HEIGHT /\ echo[p].at \notin Tall),
         screen'.col >= VGA_WIDTH =>
           strayed' \/ e.at \in Open \/ (screen.col >= VGA_WIDTH /\ echo[p].at \notin Open)
  PROVE  IInv'
<1>1. /\ echo' = [echo EXCEPT ![p] = e]
      /\ UNCHANGED <<file, wanted, got, zero, reading, calls>>
      /\ TypeOK /\ LineKept(p) /\ Fits(echo[p])
  BY DEF GoesOn, fileVars, IInv, KeptInv, FitInv
<1>2. echo'[p] = e /\ \A q \in Procs : q # p => echo'[q] = echo[q] BY <1>1 DEF TypeOK
<1>3. TypeOK' BY <1>1 DEF TypeOK
<1>4. echo[p].text # <<>> BY <1>1 DEF Fits
<1>5. reading[p].waits BY <1>1, <1>4 DEF LineKept
<1>6. LineKept(p)' BY <1>1, <1>5 DEF LineKept
<1>7. LineShown(p)' BY <1>1, <1>2 DEF LineShown
<1>8. CursorComesBack'
  <2>1. /\ HeightOpen(p) <=> echo[p].at \in Tall
        /\ WidthOpen(p) <=> echo[p].at \in Open
        /\ HeightOpen(p)' <=> e.at \in Tall
        /\ WidthOpen(p)' <=> e.at \in Open
    BY <1>2 DEF HeightOpen, WidthOpen, Tall, Open
  <2>2. CursorComesBack BY DEF IInv
  <2> QED BY <1>2, <2>1, <2>2, BackStep
<1> QED BY <1>1, <1>2, <1>3, <1>6, <1>7, <1>8, KeyStep

\* A step that stores nothing.
LEMMA QuietStep ==
  ASSUME IInv, NEW p \in Procs, echo[p].at # "done", NEW e \in EchoStates, Fits(e), GoesOn(p, e),
         UNCHANGED <<screen, origin, strayed>>,
         origin[p] # Nowhere => Stands(wanted[p].text, origin[p], screen, e),
         echo[p].at \in Tall => e.at \in Tall \/ screen.row < VGA_HEIGHT,
         echo[p].at \in Open => e.at \in Open \/ screen.col < VGA_WIDTH
  PROVE  IInv'
<1>1. /\ screen \in Screens /\ strayed \in BOOLEAN /\ origin \in [Procs -> Nat \cup {Nowhere}]
  BY DEF IInv, TypeOK
<1>2. screen.row \in Nat /\ screen.col \in Nat BY <1>1, CursorIs
<1>3. screen.row >= VGA_HEIGHT => e.at \in Tall \/ echo[p].at \notin Tall BY <1>2, SizesIs
<1>4. screen.col >= VGA_WIDTH => e.at \in Open \/ echo[p].at \notin Open BY <1>2, SizesIs
<1> QED BY <1>1, <1>3, <1>4, EchoStep

\* A step that stores.
LEMMA StoreStep ==
  ASSUME IInv, NEW p \in Procs, echo[p].at # "done", NEW e \in EchoStates, Fits(e), GoesOn(p, e),
         NEW s \in Screens, NEW stays \in BOOLEAN, Stores(p, s, stays),
         strayed' \in BOOLEAN, strayed => strayed',
         stays /\ origin[p] # Nowhere => Stands(wanted[p].text, origin[p], s, e),
         s.row >= VGA_HEIGHT =>
           e.at \in Tall \/ (screen.row >= VGA_HEIGHT /\ echo[p].at \notin Tall),
         s.col >= VGA_WIDTH =>
           strayed' \/ e.at \in Open \/ (screen.col >= VGA_WIDTH /\ echo[p].at \notin Open)
  PROVE  IInv'
<1>1. screen' = s /\ origin' = [q \in Procs |-> IF q = p /\ stays THEN origin[q] ELSE Nowhere]
  BY DEF Stores
<1>2. origin \in [Procs -> Nat \cup {Nowhere}] BY DEF IInv, TypeOK
<1>3. /\ origin' \in [Procs -> Nat \cup {Nowhere}] /\ \A q \in Procs : q # p => origin'[q] = Nowhere
      /\ origin'[p] # Nowhere => stays /\ origin'[p] = origin[p]
  BY <1>1, <1>2
<1> QED BY <1>1, <1>3, EchoStep

LEMMA ZeroIs == 0 \in 0..(UINT8 - 1) /\ 0 \in Nat
BY SizesIs

\* The echo of the same character, at another step.
AtSame(e, p, step, value, place) ==
  /\ e \in EchoStates /\ Fits(e)
  /\ e.text = echo[p].text /\ e.at = step /\ e.read = value /\ e.cell = place

LEMMA GoOnIs ==
  ASSUME IInv, NEW p \in Procs, echo[p].at # "done", NEW step \in Steps, step # "done",
         NEW value \in 0..(UINT8 - 1), NEW place \in Nat,
         step \in Putting => echo[p].at \in Putting,
         step \in Backing => echo[p].at \in Backing,
         NEW e, e = State(echo[p].text, step, value, place)
  PROVE  AtSame(e, p, step, value, place)
<1>1. echo[p].text \in Echoed /\ echo[p].text # <<>> /\ Fits(echo[p]) BY AtIs
<1>2. e.text = echo[p].text /\ e.at = step /\ e.read = value /\ e.cell = place BY DEF State
<1>3. e \in EchoStates BY <1>1, StateIs
<1>4. Fits(e) BY <1>1, <1>2 DEF Fits
<1> QED BY <1>2, <1>3, <1>4 DEF AtSame

LEMMA ThenIs ==
  ASSUME IInv, NEW p \in Procs, echo[p].at # "done", NEW step \in Steps, step # "done",
         step \in Putting => echo[p].at \in Putting,
         step \in Backing => echo[p].at \in Backing
  PROVE  /\ Then(p, step) \in EchoStates /\ Fits(Then(p, step))
         /\ Then(p, step).text = echo[p].text /\ Then(p, step).at = step
<1>1. Then(p, step) = State(echo[p].text, step, 0, 0) BY DEF Then
<1>2. AtSame(Then(p, step), p, step, 0, 0) BY <1>1, ZeroIs, GoOnIs
<1> QED BY <1>2 DEF AtSame

\* The echo of the next character.
LEMMA NextIs ==
  ASSUME IInv, NEW p \in Procs, echo[p].at # "done"
  PROVE  /\ NextChar(p) = Echo(Tail(echo[p].text)) /\ NextChar(p) \in EchoStates
         /\ Fits(NextChar(p)) /\ NextChar(p).at \notin Tall
<1>1. Tail(echo[p].text) \in Echoed BY AtIs, NextCharIs
<1> QED BY <1>1, EchoIs DEF NextChar, Tall

\* A step that reads and goes on with the same character.
LEMMA MoveStep ==
  ASSUME IInv, NEW p \in Procs, NEW step \in Steps, NEW value \in 0..(UINT8 - 1), NEW place \in Nat,
         NEW stage \in {Before, After, Open, Backing}, echo[p].at \in stage, step \in stage,
         step # "test width",
         step \in {"row", "store column", "store back"} => value = screen.col,
         step = "cell" => (origin[p] # Nowhere => place = Cursor(screen)),
         GoesOn(p, State(echo[p].text, step, value, place)),
         UNCHANGED <<screen, origin, strayed>>
  PROVE  IInv'
<1> DEFINE e == State(echo[p].text, step, value, place)
<1>1. e = State(echo[p].text, step, value, place) /\ GoesOn(p, e) OBVIOUS
<1> HIDE DEF e
<1>2. /\ echo[p].at # "done" /\ step # "done"
      /\ step \in Putting => echo[p].at \in Putting
      /\ step \in Backing => echo[p].at \in Backing
      /\ echo[p].at \notin Tall /\ (echo[p].at \in Open => step \in Open)
  <2>1. CASE stage = Before BY <2>1 DEF Before, After, Open, Backing, Putting, Tall
  <2>2. CASE stage = After BY <2>2 DEF Before, After, Open, Backing, Putting, Tall
  <2>3. CASE stage = Open BY <2>3 DEF Before, After, Open, Backing, Putting, Tall
  <2>4. CASE stage = Backing BY <2>4 DEF Before, After, Open, Backing, Putting, Tall
  <2> QED BY <2>1, <2>2, <2>3, <2>4
<1>3. /\ e \in EchoStates /\ Fits(e)
      /\ e.text = echo[p].text /\ e.at = step /\ e.read = value /\ e.cell = place
  <2>1. /\ echo[p].at # "done" /\ step # "done"
        /\ step \in Putting => echo[p].at \in Putting
        /\ step \in Backing => echo[p].at \in Backing
    BY <1>2
  <2>2. e = State(echo[p].text, step, value, place) BY <1>1
  <2>3. AtSame(e, p, step, value, place) BY <2>1, <2>2, GoOnIs
  <2> QED BY <2>3 DEF AtSame
<1>4. ASSUME origin[p] # Nowhere PROVE Stands(wanted[p].text, origin[p], screen, e)
  <2>1. Stands(wanted[p].text, origin[p], screen, echo[p]) BY <1>2, <1>4, AtIs
  <2>2. /\ e.at \in {"row", "store column", "store back"} => e.read = screen.col
        /\ e.at = "cell" => e.cell = Cursor(screen)
    BY <1>3, <1>4
  <2>3. e.at \in stage BY <1>3
  <2> QED BY <1>3, <2>1, <2>2, <2>3, StandsMoves
<1> QED BY <1>1, <1>2, <1>3, <1>4, QuietStep

LEMMA ReadsStep ==
  ASSUME IInv, NEW p \in Procs, ReadColumn(p) \/ LoadColumn(p) \/ LoadBack(p)
  PROVE  IInv'
<1>1. PICK step \in {"row", "store column", "store back"} :
        /\ step = "row" => echo[p].at = "column"
        /\ step = "store column" => echo[p].at = "load column"
        /\ step = "store back" => echo[p].at = "load back"
        /\ Reads(p, screen.col, step)
  BY DEF ReadColumn, LoadColumn, LoadBack, AtStep
<1>2. echo[p].at # "done" BY <1>1
<1>3. screen.col \in 0..(UINT8 - 1) BY <1>2, AtIs
<1>4. /\ GoesOn(p, State(echo[p].text, step, screen.col, 0))
      /\ UNCHANGED <<screen, origin, strayed>>
  BY <1>1 DEF Reads
<1>5. PICK stage \in {Before, After, Backing} : echo[p].at \in stage /\ step \in stage
  BY <1>1 DEF Before, After, Backing
<1>6. step \in Steps /\ step \notin {"test width", "cell"} BY DEF Steps
<1> QED BY <1>1, <1>3, <1>4, <1>5, <1>6, ZeroIs, MoveStep

LEMMA ReadRowStep ==
  ASSUME IInv, NEW p \in Procs, ReadRow(p)
  PROVE  IInv'
<1> DEFINE place == echo[p].read + screen.row * VGA_WIDTH
<1>1. /\ echo[p].at = "row" /\ GoesOn(p, State(echo[p].text, "cell", 0, place))
      /\ UNCHANGED <<screen, origin, strayed>>
  BY DEF ReadRow, AtStep
<1>2. /\ echo[p].read \in 0..(UINT8 - 1) /\ screen \in Screens
      /\ origin[p] # Nowhere => Stands(wanted[p].text, origin[p], screen, echo[p])
  BY <1>1, AtIs
<1>3. place \in Nat
  <2>1. screen.row * VGA_WIDTH \in Nat /\ echo[p].read \in Nat BY <1>2, CursorIs, SizesIs
  <2> QED BY <2>1
<1>4. origin[p] # Nowhere => place = Cursor(screen)
  BY <1>1, <1>2 DEF Stands, Cursor
<1> HIDE DEF place
<1>5. /\ "cell" \in Steps /\ "cell" \notin {"test width", "row", "store column", "store back"}
      /\ "cell" \in Before /\ echo[p].at \in Before
  BY <1>1 DEF Steps, Before
<1> QED BY <1>1, <1>3, <1>4, <1>5, ZeroIs, MoveStep

LEMMA WriteCellStep ==
  ASSUME IInv, NEW p \in Procs, WriteCell(p)
  PROVE  IInv'
<1> DEFINE i == echo[p].cell
           c == Head(echo[p].text)
           s == IF i \in Cells THEN [screen EXCEPT !.cells = Written(@, i, c)] ELSE screen
           e == Then(p, "load column")
<1>1. /\ echo[p].at = "cell" /\ Stores(p, s, i \in Cells) /\ GoesOn(p, e) /\ strayed' = strayed
  BY DEF WriteCell, AtStep
<1>2. /\ echo[p].text \in Echoed /\ echo[p].text # <<>> /\ Fits(echo[p]) /\ i \in Nat
      /\ screen \in Screens /\ screen.row \in Nat /\ screen.col \in Nat
      /\ wanted[p].text \in Lines
      /\ origin[p] # Nowhere =>
           origin[p] \in Nat /\ Stands(wanted[p].text, origin[p], screen, echo[p])
  BY <1>1, AtIs, CursorIs
<1>3. c \in Chars
  <2>1. echo[p].at \in Putting BY <1>1 DEF Putting
  <2>2. c # "newline" BY <1>2, <2>1 DEF Fits
  <2> QED BY <1>2, <2>2, NextCharIs
<1>4. /\ e \in EchoStates /\ Fits(e) /\ e.text = echo[p].text /\ e.at = "load column"
  <2>1. /\ "load column" \in Steps /\ "load column" \notin Backing /\ echo[p].at \in Putting
    BY <1>1 DEF Steps, Backing, Putting
  <2> QED BY <1>1, <2>1, ThenIs
<1> HIDE DEF e, c, i
<1>5. s \in Screens /\ s.row = screen.row /\ s.col = screen.col
  <2>1. screen.cells \in [Cells -> Chars] BY <1>2 DEF Screens
  <2>2. Written(screen.cells, i, c) \in [Cells -> Chars] BY <1>3, <2>1, WrittenIs
  <2> QED BY <1>2, <2>2 DEF Screens
<1>6. i \in Cells => WritesCell(screen, s, i, c) BY <1>2, <1>5 DEF WritesCell, Screens
<1> HIDE DEF s
<1>7. i \in Cells /\ origin[p] # Nowhere => Stands(wanted[p].text, origin[p], s, e)
  BY <1>1, <1>2, <1>3, <1>4, <1>5, <1>6, StandsWritten DEF i, c
<1>8. echo[p].at \notin Tall \cup Open BY <1>1 DEF Tall, Open
<1>9. strayed' \in BOOLEAN BY <1>1 DEF IInv, TypeOK
<1>10. (i \in Cells) \in BOOLEAN OBVIOUS
<1> QED BY <1>1, <1>4, <1>5, <1>7, <1>8, <1>9, <1>10, StoreStep

LEMMA StoreColumnStep ==
  ASSUME IInv, NEW p \in Procs, StoreColumn(p)
  PROVE  IInv'
<1> DEFINE n == Next8(echo[p].read)
           s == [screen EXCEPT !.col = n]
           e == Then(p, "test width")
<1>1. /\ echo[p].at = "store column" /\ Stores(p, s, n # 0) /\ GoesOn(p, e) /\ strayed' = strayed
  BY DEF StoreColumn, AtStep
<1>2. /\ echo[p].read \in 0..(UINT8 - 1) /\ screen \in Screens /\ wanted[p].text \in Lines
      /\ origin[p] # Nowhere =>
           origin[p] \in Nat /\ Stands(wanted[p].text, origin[p], screen, echo[p])
  BY <1>1, AtIs
<1>3. n \in 0..(UINT8 - 1) BY <1>2, BytesIs
<1>4. e \in EchoStates /\ Fits(e) /\ e.text = echo[p].text /\ e.at = "test width"
  <2>1. /\ "test width" \in Steps /\ "test width" \notin Backing /\ echo[p].at \in Putting
    BY <1>1 DEF Steps, Backing, Putting
  <2> QED BY <1>1, <2>1, ThenIs
<1> HIDE DEF e, n
<1>5. /\ s \in Screens /\ s.row = screen.row /\ s.col = n /\ s.cells = screen.cells
  BY <1>2, <1>3 DEF Screens
<1> HIDE DEF s
<1>6. n # 0 /\ origin[p] # Nowhere => Stands(wanted[p].text, origin[p], s, e)
  BY <1>1, <1>2, <1>4, <1>5, StandsAdvanced DEF n
<1>7. echo[p].at \notin Tall \cup Open /\ e.at \in Open BY <1>1, <1>4 DEF Tall, Open
<1>8. strayed' \in BOOLEAN BY <1>1 DEF IInv, TypeOK
<1>9. (n # 0) \in BOOLEAN OBVIOUS
<1> QED BY <1>1, <1>4, <1>5, <1>6, <1>7, <1>8, <1>9, StoreStep

\* The tests: to the step they guard, or to the next character.
LEMMA TestWidthStep ==
  ASSUME IInv, NEW p \in Procs, TestWidth(p)
  PROVE  IInv'
<1>1. /\ echo[p].at = "test width" /\ UNCHANGED <<screen, origin, strayed>>
      /\ GoesOn(p, IF screen.col >= VGA_WIDTH THEN Then(p, "home") ELSE NextChar(p))
  BY DEF TestWidth, AtStep, Tests
<1>2. CASE screen.col >= VGA_WIDTH
  <2>1. GoesOn(p, State(echo[p].text, "home", 0, 0)) BY <1>1, <1>2 DEF Then
  <2>2. echo[p].at \in Open /\ "home" \in Open /\ "home" \in Steps
        /\ "home" \notin {"test width", "cell", "row", "store column", "store back"}
    BY <1>1 DEF Open, Steps
  <2> QED BY <1>1, <2>1, <2>2, ZeroIs, MoveStep
<1>3. CASE ~(screen.col >= VGA_WIDTH)
  <2> DEFINE e == NextChar(p)
  <2>1. e = Echo(Tail(echo[p].text)) /\ e \in EchoStates /\ Fits(e) /\ GoesOn(p, e)
    BY <1>1, <1>3, NextIs
  <2>2. screen \in Screens /\ echo[p].text \in Echoed /\ wanted[p].text \in Lines
        /\ (origin[p] # Nowhere => Stands(wanted[p].text, origin[p], screen, echo[p]))
    BY <1>1, AtIs
  <2> HIDE DEF e
  <2>3. origin[p] # Nowhere => Stands(wanted[p].text, origin[p], screen, e)
    BY <1>1, <2>1, <2>2, StandsPut
  <2>4. screen.col < VGA_WIDTH BY <1>3, <2>2, CursorIs, SizesIs
  <2>5. echo[p].at \notin Tall BY <1>1 DEF Tall
  <2> QED BY <1>1, <2>1, <2>3, <2>4, <2>5, QuietStep
<1> QED BY <1>2, <1>3

LEMMA TestColumnStep ==
  ASSUME IInv, NEW p \in Procs, TestColumn(p)
  PROVE  IInv'
<1>1. /\ echo[p].at = "test" /\ UNCHANGED <<screen, origin, strayed>>
      /\ GoesOn(p, IF screen.col > 0 THEN Then(p, "load back") ELSE NextChar(p))
  BY DEF TestColumn, AtStep, Tests
<1>2. echo[p].at \in Backing /\ echo[p].at \notin Tall \cup Open BY <1>1 DEF Backing, Tall, Open
<1>3. CASE screen.col > 0
  <2>1. GoesOn(p, State(echo[p].text, "load back", 0, 0)) BY <1>1, <1>3 DEF Then
  <2>2. /\ "load back" \in Backing /\ "load back" \in Steps
        /\ "load back" \notin {"test width", "cell", "row", "store column", "store back"}
    BY DEF Backing, Steps
  <2> QED BY <1>1, <1>2, <2>1, <2>2, ZeroIs, MoveStep
<1>4. CASE ~(screen.col > 0)
  <2>1. /\ NextChar(p) \in EchoStates /\ Fits(NextChar(p)) /\ GoesOn(p, NextChar(p))
    BY <1>1, <1>4, NextIs
  <2>2. screen \in Screens /\ wanted[p].text \in Lines
        /\ (origin[p] # Nowhere => Stands(wanted[p].text, origin[p], screen, echo[p]))
    BY <1>1, AtIs
  <2>3. origin[p] = Nowhere BY <1>2, <1>4, <2>2, BackIs
  <2> QED BY <1>1, <1>2, <2>1, <2>3, QuietStep
<1> QED BY <1>3, <1>4

LEMMA StoreBackStep ==
  ASSUME IInv, NEW p \in Procs, StoreBack(p)
  PROVE  IInv'
<1> DEFINE n == Previous8(echo[p].read)
           s == [screen EXCEPT !.col = n]
           e == NextChar(p)
<1>1. /\ echo[p].at = "store back" /\ Stores(p, s, TRUE) /\ GoesOn(p, e)
      /\ strayed' = (strayed \/ echo[p].read # screen.col \/ echo[p].read = 0)
  BY DEF StoreBack, AtStep
<1>2. /\ echo[p].read \in 0..(UINT8 - 1) /\ echo[p].text \in Echoed /\ screen \in Screens
      /\ wanted[p].text \in Lines
      /\ origin[p] # Nowhere =>
           origin[p] \in Nat /\ Stands(wanted[p].text, origin[p], screen, echo[p])
  BY <1>1, AtIs
<1>3. n \in 0..(UINT8 - 1) /\ (echo[p].read > 0 => n = echo[p].read - 1) BY <1>2, BytesIs
<1>4. e = Echo(Tail(echo[p].text)) /\ e \in EchoStates /\ Fits(e) BY <1>1, NextIs
<1> HIDE DEF e, n
<1>5. s \in Screens /\ s.row = screen.row /\ s.col = n /\ s.cells = screen.cells
  BY <1>2, <1>3 DEF Screens
<1> HIDE DEF s
<1>6. origin[p] # Nowhere => Stands(wanted[p].text, origin[p], s, e)
  BY <1>1, <1>2, <1>4, <1>5, StandsBack DEF n
<1>7. echo[p].at \notin Tall \cup Open BY <1>1 DEF Tall, Open
<1>8. strayed' \in BOOLEAN /\ (strayed => strayed') BY <1>1 DEF IInv, TypeOK
<1>9. s.col >= VGA_WIDTH => strayed' \/ screen.col >= VGA_WIDTH
  <2>1. \A k \in 0..(UINT8 - 1) : k # 0 => k > 0 /\ (k - 1 >= VGA_WIDTH => k >= VGA_WIDTH)
    BY SizesIs
  <2>2. ~strayed' => echo[p].read = screen.col /\ echo[p].read # 0 BY <1>1
  <2> QED BY <1>2, <1>3, <1>5, <2>1, <2>2
<1> QED BY <1>1, <1>4, <1>5, <1>6, <1>7, <1>8, <1>9, StoreStep

\* newline.
NewlineSteps == {"load row", "store row", "test height", "scroll", "last row"}

LEMMA GoneIs ==
  ASSUME IInv, NEW p \in Procs, echo[p].at \in NewlineSteps
  PROVE  /\ origin[p] = Nowhere /\ echo[p].at # "done"
         /\ echo[p].at \notin Open \cup Putting \cup Backing
<1>1. echo[p].at # "done" /\ echo[p].at \notin Open \cup Putting \cup Backing
  BY DEF NewlineSteps, Open, Putting, Backing
<1>2. origin[p] # Nowhere => Stands(wanted[p].text, origin[p], screen, echo[p])
  BY <1>1, AtIs
<1>3. ~Stands(wanted[p].text, origin[p], screen, echo[p])
  BY DEF Stands, NewlineSteps, Before, After, Open, Backing
<1> QED BY <1>1, <1>2, <1>3

\* The next step of a newline.
LEMMA NewlineGoes ==
  ASSUME IInv, NEW p \in Procs, echo[p].at # "done", NEW step \in NewlineSteps,
         NEW value \in 0..(UINT8 - 1), NEW place \in Nat,
         NEW e, e = State(echo[p].text, step, value, place)
  PROVE  AtSame(e, p, step, value, place)
<1>1. step \in Steps /\ step # "done" /\ step \notin Putting /\ step \notin Backing
  BY DEF NewlineSteps, Steps, Putting, Backing
<1> QED BY <1>1, GoOnIs

LEMMA NewlineThen ==
  ASSUME IInv, NEW p \in Procs, echo[p].at # "done", NEW step \in NewlineSteps
  PROVE  Then(p, step) \in EchoStates /\ Fits(Then(p, step)) /\ Then(p, step).at = step
<1>1. Then(p, step) = State(echo[p].text, step, 0, 0) BY DEF Then
<1>2. AtSame(Then(p, step), p, step, 0, 0) BY <1>1, ZeroIs, NewlineGoes
<1> QED BY <1>2 DEF AtSame

LEMMA HomeStep ==
  ASSUME IInv, NEW p \in Procs, Home(p)
  PROVE  IInv'
<1> DEFINE s == [screen EXCEPT !.col = 0]
           e == Then(p, "load row")
<1>1. echo[p].at = "home" /\ Stores(p, s, FALSE) /\ GoesOn(p, e) /\ strayed' = strayed
  BY DEF Home, AtStep
<1>2. screen \in Screens BY <1>1, AtIs
<1>3. "load row" \in NewlineSteps /\ echo[p].at \notin Tall /\ echo[p].at # "done"
  BY <1>1 DEF NewlineSteps, Tall
<1>4. e \in EchoStates /\ Fits(e) BY <1>3, NewlineThen
<1>5. s \in Screens /\ s.row = screen.row /\ s.col = 0 BY <1>2, ZeroIs DEF Screens
<1>6. ~(s.col >= VGA_WIDTH) BY <1>5, SizesIs
<1>7. strayed' \in BOOLEAN BY <1>1 DEF IInv, TypeOK
<1> HIDE DEF s, e
<1> QED BY <1>1, <1>3, <1>4, <1>5, <1>6, <1>7, StoreStep

LEMMA LoadRowStep ==
  ASSUME IInv, NEW p \in Procs, LoadRow(p)
  PROVE  IInv'
<1> DEFINE e == State(echo[p].text, "store row", screen.row, 0)
<1>1. echo[p].at = "load row" /\ GoesOn(p, e) /\ UNCHANGED <<screen, origin, strayed>>
  BY DEF LoadRow, AtStep, Reads
<1>2. /\ "store row" \in NewlineSteps /\ echo[p].at \in NewlineSteps /\ echo[p].at \notin Tall
  BY <1>1 DEF NewlineSteps, Tall
<1>3. origin[p] = Nowhere /\ echo[p].at # "done" /\ echo[p].at \notin Open BY <1>2, GoneIs
<1>4. screen.row \in 0..(UINT8 - 1) BY <1>3, AtIs
<1>5. e = State(echo[p].text, "store row", screen.row, 0) OBVIOUS
<1> HIDE DEF e
<1>6. AtSame(e, p, "store row", screen.row, 0) BY <1>2, <1>3, <1>4, <1>5, ZeroIs, NewlineGoes
<1>7. e \in EchoStates /\ Fits(e) BY <1>6 DEF AtSame
<1> QED BY <1>1, <1>2, <1>3, <1>7, QuietStep

LEMMA StoreRowStep ==
  ASSUME IInv, NEW p \in Procs, StoreRow(p)
  PROVE  IInv'
<1> DEFINE n == Next8(echo[p].read)
           s == [screen EXCEPT !.row = n]
           e == Then(p, "test height")
<1>1. echo[p].at = "store row" /\ Stores(p, s, FALSE) /\ GoesOn(p, e) /\ strayed' = strayed
  BY DEF StoreRow, AtStep
<1>2. "test height" \in NewlineSteps /\ echo[p].at \in NewlineSteps /\ "test height" \in Tall
  BY <1>1 DEF NewlineSteps, Tall
<1>3. echo[p].at # "done" /\ echo[p].at \notin Open BY <1>2, GoneIs
<1>4. screen \in Screens /\ n \in 0..(UINT8 - 1) BY <1>3, AtIs, BytesIs
<1>5. e \in EchoStates /\ Fits(e) /\ e.at \in Tall BY <1>2, <1>3, NewlineThen
<1> HIDE DEF n, e
<1>6. s \in Screens /\ s.col = screen.col BY <1>4 DEF Screens
<1>7. strayed' \in BOOLEAN BY <1>1 DEF IInv, TypeOK
<1> HIDE DEF s
<1> QED BY <1>1, <1>3, <1>5, <1>6, <1>7, StoreStep

LEMMA TestHeightStep ==
  ASSUME IInv, NEW p \in Procs, TestHeight(p)
  PROVE  IInv'
<1>1. /\ echo[p].at = "test height" /\ UNCHANGED <<screen, origin, strayed>>
      /\ GoesOn(p, IF screen.row >= VGA_HEIGHT THEN Then(p, "scroll") ELSE NextChar(p))
  BY DEF TestHeight, AtStep, Tests
<1>2. "scroll" \in NewlineSteps /\ echo[p].at \in NewlineSteps /\ "scroll" \in Tall
  BY <1>1 DEF NewlineSteps, Tall
<1>3. origin[p] = Nowhere /\ echo[p].at # "done" /\ echo[p].at \notin Open BY <1>2, GoneIs
<1>4. CASE screen.row >= VGA_HEIGHT
  <2>1. /\ Then(p, "scroll") \in EchoStates /\ Fits(Then(p, "scroll"))
        /\ Then(p, "scroll").at \in Tall
    BY <1>2, <1>3, NewlineThen
  <2>2. GoesOn(p, Then(p, "scroll")) BY <1>1, <1>4
  <2> QED BY <1>1, <1>3, <2>1, <2>2, QuietStep
<1>5. CASE ~(screen.row >= VGA_HEIGHT)
  <2>1. NextChar(p) \in EchoStates /\ Fits(NextChar(p)) BY <1>3, NextIs
  <2>2. GoesOn(p, NextChar(p)) BY <1>1, <1>5
  <2>3. screen.row < VGA_HEIGHT
    <3>1. screen \in Screens BY <1>3, AtIs
    <3>2. screen.row \in Nat BY <3>1, CursorIs
    <3> QED BY <1>5, <3>2, SizesIs
  <2> QED BY <1>1, <1>3, <2>1, <2>2, <2>3, QuietStep
<1> QED BY <1>4, <1>5

LEMMA ScrollStep ==
  ASSUME IInv, NEW p \in Procs, Scroll(p)
  PROVE  IInv'
<1> DEFINE i == echo[p].cell
           s == [screen EXCEPT !.cells = Written(@, i, Below(@, i))]
           e == IF i + 1 \in Cells THEN State(echo[p].text, "scroll", 0, i + 1)
                ELSE Then(p, "last row")
<1>1. echo[p].at = "scroll" /\ Stores(p, s, FALSE) /\ GoesOn(p, e) /\ strayed' = strayed
  BY DEF Scroll, AtStep
<1>2. /\ "scroll" \in NewlineSteps /\ "last row" \in NewlineSteps
      /\ echo[p].at \in NewlineSteps /\ "scroll" \in Tall /\ "last row" \in Tall
  BY <1>1 DEF NewlineSteps, Tall
<1>3. echo[p].at # "done" /\ echo[p].at \notin Open BY <1>2, GoneIs
<1>4. screen \in Screens /\ i \in Nat BY <1>3, AtIs
<1>5. e \in EchoStates /\ Fits(e) /\ e.at \in Tall
  <2>1. i + 1 \in Nat BY <1>4
  <2>2. CASE i + 1 \in Cells
    <3>1. e = State(echo[p].text, "scroll", 0, i + 1) BY <2>2
    <3> HIDE DEF e
    <3>2. AtSame(e, p, "scroll", 0, i + 1) BY <1>2, <1>3, <2>1, <3>1, ZeroIs, NewlineGoes
    <3> QED BY <1>2, <3>2 DEF AtSame
  <2>3. CASE i + 1 \notin Cells
    <3>1. e = Then(p, "last row") BY <2>3
    <3> HIDE DEF e
    <3> QED BY <1>2, <1>3, <3>1, NewlineThen
  <2> QED BY <2>2, <2>3
<1> HIDE DEF e, i
<1>6. s \in Screens /\ s.col = screen.col
  <2>1. screen.cells \in [Cells -> Chars] BY <1>4 DEF Screens
  <2>2. Below(screen.cells, i) \in Chars BY <2>1, CharsIs, WrittenIs
  <2>3. Written(screen.cells, i, Below(screen.cells, i)) \in [Cells -> Chars]
    BY <2>1, <2>2, WrittenIs
  <2> QED BY <1>4, <2>3 DEF Screens
<1>7. strayed' \in BOOLEAN BY <1>1 DEF IInv, TypeOK
<1> HIDE DEF s
<1> QED BY <1>1, <1>3, <1>5, <1>6, <1>7, StoreStep

LEMMA LastRowStep ==
  ASSUME IInv, NEW p \in Procs, LastRow(p)
  PROVE  IInv'
<1> DEFINE s == [screen EXCEPT !.row = VGA_HEIGHT - 1]
           e == NextChar(p)
<1>1. echo[p].at = "last row" /\ Stores(p, s, FALSE) /\ GoesOn(p, e) /\ strayed' = strayed
  BY DEF LastRow, AtStep
<1>2. echo[p].at \in NewlineSteps BY <1>1 DEF NewlineSteps
<1>3. echo[p].at # "done" /\ echo[p].at \notin Open BY <1>2, GoneIs
<1>4. screen \in Screens /\ VGA_HEIGHT - 1 \in 0..(UINT8 - 1) BY <1>3, AtIs, SizesIs
<1>5. e \in EchoStates /\ Fits(e) BY <1>3, NextIs
<1> HIDE DEF e
<1>6. s \in Screens /\ s.col = screen.col /\ s.row = VGA_HEIGHT - 1 BY <1>4 DEF Screens
<1>7. ~(s.row >= VGA_HEIGHT) BY <1>6, SizesIs
<1>8. strayed' \in BOOLEAN BY <1>1 DEF IInv, TypeOK
<1> HIDE DEF s
<1> QED BY <1>1, <1>3, <1>5, <1>6, <1>7, <1>8, StoreStep

LEMMA EchoesStep ==
  ASSUME IInv, NEW p \in Procs, Echoes(p)
  PROVE  IInv'
BY ReadsStep, ReadRowStep, WriteCellStep, StoreColumnStep, TestWidthStep, HomeStep, LoadRowStep,
   StoreRowStep, TestHeightStep, ScrollStep, LastRowStep, TestColumnStep, StoreBackStep
   DEF Echoes

-----------------------------------------------------------------------------
(* The prints.                                                             *)

LEMMA WriteStep ==
  ASSUME IInv, NEW p \in Procs, NEW text \in Texts, tty_write(p, text)
  PROVE  IInv'
<1>1. screen \in Screens /\ text \in Lines BY CharsIs DEF IInv, TypeOK, Lines
<1>2. tty_print(text) \in Near(screen) BY <1>1, PrintNear
<1> QED BY <1>2, PrintStep DEF tty_write

LEMMA ClearStep ==
  ASSUME IInv, NEW p \in Procs, tty_clear(p)
  PROVE  IInv'
<1>1. "0" \in Chars BY CharsIs
<1>2. Cleared0 \in Screens BY <1>1, ZeroIs DEF Cleared0, Screens
<1>3. Cleared0.row = 0 /\ Cleared0.col = 0 BY DEF Cleared0
<1>4. Cleared0 \in Near(screen) BY <1>2, <1>3, SizesIs DEF Near
<1> QED BY <1>4, PrintStep DEF tty_clear

LEMMA CursorStep ==
  ASSUME IInv, NEW p \in Procs, NEW position \in CursorPositions, tty_set_cursor(p, position)
  PROVE  IInv'
<1> DEFINE s == [screen EXCEPT !.row = position[1], !.col = position[2]]
<1>1. screen \in Screens BY DEF IInv, TypeOK
<1>2. position[1] \in 0..(VGA_HEIGHT - 1) /\ position[2] \in 0..(VGA_WIDTH - 1)
  BY ConsoleAssumption
<1>3. position[1] \in 0..(UINT8 - 1) /\ position[2] \in 0..(UINT8 - 1) BY <1>2, SizesIs
<1>4. s \in Screens /\ s.row = position[1] /\ s.col = position[2] BY <1>1, <1>3 DEF Screens
<1>5. ~(s.row >= VGA_HEIGHT) /\ ~(s.col >= VGA_WIDTH)
  <2>1. /\ \A k \in 0..(VGA_HEIGHT - 1) : ~(k >= VGA_HEIGHT)
        /\ \A k \in 0..(VGA_WIDTH - 1) : ~(k >= VGA_WIDTH)
    BY SizesIs
  <2> QED BY <1>2, <1>4, <2>1
<1>6. s \in Near(screen) BY <1>4, <1>5 DEF Near
<1> QED BY <1>6, PrintStep DEF tty_set_cursor

LEMMA PrintfStep ==
  ASSUME IInv, NEW n \in PrintedInts, printf(n)
  PROVE  IInv'
<1>1. screen \in Screens BY DEF IInv, TypeOK
<1>2. PICK digits \in {print_int(n), print_hex(n)} : Shown(tty_print(digits))
  BY DEF printf
<1>3. digits \in Lines BY NumberType
<1>4. tty_print(digits) \in Near(screen) BY <1>1, <1>3, PrintNear
<1> QED BY <1>2, <1>4, PrintStep DEF printf

-----------------------------------------------------------------------------
(* The theorems.                                                           *)

LEMMA NextInv == IInv /\ [ConsoleNext]_consoleVars => IInv'
<1> SUFFICES ASSUME IInv, [ConsoleNext]_consoleVars PROVE IInv' OBVIOUS
<1>1. CASE \E p \in Procs : tty_open(p) BY <1>1, OpenStep
<1>2. CASE \E p \in Procs : tty_close(p) \/ ReadEnd(p) BY <1>2, DropStep
<1>3. CASE \E p \in Procs : tty_clear(p) BY <1>3, ClearStep
<1>4. CASE \E p \in Procs, text \in Texts : tty_write(p, text) BY <1>4, WriteStep
<1>5. CASE \E p \in Procs, position \in CursorPositions : tty_set_cursor(p, position)
  BY <1>5, CursorStep
<1>6. CASE \E n \in PrintedInts : printf(n) BY <1>6, PrintfStep
<1>7. CASE \E p \in Procs, amount \in Amounts : tty_read(p, amount) BY <1>7, ReadStep
<1>8. CASE \E p \in Procs, amount \in Amounts : ReadLine(p, amount) BY <1>8, LineStep
<1>9. CASE \E p \in Procs : ReadFails(p) BY <1>9, FailStep
<1>10. CASE \E p \in Procs, pressed \in BOOLEAN : ShiftKey(p, pressed) BY <1>10, ShiftStep
<1>11. CASE \E p \in Procs : BackspaceKey(p) BY <1>11, BackspaceStep
<1>12. CASE \E p \in Procs, k \in LetterKeys : LetterKey(p, k) BY <1>12, LetterStep
<1>13. CASE \E p \in Procs : EnterKey(p) BY <1>13, EnterStep
<1>14. CASE \E p \in Procs : ReturnLine(p) BY <1>14, ReturnLineStep
<1>15. CASE \E p \in Procs : Echoes(p) BY <1>15, EchoesStep
<1>16. CASE \E p \in Procs, k \in LetterKeys, garbage \in {<<>>, <<"garbage">>} :
              CannotGrow(p, k, garbage)
  BY <1>16, CannotGrowStep
<1>17. CASE UNCHANGED consoleVars
  <2>1. UNCHANGED <<screen, reading, echo, file, wanted, got, zero, origin, strayed, calls>>
    BY <1>17 DEF consoleVars, fileVars
  <2>2. TypeOK' BY <2>1 DEF IInv, TypeOK
  <2>3. KeptInv' BY <2>1, KeptSame DEF IInv, KeptInv
  <2>4. ShownInv' BY <2>1, ShownSame DEF IInv, ShownInv
  <2>5. FitInv' BY <2>1 DEF IInv, FitInv
  <2>6. CursorComesBack' BY <2>1, BackSame DEF IInv
  <2> QED BY <2>2, <2>3, <2>4, <2>5, <2>6 DEF IInv
<1> QED
  BY <1>1, <1>2, <1>3, <1>4, <1>5, <1>6, <1>7, <1>8, <1>9, <1>10, <1>11, <1>12, <1>13, <1>14,
     <1>15, <1>16, <1>17
  DEF ConsoleNext

LEMMA Inductive == ConsoleSpec => []IInv
BY InitInv, NextInv, PTL DEF ConsoleSpec

\* The types of the terminal's state, whatever its processes do.
THEOREM TypeCorrect == ConsoleSpec => []TypeOK
<1>1. IInv => TypeOK BY DEF IInv
<1> QED BY <1>1, Inductive, PTL

\* Echoes that interrupt each other and that prints interrupt leave the cursor behind the
\* last column or row only while somebody is about to look at it, or after a backspace
\* whose column somebody else has moved (tty.c:146-155, 172-187).
THEOREM CursorKept == ConsoleSpec => []CursorComesBack
<1>1. IInv => CursorComesBack BY DEF IInv
<1> QED BY <1>1, Inductive, PTL

\* A line that is read in pieces of any size, between the reads of any number of other
\* processes, is the line that was typed, unless its buffer could not grow
\* (input.c:28-96, tty.c:52-84).
THEOREM LinesGiven == ConsoleSpec => []ReadsGiveTheLine
<1>1. IInv => ReadsGiveTheLine BY DEF IInv, KeptInv, LineKept, ReadsGiveTheLine
<1> QED BY <1>1, Inductive, PTL

\* While it is typed, a line that nobody printed over, without a tab and in one row,
\* stands on the screen with the cursor behind it (input.c:55-93, tty.c:133-157).
THEOREM LinesShown == ConsoleSpec => []ScreenShowsTheLine
<1>1. ASSUME IInv, NEW p \in Procs, reading[p].waits, echo[p].text = <<>>, origin[p] # Nowhere
      PROVE  /\ Cursor(screen) = origin[p] + Len(wanted[p].text)
             /\ \A i \in 1..Len(wanted[p].text) :
                  screen.cells[origin[p] + i - 1] = wanted[p].text[i]
  <2>1. Stands(wanted[p].text, origin[p], screen, echo[p]) /\ Fits(echo[p])
    BY <1>1 DEF IInv, ShownInv, LineShown, FitInv
  <2>2. wanted[p].text \in Lines BY <1>1 DEF IInv, TypeOK
  <2>3. /\ Inside(screen, origin[p], Len(wanted[p].text))
        /\ OnScreen(wanted[p].text, origin[p], screen, Len(wanted[p].text))
    BY <1>1, <2>1, <2>2, IdleIs
  <2> QED BY <2>3 DEF Inside, OnScreen
<1>2. IInv => ScreenShowsTheLine BY <1>1 DEF ScreenShowsTheLine
<1> QED BY <1>2, Inductive, PTL

-----------------------------------------------------------------------------
(* Brainfuck: the buffer and the text.                                     *)

Modes == {"Editing", "Command", "ViewingHelp", "Running", "WaitingForInput", "Finished", "Exit"}
Places == 0..(CODE_SIZE - 1)
States ==
  [mode : Modes, code_buffer : [Places -> CodeKeys \cup {NUL}], command_buffer : [0..(COMMAND_SIZE - 1) -> CommandKeys \cup {NUL}],
   code_len : 0..CODE_SIZE, code_text_offset : 0..CODE_SIZE, command_text_offset : 0..COMMAND_SIZE]

\* The cursor of the editor is in the text or behind it.
EditorInv ==
  /\ bf \in States /\ bf.code_text_offset <= bf.code_len
  /\ bfTyped \in [text : Seq(CodeKeys), atEnd : BOOLEAN]

\* The first n places hold the text, the others nothing.
Holds(buffer, n, text) ==
  /\ n = Len(text)
  /\ \A i \in Places : buffer[i] = IF i < n THEN text[i + 1] ELSE NUL
TextHeld == bfTyped.atEnd => Holds(bf.code_buffer, bf.code_len, bfTyped.text)

LEMMA CodeSizeIs ==
  /\ CODE_SIZE \in Nat /\ CODE_SIZE > 0 /\ COMMAND_SIZE \in Nat /\ COMMAND_SIZE > 0
  /\ NUL \notin CodeKeys
<1>1. {CODE_SIZE, COMMAND_SIZE} \subseteq Nat \ {0} /\ "nul" \notin CodeKeys BY BrainfuckAssumption
<1> QED BY <1>1 DEF NUL

\* A buffer that holds a text is that text as a C string.
LEMMA TextOfBuffer ==
  ASSUME NEW buffer \in [Places -> CodeKeys \cup {NUL}], NEW text \in Seq(CodeKeys),
         Len(text) <= CODE_SIZE, Holds(buffer, Len(text), text)
  PROVE  Text(buffer) = text
<1> DEFINE n == Len(text)
           ends == {i \in DOMAIN buffer : buffer[i] = NUL} \cup {Cardinality(DOMAIN buffer)}
<1>1. DOMAIN buffer = Places /\ Cardinality(Places) = CODE_SIZE
  BY CodeSizeIs, FS_Interval DEF Places
<1>2. n \in Nat /\ \A i \in 1..n : text[i] \in CodeKeys OBVIOUS
<1>3. ends = {i \in Places : buffer[i] = NUL} \cup {CODE_SIZE} BY <1>1
<1>4. n \in ends BY <1>2, <1>3, CodeSizeIs DEF Holds, Places
<1>5. \A i \in ends : n <= i /\ i \in Nat
  <2> SUFFICES ASSUME NEW i \in ends PROVE n <= i /\ i \in Nat OBVIOUS
  <2>1. CASE i = CODE_SIZE BY <2>1, CodeSizeIs
  <2>2. CASE i \in Places /\ buffer[i] = NUL
    <3>1. i \in Nat /\ (i < n => i + 1 \in 1..n) BY <1>2, <2>2, CodeSizeIs DEF Places
    <3> QED BY <1>2, <2>2, <3>1, CodeSizeIs DEF Holds
  <2> QED BY <1>3, <2>1, <2>2
<1> HIDE DEF ends
<1>6. Min(ends) = n BY <1>2, <1>4, <1>5 DEF Min
<1>7. Text(buffer) = [i \in 1..n |-> buffer[i - 1]] BY <1>6 DEF Text, ends
<1>8. \A i \in 1..n : buffer[i - 1] = text[i]
  <2> SUFFICES ASSUME NEW i \in 1..n PROVE buffer[i - 1] = text[i] OBVIOUS
  <2>1. i - 1 \in Places /\ i - 1 < n /\ (i - 1) + 1 = i BY <1>2, CodeSizeIs DEF Places
  <2> QED BY <2>1 DEF Holds
<1>9. text = [i \in 1..n |-> text[i]] OBVIOUS
<1> QED BY <1>7, <1>8, <1>9

LEMMA InitEditor == BfInit => EditorInv /\ TextHeld
<1> SUFFICES ASSUME BfInit PROVE EditorInv /\ TextHeld OBVIOUS
<1>1. Blank(CODE_SIZE) = [i \in Places |-> NUL] BY DEF Blank, Places
<1>2. Blank(COMMAND_SIZE) \in [0..(COMMAND_SIZE - 1) -> CommandKeys \cup {NUL}] BY DEF Blank
<1>3. bf = [mode |-> "Command", code_buffer |-> Blank(CODE_SIZE), command_buffer |-> Blank(COMMAND_SIZE),
            code_len |-> 0, code_text_offset |-> 0, command_text_offset |-> 0]
      /\ bfTyped = [text |-> <<>>, atEnd |-> TRUE]
  BY DEF BfInit
<1>4. bf \in States BY <1>1, <1>2, <1>3, CodeSizeIs DEF States, Modes
<1>5. <<>> \in Seq(CodeKeys) /\ Len(<<>>) = 0 OBVIOUS
<1>6. EditorInv BY <1>3, <1>4, <1>5 DEF EditorInv
<1>7. TextHeld BY <1>1, <1>3, <1>5 DEF TextHeld, Holds, Places
<1> QED BY <1>6, <1>7

\* A key typed at the cursor.
LEMMA TypeCodeEditor ==
  ASSUME EditorInv, TextHeld, NEW c \in CodeKeys, TypeCode(c)
  PROVE  EditorInv' /\ TextHeld'
<1> DEFINE o == bf.code_text_offset
           n == bf.code_len
           s == bfTyped.text
<1>1. /\ bf' = [bf EXCEPT !.code_buffer = Inserted(c), !.code_len = n + 1, !.code_text_offset = o + 1]
      /\ n < CODE_SIZE
      /\ bfTyped' = [text |-> IF bfTyped.atEnd THEN InsertText(s, c) ELSE <<>>, atEnd |-> bfTyped.atEnd]
  BY DEF TypeCode, Edit, Typed
<1>2. /\ bf \in States /\ o \in Nat /\ n \in Nat /\ o <= n /\ n <= CODE_SIZE
      /\ Code \in [Places -> CodeKeys \cup {NUL}] /\ s \in Seq(CodeKeys) /\ bfTyped.atEnd \in BOOLEAN
  BY DEF EditorInv, States, Code
<1>3. /\ Inserted(c) \in [Places -> CodeKeys \cup {NUL}]
      /\ \A i \in Places : Inserted(c)[i] =
           IF i = o THEN c ELSE IF i \in (o + 1)..n THEN Code[i - 1] ELSE Code[i]
  <2>1. DOMAIN Code = Places BY <1>2
  <2>2. \A i \in Places : i \in (o + 1)..n => i - 1 \in Places BY <1>2, CodeSizeIs DEF Places
  <2> QED BY <1>2, <2>1, <2>2 DEF Inserted
<1> HIDE DEF o, n, s
<1>4. /\ bf' \in States /\ bf'.code_buffer = Inserted(c) /\ bf'.code_len = n + 1
      /\ bf'.code_text_offset = o + 1
  <2>1. n + 1 \in 0..CODE_SIZE /\ o + 1 \in 0..CODE_SIZE BY <1>1, <1>2, CodeSizeIs
  <2> QED BY <1>1, <1>2, <1>3, <2>1 DEF States
<1>5. ASSUME bfTyped.atEnd
      PROVE  InsertText(s, c) \in Seq(CodeKeys) /\ Holds(Inserted(c), n + 1, InsertText(s, c))
  <2>1. Holds(Code, n, s) BY <1>5 DEF TextHeld, Code, n, s
  <2>2. n = Len(s) BY <2>1 DEF Holds
  <2> DEFINE a == SubSeq(s, 1, o)
             z == SubSeq(s, o + 1, Len(s))
  <2>3. \A i \in 1..n : s[i] \in CodeKeys BY <1>2, <2>2
  <2>4. /\ a \in Seq(CodeKeys) /\ Len(a) = o /\ \A i \in 1..o : a[i] = s[i]
    <3>1. \A i \in 1..o : s[i] \in CodeKeys BY <1>2, <2>3
    <3> QED BY <1>2, <3>1, SubSeqProperties
  <2>5. /\ z \in Seq(CodeKeys) /\ Len(z) = n - o /\ \A i \in 1..(n - o) : z[i] = s[o + i]
    <3>1. \A i \in (o + 1)..n : s[i] \in CodeKeys BY <1>2, <2>3
    <3>2. /\ z \in Seq(CodeKeys) /\ Len(z) = IF o + 1 <= n THEN n - (o + 1) + 1 ELSE 0
          /\ \A i \in 1..(n - (o + 1) + 1) : z[i] = s[(o + 1) + i - 1]
      BY <1>2, <2>2, <3>1, SubSeqProperties
    <3>3. n - (o + 1) + 1 = n - o /\ \A i \in 1..(n - o) : (o + 1) + i - 1 = o + i BY <1>2
    <3> QED BY <1>2, <3>2, <3>3
  <2> HIDE DEF a, z
  <2>6. <<c>> \in Seq(CodeKeys) /\ Len(<<c>>) = 1 /\ <<c>>[1] = c OBVIOUS
  <2>7. /\ a \o <<c>> \in Seq(CodeKeys) /\ Len(a \o <<c>>) = o + 1
        /\ \A i \in 1..(o + 1) : (a \o <<c>>)[i] = IF i <= o THEN a[i] ELSE c
    <3>1. /\ a \o <<c>> \in Seq(CodeKeys) /\ Len(a \o <<c>>) = Len(a) + Len(<<c>>)
          /\ \A i \in 1..(Len(a) + Len(<<c>>)) : (a \o <<c>>)[i] =
               IF i <= Len(a) THEN a[i] ELSE <<c>>[i - Len(a)]
      BY <2>4, <2>6, ConcatProperties
    <3>2. \A i \in 1..(o + 1) : i <= o \/ i - o = 1 BY <1>2
    <3> QED BY <1>2, <2>4, <2>6, <3>1, <3>2
  <2> DEFINE t == (a \o <<c>>) \o z
  <2>8. /\ t \in Seq(CodeKeys) /\ Len(t) = n + 1
        /\ \A i \in 1..(n + 1) : t[i] = IF i <= o + 1 THEN (a \o <<c>>)[i] ELSE z[i - (o + 1)]
    <3> DEFINE ac == a \o <<c>>
    <3>1. ac \in Seq(CodeKeys) /\ Len(ac) = o + 1 /\ z \in Seq(CodeKeys) /\ Len(z) = n - o BY <2>5, <2>7
    <3> HIDE DEF ac
    <3>2. /\ ac \o z \in Seq(CodeKeys) /\ Len(ac \o z) = Len(ac) + Len(z)
          /\ \A i \in 1..(Len(ac) + Len(z)) : (ac \o z)[i] = IF i <= Len(ac) THEN ac[i] ELSE z[i - Len(ac)]
      BY <3>1, ConcatProperties
    <3>3. Len(ac) + Len(z) = n + 1 BY <1>2, <3>1
    <3>4. t = ac \o z BY DEF ac
    <3> HIDE DEF t
    <3>5. /\ t \in Seq(CodeKeys) /\ Len(t) = n + 1
          /\ \A i \in 1..(n + 1) : t[i] = IF i <= o + 1 THEN ac[i] ELSE z[i - (o + 1)]
      BY <3>1, <3>2, <3>3, <3>4
    <3> QED BY <3>5 DEF ac
  <2>9. InsertText(s, c) = t BY DEF InsertText, o, a, z, t
  <2> HIDE DEF t
  <2>10. ASSUME NEW i \in Places
         PROVE  Inserted(c)[i] = IF i < n + 1 THEN t[i + 1] ELSE NUL
    <3>0. i \in Nat /\ Code[i] = IF i < n THEN s[i + 1] ELSE NUL
      BY <2>1 DEF Holds, Places
    <3>1. CASE i < o
      <4>1. i + 1 \in 1..o /\ i + 1 \in 1..(o + 1) /\ i + 1 \in 1..(n + 1) BY <1>2, <3>0, <3>1
      <4>2. i # o /\ i \notin (o + 1)..n /\ i < n BY <1>2, <3>0, <3>1
      <4> QED BY <1>2, <1>3, <2>4, <2>7, <2>8, <3>0, <4>1, <4>2
    <3>2. CASE i = o
      <4>1. i + 1 \in 1..(o + 1) /\ i + 1 \in 1..(n + 1) /\ ~(i + 1 <= o) BY <1>2, <3>2
      <4> QED BY <1>2, <1>3, <2>7, <2>8, <3>2, <4>1
    <3>3. CASE i > o /\ i <= n
      <4>1. /\ i + 1 \in 1..(n + 1) /\ ~(i + 1 <= o + 1) /\ (i + 1) - (o + 1) = i - o
            /\ i - o \in 1..(n - o) /\ o + (i - o) = i
        BY <1>2, <3>0, <3>3
      <4>2. t[i + 1] = s[i] BY <2>5, <2>8, <4>1
      <4>3. i - 1 \in Places /\ i - 1 < n /\ (i - 1) + 1 = i BY <1>2, <3>0, <3>3, CodeSizeIs DEF Places
      <4>4. Code[i - 1] = s[i] BY <2>1, <4>3 DEF Holds
      <4>5. i # o /\ i \in (o + 1)..n BY <1>2, <3>0, <3>3
      <4> QED BY <1>2, <1>3, <3>0, <3>3, <4>2, <4>4, <4>5
    <3>4. CASE i > n
      <4>1. i # o /\ i \notin (o + 1)..n /\ ~(i < n + 1) /\ ~(i < n) BY <1>2, <3>0, <3>4
      <4> QED BY <1>3, <3>0, <4>1
    <3> QED BY <1>2, <3>0, <3>1, <3>2, <3>3, <3>4
  <2> QED BY <2>8, <2>9, <2>10 DEF Holds
<1>6. bfTyped' \in [text : Seq(CodeKeys), atEnd : BOOLEAN] BY <1>1, <1>2, <1>5 DEF s
<1>7. o + 1 <= n + 1 BY <1>2
<1>8. bfTyped'.atEnd => Holds(bf'.code_buffer, bf'.code_len, bfTyped'.text)
  BY <1>1, <1>4, <1>5 DEF s
<1> QED BY <1>4, <1>6, <1>7, <1>8 DEF EditorInv, TextHeld

\* Backspace; the cursor may be at the start, in the text or behind it.
LEMMA BackspaceEditor ==
  ASSUME EditorInv, TextHeld, Backspace
  PROVE  EditorInv' /\ TextHeld'
<1> DEFINE o == bf.code_text_offset
           n == bf.code_len
           s == bfTyped.text
           behind == bfTyped.atEnd /\ o = n
           back == Max({0, o - 1})
<1>1. /\ bf' = [bf EXCEPT !.code_buffer = Backspaced, !.code_len = n - 1, !.code_text_offset = back]
      /\ n > 0
      /\ bfTyped' = [text |-> IF behind THEN (IF behind THEN Front(s) ELSE <<>>) ELSE <<>>, atEnd |-> behind]
  BY DEF Backspace, Edit, DeleteLast, Typed
<1>2. /\ bf \in States /\ o \in Nat /\ n \in Nat /\ o <= n /\ n <= CODE_SIZE
      /\ Code \in [Places -> CodeKeys \cup {NUL}] /\ s \in Seq(CodeKeys) /\ bfTyped.atEnd \in BOOLEAN
  BY DEF EditorInv, States, Code
<1>3. back = IF o = 0 THEN 0 ELSE o - 1
  <2>1. back \in {0, o - 1} /\ \A y \in {0, o - 1} : back >= y
    <3>1. \E x \in {0, o - 1} : \A y \in {0, o - 1} : x >= y
      <4>1. CASE o = 0 BY <1>2, <4>1
      <4>2. CASE o # 0 BY <1>2, <4>2
      <4> QED BY <4>1, <4>2
    <3> QED BY <3>1 DEF Max
  <2> QED BY <1>2, <2>1
<1>4. bf.code_buffer = Code BY DEF Code
<1>5. /\ Backspaced \in [Places -> CodeKeys \cup {NUL}]
      /\ o = n => Backspaced = [Code EXCEPT ![n - 1] = NUL]
  <2> DEFINE cleared == [bf.code_buffer EXCEPT ![n - 1] = NUL]
  <2>1. cleared \in [Places -> CodeKeys \cup {NUL}] BY <1>2, <1>4
  <2>2. CASE o - 1 < n - 1
    <3>1. Backspaced = [i \in DOMAIN Code |-> IF i \in ((o - 1) + 1)..((n - 1) - 1) THEN cleared[i + 1] ELSE cleared[i]]
      BY <2>2 DEF Backspaced
    <3>2. \A i \in Places : i \in ((o - 1) + 1)..((n - 1) - 1) => i + 1 \in Places
      BY <1>1, <1>2, CodeSizeIs DEF Places
    <3>3. DOMAIN Code = Places BY <1>2
    <3>4. o # n BY <1>2, <2>2
    <3> QED BY <2>1, <3>1, <3>2, <3>3, <3>4
  <2>3. CASE ~(o - 1 < n - 1)
    <3>1. Backspaced = [bf.code_buffer EXCEPT ![o - 1] = NUL] BY <2>3 DEF Backspaced
    <3>2. o = n BY <1>2, <2>3
    <3> QED BY <1>2, <1>4, <3>1, <3>2
  <2> QED BY <2>2, <2>3
<1> HIDE DEF o, n, s, back
<1>6. /\ bf' \in States /\ bf'.code_buffer = Backspaced /\ bf'.code_len = n - 1
      /\ bf'.code_text_offset = back /\ back <= n - 1
  <2>1. n - 1 \in 0..CODE_SIZE /\ back \in 0..CODE_SIZE /\ back <= n - 1 BY <1>1, <1>2, <1>3, CodeSizeIs
  <2> QED BY <1>1, <1>2, <1>5, <2>1 DEF States
<1>7. ASSUME behind
      PROVE  Front(s) \in Seq(CodeKeys) /\ Holds(Backspaced, n - 1, Front(s))
  <2>1. Holds(Code, n, s) BY <1>7 DEF TextHeld, Code, n, s
  <2>2. n = Len(s) /\ \A i \in 1..n : s[i] \in CodeKeys BY <1>2, <2>1 DEF Holds
  <2>3. /\ Front(s) \in Seq(CodeKeys) /\ Len(Front(s)) = n - 1
        /\ \A i \in 1..(n - 1) : Front(s)[i] = s[i]
    <3>1. Front(s) = SubSeq(s, 1, n - 1) BY <2>2 DEF Front
    <3>2. \A i \in 1..(n - 1) : s[i] \in CodeKeys BY <1>2, <2>2
    <3>3. n - 1 \in Int /\ (n - 1) - 1 + 1 = n - 1 /\ \A i \in 1..(n - 1) : 1 + i - 1 = i BY <1>2
    <3>4. /\ SubSeq(s, 1, n - 1) \in Seq(CodeKeys)
          /\ Len(SubSeq(s, 1, n - 1)) = IF 1 <= n - 1 THEN n - 1 - 1 + 1 ELSE 0
          /\ \A i \in 1..(n - 1 - 1 + 1) : SubSeq(s, 1, n - 1)[i] = s[1 + i - 1]
      BY <3>2, <3>3, SubSeqProperties
    <3>5. (IF 1 <= n - 1 THEN n - 1 - 1 + 1 ELSE 0) = n - 1 BY <1>1, <1>2
    <3> QED BY <3>1, <3>3, <3>4, <3>5
  <2>4. Backspaced = [Code EXCEPT ![n - 1] = NUL] BY <1>5, <1>7
  <2>5. ASSUME NEW i \in Places
        PROVE  Backspaced[i] = IF i < n - 1 THEN Front(s)[i + 1] ELSE NUL
    <3>1. i \in Nat /\ Code[i] = IF i < n THEN s[i + 1] ELSE NUL BY <2>1 DEF Holds, Places
    <3>2. Backspaced[i] = IF i = n - 1 THEN NUL ELSE Code[i] BY <1>2, <2>4
    <3>3. CASE i < n - 1
      <4>1. i # n - 1 /\ i < n /\ i + 1 \in 1..(n - 1) BY <1>2, <3>1, <3>3
      <4> QED BY <2>3, <3>1, <3>2, <3>3, <4>1
    <3>4. CASE ~(i < n - 1)
      <4>1. i = n - 1 \/ ~(i < n) BY <1>2, <3>1, <3>4
      <4> QED BY <3>1, <3>2, <3>4, <4>1
    <3> QED BY <3>3, <3>4
  <2> QED BY <2>3, <2>5 DEF Holds
<1>8. bfTyped' \in [text : Seq(CodeKeys), atEnd : BOOLEAN] BY <1>1, <1>2, <1>7
<1>9. bfTyped'.atEnd => Holds(bf'.code_buffer, bf'.code_len, bfTyped'.text) BY <1>1, <1>6, <1>7
<1> QED BY <1>6, <1>8, <1>9 DEF EditorInv, TextHeld

\* The keys that change neither the text nor its length.
LEMMA MoveCursorEditor ==
  ASSUME EditorInv, TextHeld, NEW by \in {-1, 1}, MoveCursor(by)
  PROVE  EditorInv' /\ TextHeld'
<1> DEFINE o == bf.code_text_offset
           n == bf.code_len
           to == IF by < 0 THEN Max({0, o - 1}) ELSE Min({n, o + 1})
<1>1. bf' = [bf EXCEPT !.code_buffer = bf.code_buffer, !.code_len = n, !.code_text_offset = to]
      /\ UNCHANGED bfTyped
  BY DEF MoveCursor, Edit
<1>2. bf \in States /\ o \in Nat /\ n \in Nat /\ o <= n /\ n <= CODE_SIZE BY DEF EditorInv, States
<1>3. to \in Nat /\ to <= n
  <2> HIDE DEF o, n
  <2>1. CASE by < 0
    <3>1. \E x \in {0, o - 1} : \A y \in {0, o - 1} : x >= y
      <4>1. CASE o = 0 BY <1>2, <4>1
      <4>2. CASE o # 0 BY <1>2, <4>2
      <4> QED BY <4>1, <4>2
    <3>2. Max({0, o - 1}) \in {0, o - 1} /\ \A y \in {0, o - 1} : Max({0, o - 1}) >= y BY <3>1 DEF Max
    <3> QED BY <1>2, <2>1, <3>2
  <2>2. CASE ~(by < 0)
    <3>1. \E x \in {n, o + 1} : \A y \in {n, o + 1} : x <= y
      <4>1. CASE n <= o + 1 BY <1>2, <4>1
      <4>2. CASE ~(n <= o + 1) BY <1>2, <4>2
      <4> QED BY <4>1, <4>2
    <3>2. Min({n, o + 1}) \in {n, o + 1} /\ \A y \in {n, o + 1} : Min({n, o + 1}) <= y BY <3>1 DEF Min
    <3> QED BY <1>2, <2>2, <3>2
  <2> QED BY <2>1, <2>2
<1> HIDE DEF to
<1>4. bf' \in States /\ bf'.code_buffer = bf.code_buffer /\ bf'.code_len = n /\ bf'.code_text_offset = to
  <2>1. to \in 0..CODE_SIZE BY <1>2, <1>3, CodeSizeIs
  <2> QED BY <1>1, <1>2, <2>1 DEF States
<1> QED BY <1>1, <1>3, <1>4 DEF EditorInv, TextHeld

\* A mode, the command line or the interpreter changes, the editor's fields do not.
EditorStays ==
  /\ bf' \in States /\ UNCHANGED bfTyped
  /\ bf'.code_buffer = bf.code_buffer /\ bf'.code_len = bf.code_len
  /\ bf'.code_text_offset = bf.code_text_offset

LEMMA OnlyModeStays ==
  ASSUME EditorInv, NEW mode \in Modes, bf' = [bf EXCEPT !.mode = mode], UNCHANGED bfTyped
  PROVE  EditorStays
BY DEF EditorStays, EditorInv, States

LEMMA CommandLineStays ==
  ASSUME EditorInv, command_backspace \/ \E c \in CommandKeys : TypeCommand(c)
  PROVE  EditorStays
<1>1. bf \in States BY DEF EditorInv
<1>2. CASE command_backspace
  <2>1. /\ bf' = [bf EXCEPT !.command_text_offset = bf.command_text_offset - 1,
                           !.command_buffer[bf.command_text_offset - 1] = NUL]
        /\ bf.command_text_offset > 0 /\ UNCHANGED bfTyped
    BY <1>2 DEF command_backspace
  <2>2. bf.command_text_offset - 1 \in 0..COMMAND_SIZE BY <1>1, <2>1, CodeSizeIs DEF States
  <2> QED BY <1>1, <2>1, <2>2 DEF EditorStays, States
<1>3. ASSUME NEW c \in CommandKeys, TypeCommand(c) PROVE EditorStays
  <2>1. /\ bf' = [bf EXCEPT !.command_buffer[bf.command_text_offset] = c,
                           !.command_text_offset = bf.command_text_offset + 1]
        /\ bf.command_text_offset < COMMAND_SIZE /\ UNCHANGED bfTyped
    BY <1>3 DEF TypeCommand
  <2>2. bf.command_text_offset + 1 \in 0..COMMAND_SIZE BY <1>1, <2>1, CodeSizeIs DEF States
  <2> QED BY <1>1, <2>1, <2>2 DEF EditorStays, States
<1> QED BY <1>2, <1>3

LEMMA RunStays ==
  ASSUME EditorInv, NEW key, run_mode(key)
  PROVE  EditorStays
<1> DEFINE r == step_code(exec, IF key = "no key" THEN -1 ELSE ByteOf(key))
           mode == IF key = "ESC" THEN "Finished" ELSE ModeAfter(r.result)
<1>1. bf' = [bf EXCEPT !.mode = mode] /\ UNCHANGED bfTyped BY DEF run_mode
<1>2. mode \in Modes BY DEF ModeAfter, Modes
<1> HIDE DEF mode
<1> QED BY <1>1, <1>2, OnlyModeStays

\* A command; "new" forgets the text, and the promise if there was one.
LEMMA CommandEditor ==
  ASSUME EditorInv, TextHeld, command_enter
  PROVE  EditorStays \/ (EditorInv' /\ TextHeld')
<1>1. CASE \E mode \in {"Exit", "ViewingHelp", "Running"} : bf' = [bf EXCEPT !.mode = mode] /\ UNCHANGED bfTyped
  BY <1>1, OnlyModeStays DEF Modes
<1>2. CASE /\ bf' = [bf EXCEPT !.mode = "Editing", !.code_buffer = Blank(CODE_SIZE),
                              !.command_buffer = Blank(COMMAND_SIZE),
                              !.code_text_offset = 0, !.command_text_offset = 0]
           /\ Typed(<<>>, bf.code_len = 0)
  <2>1. Blank(CODE_SIZE) = [i \in Places |-> NUL] BY DEF Blank, Places
  <2>2. Blank(COMMAND_SIZE) \in [0..(COMMAND_SIZE - 1) -> CommandKeys \cup {NUL}] BY DEF Blank
  <2>3. bfTyped' = [text |-> <<>>, atEnd |-> bf.code_len = 0] BY <1>2 DEF Typed
  <2>4. bf \in States /\ bf.code_len \in Nat BY CodeSizeIs DEF EditorInv, States
  <2>5. /\ bf' \in States /\ bf'.code_buffer = Blank(CODE_SIZE) /\ bf'.code_len = bf.code_len
        /\ bf'.code_text_offset = 0
    <3> DEFINE code == Blank(CODE_SIZE)
               line == Blank(COMMAND_SIZE)
    <3>1. code \in [Places -> CodeKeys \cup {NUL}] BY <2>1
    <3> HIDE DEF code, line
    <3>2. bf' = [bf EXCEPT !.mode = "Editing", !.code_buffer = code, !.command_buffer = line,
                           !.code_text_offset = 0, !.command_text_offset = 0]
      BY <1>2 DEF code, line
    <3>3. line \in [0..(COMMAND_SIZE - 1) -> CommandKeys \cup {NUL}] BY <2>2 DEF line
    <3>4. 0 \in 0..CODE_SIZE /\ 0 \in 0..COMMAND_SIZE /\ "Editing" \in Modes BY CodeSizeIs DEF Modes
    <3>5. bf' \in States BY <2>4, <3>1, <3>2, <3>3, <3>4 DEF States
    <3>6. /\ bf'.code_buffer = code /\ bf'.code_len = bf.code_len /\ bf'.code_text_offset = 0
      BY <2>4, <3>2 DEF States
    <3> QED BY <3>5, <3>6 DEF code
  <2>6. <<>> \in Seq(CodeKeys) /\ Len(<<>>) = 0 OBVIOUS
  <2>7. EditorInv' BY <2>3, <2>4, <2>5, <2>6 DEF EditorInv
  <2>8. TextHeld'
    <3> SUFFICES ASSUME bfTyped'.atEnd PROVE Holds(bf'.code_buffer, bf'.code_len, bfTyped'.text)
      BY DEF TextHeld
    <3>1. bf'.code_len = 0 /\ bfTyped'.text = <<>> BY <2>3, <2>5
    <3>2. \A i \in Places : bf'.code_buffer[i] = NUL /\ ~(i < 0) BY <2>1, <2>5 DEF Places
    <3> QED BY <2>6, <3>1, <3>2 DEF Holds
  <2> QED BY <2>7, <2>8
<1> QED BY <1>1, <1>2 DEF command_enter

LEMMA StepEditor ==
  ASSUME EditorInv, TextHeld, [BfNext]_bfVars
  PROVE  EditorInv' /\ TextHeld'
<1>0. EditorStays => EditorInv' /\ TextHeld' BY DEF EditorStays, EditorInv, TextHeld
<1>1. ASSUME NEW c \in CodeKeys, TypeCode(c) PROVE EditorInv' /\ TextHeld' BY <1>1, TypeCodeEditor
<1>2. ASSUME NEW by \in {-1, 1}, MoveCursor(by) PROVE EditorInv' /\ TextHeld' BY <1>2, MoveCursorEditor
<1>3. CASE Backspace BY <1>3, BackspaceEditor
<1>4. CASE command_enter BY <1>0, <1>4, CommandEditor
<1>5. CASE command_backspace \/ \E c \in CommandKeys : TypeCommand(c) BY <1>0, <1>5, CommandLineStays
<1>6. ASSUME NEW key, run_mode(key) PROVE EditorInv' /\ TextHeld' BY <1>0, <1>6, RunStays
<1>7. CASE LeaveEditor \/ ToEditor \/ help_mode
  <2>1. \E mode \in Modes : bf' = [bf EXCEPT !.mode = mode] /\ UNCHANGED bfTyped
    BY <1>7 DEF LeaveEditor, ToEditor, help_mode, Modes
  <2> QED BY <1>0, <2>1, OnlyModeStays
<1>8. CASE UNCHANGED bfVars BY <1>8 DEF bfVars, EditorInv, TextHeld, Holds
<1> QED BY <1>1, <1>2, <1>3, <1>4, <1>5, <1>6, <1>7, <1>8 DEF BfNext

\* As long as characters are typed anywhere and deleted at the end only, the buffer that
\* "run" executes holds the text an ordinary editor would (main.c:242-322).
THEOREM EditorKept == BfSpec => []EditorKeepsTheText
<1>1. BfInit => EditorInv /\ TextHeld BY InitEditor
<1>2. (EditorInv /\ TextHeld) /\ [BfNext]_bfVars => (EditorInv /\ TextHeld)' BY StepEditor
<1>3. EditorInv /\ TextHeld => EditorKeepsTheText
  <2> SUFFICES ASSUME EditorInv, TextHeld, bfTyped.atEnd
               PROVE  Text(bf.code_buffer) = bfTyped.text /\ bf.code_len = Len(bfTyped.text)
    BY DEF EditorKeepsTheText
  <2>1. Holds(bf.code_buffer, bf.code_len, bfTyped.text) /\ bf.code_len = Len(bfTyped.text)
    BY DEF TextHeld, Holds
  <2>2. /\ bf.code_buffer \in [Places -> CodeKeys \cup {NUL}] /\ bf.code_len <= CODE_SIZE
        /\ bfTyped.text \in Seq(CodeKeys)
    BY CodeSizeIs DEF EditorInv, States
  <2> QED BY <2>1, <2>2, TextOfBuffer
<1> QED BY <1>1, <1>2, <1>3, PTL DEF BfSpec

-----------------------------------------------------------------------------
(* Minesweeper: where the cells and the bombs are.                         *)

LEMMA FieldSizeIs ==
  /\ W \in Nat /\ W > 0 /\ H \in Nat /\ H > 0 /\ W * H \in Nat /\ H * W \in Nat
  /\ Seeds \subseteq Seq(Field) /\ <<>> \notin Seeds
<1>1. {W, H} \subseteq Nat \ {0} BY MinesAssumption
<1>2. W \in Nat /\ W > 0 /\ H \in Nat /\ H > 0 BY <1>1
<1>3. W * H \in Nat /\ H * W \in Nat BY <1>2
<1> QED BY <1>2, <1>3, MinesAssumption

\* Rows are apart by the width.
LEMMA PositionIs ==
  ASSUME NEW c \in Field
  PROVE  /\ c[1] \in Nat /\ c[2] \in Nat /\ c[1] <= W - 1 /\ c[2] <= H - 1
         /\ c[2] * W \in Nat /\ c[2] * W <= H * W - W /\ c = <<c[1], c[2]>>
         /\ calculate_buffer_pos(c) = c[2] * W + W + c[1] + 1
         /\ calculate_buffer_pos(c) \in Nat /\ calculate_buffer_pos(c) > W
         /\ calculate_buffer_pos(c) <= H * W + W
<1>1. c[1] \in 0..(W - 1) /\ c[2] \in 0..(H - 1) /\ c = <<c[1], c[2]>> BY DEF Field
<1>2. c[1] \in Nat /\ c[2] \in Nat /\ c[1] <= W - 1 /\ c[2] <= H - 1 BY <1>1, FieldSizeIs
<1>3. c[2] * W \in Nat BY <1>2, FieldSizeIs
<1>4. (H - 1 - c[2]) * W >= 0 /\ (H - 1 - c[2]) * W = H * W - W - c[2] * W BY <1>2, FieldSizeIs
<1>5. c[2] * W <= H * W - W BY <1>3, <1>4, FieldSizeIs
<1>6. calculate_buffer_pos(c) = c[2] * W + W + c[1] + 1 BY DEF calculate_buffer_pos
<1> DEFINE below == c[2] * W
           all == H * W
<1>7. below \in Nat /\ all \in Nat /\ below <= all - W BY <1>3, <1>5, FieldSizeIs
<1> HIDE DEF below, all
<1>8. LET i == below + W + c[1] + 1 IN i \in Nat /\ i > W /\ i <= all + W BY <1>2, <1>7, FieldSizeIs
<1> QED BY <1>1, <1>2, <1>6, <1>7, <1>8 DEF below, all

LEMMA InFieldIs ==
  /\ \A c \in Field : calculate_buffer_pos(c) \in InField
  /\ \A i \in InField : i \in Nat /\ i > W /\ i <= H * W + W /\ i \in Position
<1>1. ASSUME NEW i \in Nat, i <= H * W + W PROVE i \in Position
  <2>1. (H + 2) * (W + 2) - 1 = H * W + 2 * H + 2 * W + 3 BY FieldSizeIs
  <2>2. (H + 2) * (W + 2) - 1 \in Int /\ i <= (H + 2) * (W + 2) - 1 BY <1>1, <2>1, FieldSizeIs
  <2> QED BY <1>1, <2>2 DEF Position
<1> QED BY <1>1, PositionIs DEF InField

\* Bombs lie in the field or behind it.
BombSets == {B \in SUBSET Nat : IsFiniteSet(B) /\ \A b \in B : b > W}

LEMMA PlacedIs ==
  ASSUME NEW B \in BombSets, NEW c \in Field
  PROVE  Placed(B, c) \in BombSets /\ B \subseteq Placed(B, c) /\ calculate_buffer_pos(c) \in Placed(B, c)
<1> DEFINE from == calculate_buffer_pos(c)
           n == Cardinality(B)
           free == (from..(from + n)) \ B
<1>1. from \in Nat /\ from > W BY PositionIs
<1>2. B \subseteq Nat /\ IsFiniteSet(B) /\ n \in Nat BY FS_CardinalityType DEF BombSets
<1> HIDE DEF from
<1>3. IsFiniteSet(from..(from + n)) /\ Cardinality(from..(from + n)) = n + 1
  <2>1. from \in Int /\ from + n \in Int /\ ~(from > from + n) /\ (from + n) - from + 1 = n + 1 BY <1>1, <1>2
  <2> HIDE DEF n
  <2> QED BY <2>1, FS_Interval
<1>4. free # {}
  <2>1. SUFFICES ASSUME free = {} PROVE FALSE OBVIOUS
  <2>2. from..(from + n) \in SUBSET B BY <2>1
  <2>3. n + 1 <= n BY <1>2, <1>3, <2>2, FS_Subset
  <2> QED BY <1>2, <2>3
<1>5. free \in SUBSET Nat BY <1>1, <1>2
<1> HIDE DEF free, n
<1>6. \E x \in free : \A y \in free : x <= y BY <1>4, <1>5, LeastNumber
<1>7. Min(free) \in free /\ \A y \in free : Min(free) <= y BY <1>6 DEF Min
<1>8. Placed(B, c) = B \cup {Min(free)} BY DEF Placed, free, from, n
<1>9. Min(free) \in Nat /\ Min(free) >= from BY <1>1, <1>2, <1>7 DEF free
<1>10. from \in Placed(B, c)
  <2>1. CASE from \in B BY <1>8, <2>1
  <2>2. CASE from \notin B
    <3>1. from \in free BY <1>1, <1>2, <2>2 DEF free
    <3>2. Min(free) = from BY <1>1, <1>7, <1>9, <3>1
    <3> QED BY <1>8, <3>2
  <2> QED BY <2>1, <2>2
<1>11. IsFiniteSet(B \cup {Min(free)}) BY <1>2, FS_AddElement
<1>12. \A b \in B \cup {Min(free)} : b \in Nat /\ b > W
  BY <1>1, <1>2, <1>9, FieldSizeIs DEF BombSets
<1> QED BY <1>8, <1>10, <1>11, <1>12 DEF BombSets, from

\* All bombs of a seed are placed, its first one where the random numbers say.
LEMMA GenerateIs ==
  ASSUME NEW picks \in Seeds
  PROVE  generate(picks) \in BombSets /\ generate(picks) \cap InField # {}
<1> DEFINE N == Len(picks)
           G == [k \in 1..N |-> [B \in BombSets |-> Placed(B, picks[k])]]
           F(g) == g = [k \in 0..N |-> IF k = 0 THEN {} ELSE Placed(g[k - 1], picks[k])]
<1>1. N \in Nat /\ N > 0 /\ \A k \in 1..N : picks[k] \in Field
  <2>1. picks \in Seq(Field) /\ picks # <<>> BY FieldSizeIs
  <2>2. N \in Nat /\ \A k \in 1..N : picks[k] \in Field BY <2>1
  <2>3. N # 0 BY <2>1
  <2> QED BY <2>2, <2>3
<1>2. G \in [1..N -> [BombSets -> BombSets]] BY <1>1, PlacedIs
<1>3. \A k \in 1..N : \A B \in BombSets : G[k][B] = Placed(B, picks[k]) OBVIOUS
<1>4. {} \in BombSets BY FS_EmptySet DEF BombSets
<1> HIDE DEF G
<1>5. PICK f \in [0..N -> BombSets] : Turns(f, N, {}, G) BY <1>1, <1>2, <1>4, TurnsExist
<1>6. F(f)
  <2>1. \A k \in 0..N : f[k] = IF k = 0 THEN {} ELSE G[k][f[k - 1]] BY <1>5 DEF Turns
  <2>2. \A k \in 0..N : k # 0 => k \in 1..N /\ f[k - 1] \in BombSets BY <1>1
  <2> QED BY <1>3, <2>1, <2>2
<1>7. PICK h : generate(picks) = h[N] /\ F(h) BY <1>6 DEF generate
<1>8. h[0] = {} /\ \A k \in 1..N : h[k] = Placed(h[k - 1], picks[k])
  <2>1. \A k \in 0..N : h[k] = IF k = 0 THEN {} ELSE Placed(h[k - 1], picks[k]) BY <1>7
  <2> QED BY <1>1, <2>1
<1>9. \A k \in 1..N : h[k - 1] \in BombSets => h[k] = G[k][h[k - 1]] BY <1>3, <1>8
<1>10. \A k \in 0..N : h[k] \in BombSets
  <2>1. h[0] \in BombSets BY <1>4, <1>8
  <2> HIDE DEF N
  <2> QED BY <1>1, <1>2, <1>9, <2>1, TurnsStay
<1> DEFINE first == calculate_buffer_pos(picks[1])
           P == {k \in Nat : k + 1 <= N => first \in h[k + 1]}
<1>11. 0 \in P
  <2>1. 1 \in 1..N /\ 1 - 1 = 0 BY <1>1
  <2>2. h[1] = Placed(h[0], picks[1]) BY <1>8, <2>1
  <2>3. first \in h[1] BY <1>1, <1>4, <1>8, <2>1, <2>2, PlacedIs
  <2> QED BY <2>3
<1>12. ASSUME NEW k \in P, k < N - 1 PROVE k + 1 \in P
  <2>1. /\ k \in Nat /\ k + 1 <= N /\ first \in h[k + 1] /\ k + 1 \in 0..N /\ (k + 1) + 1 \in 1..N
        /\ ((k + 1) + 1) - 1 = k + 1
    BY <1>1, <1>12
  <2>2. h[(k + 1) + 1] = Placed(h[k + 1], picks[(k + 1) + 1]) BY <1>8, <2>1
  <2>3. h[k + 1] \subseteq h[(k + 1) + 1] BY <1>1, <1>10, <2>1, <2>2, PlacedIs
  <2> QED BY <2>1, <2>3
<1>13. N - 1 \in P
  <2>1. P \in SUBSET Nat /\ N - 1 \in Nat BY <1>1
  <2> HIDE DEF P
  <2>2. 0..(N - 1) \subseteq P BY <1>11, <1>12, <2>1, CountingUp
  <2> QED BY <2>1, <2>2
<1>14. first \in h[N] BY <1>1, <1>13
<1>15. first \in InField BY <1>1, InFieldIs
<1> QED BY <1>1, <1>7, <1>10, <1>14, <1>15

\* What reveal() uncovers beside a cell that it may reveal, it may reveal too.
LEMMA FloodIs ==
  ASSUME NEW m, NEW c \in Field, CanReveal(m, c)
  PROVE  /\ Flood(m, c) \subseteq Field
         /\ \A d \in Flood(m, c) : CanReveal(m, d)
<1> DEFINE N == W * H
           X == {S \in SUBSET Field : \A d \in S : CanReveal(m, d)}
           G == [k \in 1..N |-> [S \in X |-> Spread(m, S)]]
           F(g) == g = [k \in 0..N |-> IF k = 0 THEN {c} ELSE Spread(m, g[k - 1])]
<1>1. N \in Nat BY FieldSizeIs
<1>2. ASSUME NEW S \in X PROVE Spread(m, S) \in X BY DEF Spread, Beside
<1>3. {c} \in X OBVIOUS
<1> HIDE DEF X, N
<1>4. G \in [1..N -> [X -> X]] BY <1>2
<1>5. \A k \in 1..N : \A S \in X : G[k][S] = Spread(m, S) OBVIOUS
<1> HIDE DEF G
<1>6. PICK f \in [0..N -> X] : Turns(f, N, {c}, G) BY <1>1, <1>3, <1>4, TurnsExist
<1>7. F(f)
  <2>1. \A k \in 0..N : f[k] = IF k = 0 THEN {c} ELSE G[k][f[k - 1]] BY <1>6 DEF Turns
  <2>2. \A k \in 0..N : k # 0 => k \in 1..N /\ f[k - 1] \in X BY <1>1
  <2> QED BY <1>5, <2>1, <2>2
<1>8. PICK h : Flood(m, c) = h[N] /\ F(h) BY <1>7 DEF Flood, N
<1>9. h[0] = {c} /\ \A k \in 1..N : h[k] = Spread(m, h[k - 1])
  <2>1. \A k \in 0..N : h[k] = IF k = 0 THEN {c} ELSE Spread(m, h[k - 1]) BY <1>8
  <2> QED BY <1>1, <2>1
<1>10. \A k \in 1..N : h[k - 1] \in X => h[k] = G[k][h[k - 1]] BY <1>5, <1>9
<1>11. \A k \in 0..N : h[k] \in X
  <2>1. h[0] \in X BY <1>3, <1>9
  <2> QED BY <1>1, <1>4, <1>10, <2>1, TurnsStay
<1> QED BY <1>1, <1>8, <1>11 DEF X

-----------------------------------------------------------------------------
(* Minesweeper: the numbers.                                               *)

LEMMA OffsetsAreFinite ==
  ASSUME NEW O \in SUBSET cell_check_offsets
  PROVE  IsFiniteSet(O) /\ Cardinality(O) \in Nat
<1>1. cell_check_offsets \subseteq (-W - 1)..(W + 1) BY FieldSizeIs DEF cell_check_offsets
<1>2. IsFiniteSet((-W - 1)..(W + 1))
  <2>1. -W - 1 \in Int /\ W + 1 \in Int BY FieldSizeIs
  <2> QED BY <2>1, FS_Interval
<1>3. IsFiniteSet(O) BY <1>1, <1>2, FS_Subset
<1> QED BY <1>3, FS_CardinalityType

\* How far apart two cells of neighbouring rows lie.
LEMMA RowsApart ==
  ASSUME NEW c \in Field, NEW d \in Field
  PROVE  /\ d[2] = c[2] => calculate_buffer_pos(d) - calculate_buffer_pos(c) = d[1] - c[1]
         /\ d[2] = c[2] - 1 => calculate_buffer_pos(d) - calculate_buffer_pos(c) = d[1] - c[1] - W
         /\ d[2] = c[2] + 1 => calculate_buffer_pos(d) - calculate_buffer_pos(c) = d[1] - c[1] + W
<1>1. /\ c[1] \in Nat /\ c[2] \in Nat /\ c[2] * W \in Nat
      /\ calculate_buffer_pos(c) = c[2] * W + W + c[1] + 1
  BY PositionIs
<1>2. /\ d[1] \in Nat /\ d[2] \in Nat /\ d[2] * W \in Nat
      /\ calculate_buffer_pos(d) = d[2] * W + W + d[1] + 1
  BY PositionIs
<1>3. d[2] = c[2] - 1 => d[2] * W = c[2] * W - W BY <1>1, <1>2, FieldSizeIs
<1>4. d[2] = c[2] + 1 => d[2] * W = c[2] * W + W BY <1>1, <1>2, FieldSizeIs
<1>5. d[2] = c[2] => d[2] * W = c[2] * W OBVIOUS
<1> DEFINE x == c[2] * W
           y == d[2] * W
<1> HIDE DEF x, y
<1>6. x \in Nat /\ c[1] \in Nat /\ W \in Nat /\ calculate_buffer_pos(c) = x + W + c[1] + 1
  BY <1>1, FieldSizeIs DEF x
<1>7. y \in Nat /\ d[1] \in Nat /\ calculate_buffer_pos(d) = y + W + d[1] + 1 BY <1>2 DEF y
<1>8. /\ d[2] = c[2] - 1 => y = x - W
      /\ d[2] = c[2] + 1 => y = x + W
      /\ d[2] = c[2] => y = x
  BY <1>3, <1>4, <1>5 DEF x, y
<1>9. ASSUME d[2] = c[2] PROVE calculate_buffer_pos(d) - calculate_buffer_pos(c) = d[1] - c[1]
  <2>1. y = x BY <1>8, <1>9
  <2> QED BY <1>6, <1>7, <2>1
<1>10. ASSUME d[2] = c[2] - 1
       PROVE  calculate_buffer_pos(d) - calculate_buffer_pos(c) = d[1] - c[1] - W
  <2>1. y = x - W BY <1>8, <1>10
  <2> QED BY <1>6, <1>7, <2>1
<1>11. ASSUME d[2] = c[2] + 1
       PROVE  calculate_buffer_pos(d) - calculate_buffer_pos(c) = d[1] - c[1] + W
  <2>1. y = x + W BY <1>8, <1>11
  <2> QED BY <1>6, <1>7, <2>1
<1> QED BY <1>9, <1>10, <1>11

\* A step of x cells and y rows.
Offset(x, y) == (IF y = 0 THEN 0 ELSE IF y < 0 THEN -W ELSE W) + x

LEMMA OffsetIs ==
  /\ W >= 3 => \A x, y, v, w \in {-1, 0, 1} : Offset(x, y) = Offset(v, w) => x = v /\ y = w
  /\ \A x, y \in {-1, 0, 1} : x # 0 \/ y # 0 => Offset(x, y) \in cell_check_offsets
  /\ \A o \in cell_check_offsets :
       \E x, y \in {-1, 0, 1} : (x # 0 \/ y # 0) /\ o = Offset(x, y)
<1>1. \A x, y \in {-1, 0, 1} : x # 0 \/ y # 0 => Offset(x, y) \in cell_check_offsets
  BY FieldSizeIs DEF Offset, cell_check_offsets
<1>2. ASSUME NEW o \in cell_check_offsets
      PROVE  \E x, y \in {-1, 0, 1} : (x # 0 \/ y # 0) /\ o = Offset(x, y)
  <2>1. o \in {-1, 1, W, -W, -W - 1, -W + 1, W - 1, W + 1} BY DEF cell_check_offsets
  <2> QED BY <2>1, FieldSizeIs DEF Offset
<1>3. ASSUME W >= 3, NEW x \in {-1, 0, 1}, NEW y \in {-1, 0, 1}, NEW v \in {-1, 0, 1},
             NEW w \in {-1, 0, 1}, Offset(x, y) = Offset(v, w)
      PROVE  x = v /\ y = w
  <2>1. W \in Nat BY FieldSizeIs
  <2>2. CASE y = 0 BY <1>3, <2>1, <2>2 DEF Offset
  <2>3. CASE y = 1 BY <1>3, <2>1, <2>3 DEF Offset
  <2>4. CASE y = -1 BY <1>3, <2>1, <2>4 DEF Offset
  <2> QED BY <2>2, <2>3, <2>4
<1> QED BY <1>1, <1>2, <1>3

\* The cells around one away from the edges, and the offsets, in turn.
LEMMA CountIsAround ==
  ASSUME NEW B \in BombSets, NEW c \in Field, c[1] \in 1..(W - 2),
         c[2] < H - 1 \/ B \subseteq InField
  PROVE  CountBombs(B, calculate_buffer_pos(c)) =
           Cardinality({d \in Around(c) : calculate_buffer_pos(d) \in B})
<1> DEFINE i == calculate_buffer_pos(c)
           O == {o \in cell_check_offsets : i + o \in B}
           D == {d \in Around(c) : calculate_buffer_pos(d) \in B}
           g == [d \in D |-> calculate_buffer_pos(d) - i]
<1>1. /\ c[1] \in Nat /\ c[2] \in Nat /\ c[1] >= 1 /\ c[1] <= W - 2 /\ c[2] <= H - 1
      /\ c = <<c[1], c[2]>> /\ i \in Nat /\ W \in Nat /\ W >= 3 /\ H \in Nat
  BY PositionIs, FieldSizeIs
<1>2. ASSUME NEW d \in Around(c)
      PROVE  /\ d \in Field /\ d[1] \in Nat /\ d[2] \in Nat /\ d = <<d[1], d[2]>> /\ d # c
             /\ calculate_buffer_pos(d) \in Nat
             /\ \E x, y \in {-1, 0, 1} : /\ d[1] = c[1] + x /\ d[2] = c[2] + y
                                        /\ calculate_buffer_pos(d) - i = Offset(x, y)
  <2>1. d \in Field /\ d # c /\ d[1] \in (c[1] - 1)..(c[1] + 1) /\ d[2] \in (c[2] - 1)..(c[2] + 1)
    BY DEF Around
  <2>2. d[1] \in Nat /\ d[2] \in Nat /\ d = <<d[1], d[2]>> /\ calculate_buffer_pos(d) \in Nat
    BY <2>1, PositionIs
  <2>3. PICK x \in {-1, 0, 1} : d[1] = c[1] + x
    <3>1. d[1] = c[1] - 1 \/ d[1] = c[1] \/ d[1] = c[1] + 1 BY <1>1, <2>1, <2>2
    <3> QED BY <1>1, <3>1
  <2>4. PICK y \in {-1, 0, 1} : d[2] = c[2] + y
    <3>1. d[2] = c[2] - 1 \/ d[2] = c[2] \/ d[2] = c[2] + 1 BY <1>1, <2>1, <2>2
    <3> QED BY <1>1, <3>1
  <2>5. /\ d[2] = c[2] => calculate_buffer_pos(d) - i = d[1] - c[1]
        /\ d[2] = c[2] - 1 => calculate_buffer_pos(d) - i = d[1] - c[1] - W
        /\ d[2] = c[2] + 1 => calculate_buffer_pos(d) - i = d[1] - c[1] + W
    BY <2>1, RowsApart
  <2> HIDE DEF i
  <2>6. calculate_buffer_pos(d) - i = Offset(x, y)
    <3>1. d[1] - c[1] = x BY <1>1, <2>3
    <3>2. CASE y = 0 BY <1>1, <2>4, <2>5, <3>1, <3>2 DEF Offset
    <3>3. CASE y = -1 BY <1>1, <2>4, <2>5, <3>1, <3>3 DEF Offset
    <3>4. CASE y = 1 BY <1>1, <2>4, <2>5, <3>1, <3>4 DEF Offset
    <3> QED BY <3>2, <3>3, <3>4
  <2> QED BY <2>1, <2>2, <2>3, <2>4, <2>6
<1>3. g \in [D -> O]
  <2> SUFFICES ASSUME NEW d \in D PROVE calculate_buffer_pos(d) - i \in O OBVIOUS
  <2> HIDE DEF i
  <2>1. PICK x \in {-1, 0, 1}, y \in {-1, 0, 1} :
          d[1] = c[1] + x /\ d[2] = c[2] + y /\ calculate_buffer_pos(d) - i = Offset(x, y)
    BY <1>2
  <2>2. calculate_buffer_pos(d) - i \in cell_check_offsets
    <3>1. x # 0 \/ y # 0
      <4>1. SUFFICES ASSUME x = 0, y = 0 PROVE FALSE OBVIOUS
      <4>2. d[1] = c[1] /\ d[2] = c[2] BY <1>1, <2>1, <4>1
      <4> QED BY <1>1, <1>2, <4>2
    <3> QED BY <2>1, <3>1, OffsetIs
  <2>3. i + (calculate_buffer_pos(d) - i) = calculate_buffer_pos(d) BY <1>1, <1>2
  <2> QED BY <2>2, <2>3
<1>4. ASSUME NEW d \in D, NEW e \in D, g[d] = g[e] PROVE d = e
  <2> HIDE DEF i
  <2>1. d \in Around(c) /\ e \in Around(c) OBVIOUS
  <2>2. calculate_buffer_pos(d) - i = calculate_buffer_pos(e) - i BY <1>4
  <2>3. PICK x \in {-1, 0, 1}, y \in {-1, 0, 1} :
          d[1] = c[1] + x /\ d[2] = c[2] + y /\ calculate_buffer_pos(d) - i = Offset(x, y)
    BY <1>2, <2>1
  <2>4. PICK v \in {-1, 0, 1}, w \in {-1, 0, 1} :
          e[1] = c[1] + v /\ e[2] = c[2] + w /\ calculate_buffer_pos(e) - i = Offset(v, w)
    BY <1>2, <2>1
  <2>5. x = v /\ y = w BY <1>1, <2>2, <2>3, <2>4, OffsetIs
  <2>6. d[1] = e[1] /\ d[2] = e[2] BY <2>3, <2>4, <2>5
  <2> QED BY <1>2, <2>1, <2>6
<1>5. ASSUME NEW o \in O PROVE \E d \in D : g[d] = o
  <2>1. PICK x \in {-1, 0, 1}, y \in {-1, 0, 1} : (x # 0 \/ y # 0) /\ o = Offset(x, y)
    BY OffsetIs
  <2> DEFINE d == <<c[1] + x, c[2] + y>>
  <2>2. i + o \in B /\ i + o > W BY DEF BombSets
  <2>3. i = c[2] * W + W + c[1] + 1 BY PositionIs
  <2>4. c[2] + y >= 0
    <3>1. SUFFICES ASSUME c[2] = 0, y = -1 PROVE FALSE BY <1>1
    <3>2. c[2] * W = 0 BY <1>1, <3>1
    <3>3. i = W + c[1] + 1 BY <1>1, <2>3, <3>2
    <3>4. o = -W + x BY <2>1, <3>1 DEF Offset
    <3> HIDE DEF i
    <3> QED BY <1>1, <2>2, <3>3, <3>4
  <2>5. c[2] + y <= H - 1
    <3>1. SUFFICES ASSUME c[2] = H - 1, y = 1 PROVE FALSE BY <1>1
    <3>2. i + o \in InField BY <1>1, <2>2, <3>1
    <3>3. i + o <= H * W + W BY <3>2, InFieldIs
    <3>4. c[2] * W = H * W - W BY <1>1, <3>1
    <3>5. H * W \in Nat BY FieldSizeIs
    <3>6. o = W + x BY <2>1, <3>1 DEF Offset
    <3> DEFINE all == H * W
    <3> HIDE DEF all, i
    <3>7. all \in Nat /\ i + o <= all + W /\ i = (all - W) + W + c[1] + 1
      BY <2>3, <3>3, <3>4, <3>5 DEF all
    <3> QED BY <1>1, <3>6, <3>7
  <2>6. d \in Field /\ d[1] = c[1] + x /\ d[2] = c[2] + y
    <3>1. c[1] + x \in 0..(W - 1) /\ c[2] + y \in 0..(H - 1) BY <1>1, <2>4, <2>5
    <3> QED BY <3>1 DEF Field
  <2> HIDE DEF d
  <2>7. d \in Around(c) BY <1>1, <2>1, <2>6 DEF Around
  <2>8. calculate_buffer_pos(d) - i = o
    <3>1. PICK v \in {-1, 0, 1}, w \in {-1, 0, 1} :
            d[1] = c[1] + v /\ d[2] = c[2] + w /\ calculate_buffer_pos(d) - i = Offset(v, w)
      BY <1>2, <2>7
    <3>2. v = x /\ w = y BY <1>1, <2>6, <3>1
    <3> QED BY <2>1, <3>1, <3>2
  <2>9. calculate_buffer_pos(d) = i + o BY <1>1, <1>2, <2>1, <2>7, <2>8
  <2>10. d \in D BY <2>2, <2>7, <2>9
  <2> QED BY <2>8, <2>10
<1> HIDE DEF i, O, D, g
<1>6. g \in Bijection(D, O) BY <1>3, <1>4, <1>5 DEF Bijection, Injection, Surjection, IsInjective
<1>7. ExistsBijection(O, D) BY <1>6, Fun_ExistsBijSymmetric DEF ExistsBijection
<1>8. IsFiniteSet(O) BY OffsetsAreFinite DEF O
<1>9. Cardinality(D) = Cardinality(O) BY <1>7, <1>8, FS_Bijection
<1> QED BY <1>9 DEF CountBombs, O, D, i

-----------------------------------------------------------------------------
(* Minesweeper: the board.                                                 *)

Boards ==
  [bombs : BombSets, revealed : SUBSET InField, marked : SUBSET InField, shown : [Position -> Nat]]
ShownTrue(m) == \A i \in m.revealed \ m.bombs : m.shown[i] = CountBombs(m.bombs, i)
Apart(m) == m.revealed \cap m.bombs = {} /\ m.revealed \cap m.marked = {}

BoardInv ==
  /\ game \in [state : {"playing", "won", "lost", "exit"}, cursor : Field]
  /\ cells \in Boards /\ ShownTrue(cells) /\ WonByMarking

\* reveal() uncovers neither bombs nor marks, and writes the numbers.
LEMMA RevealIs ==
  ASSUME NEW m \in Boards, ShownTrue(m), NEW c \in Field
  PROVE  /\ reveal(m, c) \in Boards /\ ShownTrue(reveal(m, c))
         /\ reveal(m, c).bombs = m.bombs /\ reveal(m, c).marked = m.marked
         /\ Apart(m) => Apart(reveal(m, c))
<1>1. CASE ~CanReveal(m, c) BY <1>1 DEF reveal
<1>2. CASE CanReveal(m, c)
  <2> DEFINE fresh == {calculate_buffer_pos(d) : d \in Flood(m, c)}
             shown == [i \in Position |-> IF i \in fresh THEN CountBombs(m.bombs, i) ELSE m.shown[i]]
  <2>1. reveal(m, c) = [m EXCEPT !.revealed = m.revealed \cup fresh, !.shown = shown]
    BY <1>2 DEF reveal, Uncover
  <2>2. fresh \subseteq InField /\ \A i \in fresh : i \notin m.bombs /\ i \notin m.marked
    BY <1>2, FloodIs, InFieldIs DEF CanReveal
  <2> HIDE DEF fresh
  <2>3. m.bombs \in BombSets /\ m.revealed \subseteq InField /\ m.shown \in [Position -> Nat] BY DEF Boards
  <2>4. shown \in [Position -> Nat]
    <3>1. \A i \in Position : CountBombs(m.bombs, i) \in Nat BY OffsetsAreFinite DEF CountBombs
    <3> QED BY <2>3, <3>1
  <2>5. \A i \in (m.revealed \cup fresh) \ m.bombs : shown[i] = CountBombs(m.bombs, i)
    <3>1. \A i \in m.revealed \cup fresh : i \in Position BY <2>2, <2>3, InFieldIs
    <3> QED BY <3>1 DEF ShownTrue
  <2> HIDE DEF shown
  <2>6. reveal(m, c) \in Boards BY <2>1, <2>2, <2>3, <2>4 DEF Boards
  <2>7. /\ reveal(m, c).bombs = m.bombs /\ reveal(m, c).marked = m.marked
        /\ reveal(m, c).revealed = m.revealed \cup fresh /\ reveal(m, c).shown = shown
    BY <2>1 DEF Boards
  <2>8. ShownTrue(reveal(m, c)) BY <2>5, <2>7 DEF ShownTrue
  <2>9. Apart(m) => Apart(reveal(m, c)) BY <2>2, <2>7 DEF Apart
  <2> QED BY <2>6, <2>7, <2>8, <2>9
<1> QED BY <1>1, <1>2

LEMMA MarkIs ==
  ASSUME NEW m \in Boards, ShownTrue(m), NEW i \in InField
  PROVE  /\ MarkAsBomb(m, i) \in Boards /\ ShownTrue(MarkAsBomb(m, i))
         /\ MarkAsBomb(m, i).bombs = m.bombs
         /\ Apart(m) => Apart(MarkAsBomb(m, i))
<1>1. CASE i \in m.revealed BY <1>1 DEF MarkAsBomb
<1>2. CASE i \notin m.revealed
  <2> DEFINE marked == IF i \in m.marked THEN m.marked \ {i} ELSE m.marked \cup {i}
  <2>1. MarkAsBomb(m, i) = [m EXCEPT !.marked = marked] BY <1>2 DEF MarkAsBomb
  <2>2. marked \subseteq InField /\ marked \subseteq m.marked \cup {i} BY DEF Boards
  <2> HIDE DEF marked
  <2>3. MarkAsBomb(m, i) \in Boards BY <2>1, <2>2 DEF Boards
  <2>4. LET n == MarkAsBomb(m, i)
        IN n.bombs = m.bombs /\ n.revealed = m.revealed /\ n.shown = m.shown /\ n.marked = marked
    BY <2>1 DEF Boards
  <2> QED BY <1>2, <2>2, <2>3, <2>4 DEF ShownTrue, Apart
<1> QED BY <1>1, <1>2

\* A board as it is laid out.
LEMMA NewBoard ==
  ASSUME NEW picks \in Seeds
  PROVE  /\ NewCells(picks) \in Boards /\ ShownTrue(NewCells(picks)) /\ Apart(NewCells(picks))
         /\ ~check_all_bombs(NewCells(picks))
<1> DEFINE shown == [i \in Position |-> 0]
           B == generate(picks)
<1>1. NewCells(picks) = [bombs |-> B, revealed |-> {}, marked |-> {}, shown |-> shown] BY DEF NewCells
<1>2. shown \in [Position -> Nat] OBVIOUS
<1>3. B \in BombSets /\ B \cap InField # {} BY GenerateIs
<1> HIDE DEF shown, B
<1> QED BY <1>1, <1>2, <1>3 DEF Boards, ShownTrue, Apart, check_all_bombs

\* Where the game stands after the bombs were checked.
LEMMA CheckedIs ==
  ASSUME NEW m \in Boards, ShownTrue(m), Apart(m), game \in [state : {"playing", "won", "lost", "exit"}, cursor : Field],
         cells' = m, game' = [game EXCEPT !.state = Outcome(m)]
  PROVE  BoardInv'
<1>1. game'.state = Outcome(m) /\ game' \in [state : {"playing", "won", "lost", "exit"}, cursor : Field]
  BY DEF Outcome
<1>2. game'.state = "won" <=> check_all_bombs(m) BY <1>1 DEF Outcome
<1> QED BY <1>1, <1>2 DEF BoardInv, WonByMarking, Apart, check_all_bombs

LEMMA RevealKeyBoard == ASSUME BoardInv, RevealKey PROVE BoardInv'
<1> DEFINE i == calculate_buffer_pos(game.cursor)
           seen == IF i \in cells.marked THEN cells ELSE reveal(cells, game.cursor)
           after == IF game.cursor[2] = MARK_ROW THEN MarkAsBomb(seen, i) ELSE seen
<1>1. /\ game \in [state : {"playing", "won", "lost", "exit"}, cursor : Field] /\ game.state = "playing"
      /\ cells \in Boards /\ ShownTrue(cells) /\ Apart(cells) /\ ~check_all_bombs(cells) /\ i \in InField
  <2>1. game.state = "playing" BY DEF RevealKey, Playing
  <2>2. game.cursor \in Field BY DEF BoardInv
  <2> QED BY <2>1, <2>2, InFieldIs DEF BoardInv, WonByMarking, Apart, check_all_bombs
<1>2. CASE i \in cells.bombs \ cells.marked
  <2>1. /\ cells' = [cells EXCEPT !.revealed = cells.revealed \cup (cells.bombs \cap InField)]
        /\ game' = [game EXCEPT !.state = "lost"]
    BY <1>2 DEF RevealKey
  <2>2. /\ cells' \in Boards /\ cells'.bombs = cells.bombs /\ cells'.marked = cells.marked
        /\ cells'.shown = cells.shown /\ cells'.revealed = cells.revealed \cup (cells.bombs \cap InField)
    BY <1>1, <2>1 DEF Boards
  <2>3. ShownTrue(cells') BY <1>1, <2>2 DEF ShownTrue
  <2>4. game' \in [state : {"playing", "won", "lost", "exit"}, cursor : Field] /\ game'.state = "lost"
    BY <1>1, <2>1
  <2> QED BY <1>1, <2>2, <2>3, <2>4 DEF BoardInv, WonByMarking, check_all_bombs
<1>3. CASE i \notin cells.bombs \ cells.marked
  <2>1. /\ cells' = after
        /\ game' = [game EXCEPT !.state = IF game.cursor[2] = MARK_ROW THEN Outcome(after) ELSE game.state]
    BY <1>3 DEF RevealKey
  <2>2. /\ seen \in Boards /\ ShownTrue(seen) /\ Apart(seen) /\ seen.bombs = cells.bombs
        /\ seen.marked = cells.marked
    <3>1. game.cursor \in Field BY <1>1
    <3> QED BY <1>1, <3>1, RevealIs
  <2>3. CASE game.cursor[2] = MARK_ROW
    <3> HIDE DEF seen, i
    <3>1. after = MarkAsBomb(seen, i) BY <2>3
    <3>2. after \in Boards /\ ShownTrue(after) /\ Apart(after) BY <1>1, <2>2, <3>1, MarkIs
    <3> HIDE DEF after
    <3> QED BY <1>1, <2>1, <2>3, <3>2, CheckedIs
  <2>4. CASE game.cursor[2] # MARK_ROW
    <3> HIDE DEF seen
    <3>1. cells' = seen /\ game' = game
      <4>1. game' = [game EXCEPT !.state = game.state] BY <2>1, <2>4
      <4> QED BY <1>1, <2>1, <2>4, <4>1
    <3> QED BY <1>1, <2>2, <3>1 DEF BoardInv, WonByMarking, Apart, check_all_bombs
  <2> QED BY <2>3, <2>4
<1> QED BY <1>2, <1>3

LEMMA MarkKeyBoard == ASSUME BoardInv, MarkKey PROVE BoardInv'
<1> DEFINE m == MarkAsBomb(cells, calculate_buffer_pos(game.cursor))
<1>1. cells' = m /\ game' = [game EXCEPT !.state = Outcome(m)] /\ game.state = "playing"
  BY DEF MarkKey, Playing
<1>2. /\ game \in [state : {"playing", "won", "lost", "exit"}, cursor : Field] /\ cells \in Boards
      /\ ShownTrue(cells) /\ Apart(cells) /\ calculate_buffer_pos(game.cursor) \in InField
  BY <1>1, InFieldIs DEF BoardInv, WonByMarking, Apart
<1>3. m \in Boards /\ ShownTrue(m) /\ Apart(m) BY <1>2, MarkIs
<1> HIDE DEF m
<1> QED BY <1>1, <1>2, <1>3, CheckedIs

LEMMA StartBoard ==
  ASSUME NEW picks \in Seeds, game' = NewGame, cells' = NewCells(picks)
  PROVE  BoardInv'
<1>1. <<0, 0>> \in Field BY FieldSizeIs DEF Field
<1>2. game' \in [state : {"playing", "won", "lost", "exit"}, cursor : Field] /\ game'.state = "playing"
  BY <1>1 DEF NewGame
<1> QED BY <1>2, NewBoard DEF BoardInv, WonByMarking, Apart, check_all_bombs

LEMMA InitBoard == MineInit => BoardInv
<1> SUFFICES ASSUME MineInit PROVE BoardInv OBVIOUS
<1>1. PICK picks \in Seeds : cells = NewCells(picks) BY DEF MineInit
<1>2. <<0, 0>> \in Field BY FieldSizeIs DEF Field
<1>3. game \in [state : {"playing", "won", "lost", "exit"}, cursor : Field] /\ game.state = "playing"
  BY <1>2 DEF MineInit, NewGame
<1> QED BY <1>1, <1>3, NewBoard DEF BoardInv, WonByMarking, Apart, check_all_bombs

LEMMA CursorBoard == ASSUME BoardInv, NEW dx, NEW dy, CursorKey(dx, dy) PROVE BoardInv'
<1>1. /\ game' = [game EXCEPT !.cursor = <<game.cursor[1] + dx, game.cursor[2] + dy>>]
      /\ <<game.cursor[1] + dx, game.cursor[2] + dy>> \in Field /\ UNCHANGED cells
  BY DEF CursorKey
<1>2. game \in [state : {"playing", "won", "lost", "exit"}, cursor : Field] BY DEF BoardInv
<1>3. /\ game' \in [state : {"playing", "won", "lost", "exit"}, cursor : Field]
      /\ game'.state = game.state
  BY <1>1, <1>2
<1> QED BY <1>1, <1>3 DEF BoardInv, WonByMarking

LEMMA StepBoard == ASSUME BoardInv, [MineNext]_mineVars PROVE BoardInv'
<1>1. CASE RevealKey BY <1>1, RevealKeyBoard
<1>2. CASE MarkKey BY <1>2, MarkKeyBoard
<1>3. CASE ExitKey
  <2>1. game' = [game EXCEPT !.state = "exit"] /\ UNCHANGED cells BY <1>3 DEF ExitKey
  <2>2. game \in [state : {"playing", "won", "lost", "exit"}, cursor : Field] BY DEF BoardInv
  <2>3. /\ game' \in [state : {"playing", "won", "lost", "exit"}, cursor : Field]
        /\ game'.state = "exit"
    BY <2>1, <2>2
  <2> QED BY <2>1, <2>3 DEF BoardInv, WonByMarking
<1>4. CASE RestartKey BY <1>4, StartBoard DEF RestartKey
<1>5. CASE CursorKey(0, 1) \/ CursorKey(0, -1) \/ CursorKey(1, 0) \/ CursorKey(-1, 0)
  BY <1>5, CursorBoard
<1>6. CASE UNCHANGED mineVars BY <1>6 DEF mineVars, BoardInv, WonByMarking
<1> QED BY <1>1, <1>2, <1>3, <1>4, <1>5, <1>6 DEF MineNext

\* Wherever the bombs are put and whatever keys are pressed, a revealed cell away from
\* the left and the right edge shows how many bombs are around it, a game that goes on or
\* is won shows none, and it is won exactly when all of them and nothing else are marked
\* (minesweeper.asm:109-318).
THEOREM BoardTrue == MineSpec => []BoardTellsTheTruth
<1>1. BoardInv => BoardTellsTheTruth
  <2> SUFFICES ASSUME BoardInv, NEW c \in Field,
                      calculate_buffer_pos(c) \in cells.revealed \ cells.bombs,
                      c[1] \in 1..(W - 2), c[2] < H - 1 \/ cells.bombs \subseteq InField
               PROVE  cells.shown[calculate_buffer_pos(c)] =
                        Cardinality({d \in Around(c) : calculate_buffer_pos(d) \in cells.bombs})
    BY DEF BoardTellsTheTruth, NumbersTellBombs, BoardInv
  <2>1. cells.bombs \in BombSets BY DEF BoardInv, Boards
  <2>2. cells.shown[calculate_buffer_pos(c)] = CountBombs(cells.bombs, calculate_buffer_pos(c))
    BY DEF BoardInv, ShownTrue
  <2> QED BY <2>1, <2>2, CountIsAround
<1>2. (BoardInv /\ [MineNext]_mineVars) => BoardInv' BY StepBoard
<1> QED BY <1>1, <1>2, InitBoard, PTL DEF MineSpec

=============================================================================
