------------------------------ MODULE Console ------------------------------
(***************************************************************************)
(* The terminal, terminal/tty.c, the line input behind its read,           *)
(* keyboard/input.c, and the kernel's printf, print.c.  Every process has  *)
(* opened /dev/tty for itself; the screen and the keyboard are one for     *)
(* all.  A read waits for keys with interrupts on, so the reads of several *)
(* processes overlap: each key goes to whoever fetches it, and the echo of *)
(* a key may be interrupted between any two accesses to the screen.  All   *)
(* other prints run with interrupts off.  The ring of the keyboard is      *)
(* module KeyboardRing.  Colours are left out.                             *)
(***************************************************************************)
EXTENDS Integers, Sequences, SequencesExt

CONSTANTS Procs, VGA_WIDTH, VGA_HEIGHT,
          UINT8,      \* values of cursor_row and cursor_col, 256
          TAB,        \* blanks of a '\t', 8
          LINE,       \* bytes get_line begins with, and asks for more, 32
          Chars,      \* characters: what a key or a text may print, and what a cell holds
          LetterKeys, \* keys that print, each with its two characters
          Amounts,    \* buffer sizes the processes read with
          Texts,      \* what they write
          CursorPositions,  \* <<row, column>> where they put the cursor
          PrintedInts, \* what the kernel prints
          IntMin,     \* the smallest int
          MaxCalls    \* bound: lines fetched, texts printed, and keys that echo

Space == " "
HexDigits == <<"0", "1", "2", "3", "4", "5", "6", "7", "8", "9", "A", "B", "C", "D", "E", "F">>

\* Keys that move the cursor, but for the tab, do not print; print.c prints with ints.
ASSUME ConsoleAssumption ==
  /\ {VGA_WIDTH, VGA_HEIGHT, TAB, LINE} \cup Amounts \subseteq Nat \ {0} /\ MaxCalls \in Nat
  /\ UINT8 \in Nat /\ VGA_WIDTH < UINT8 /\ VGA_HEIGHT < UINT8
  /\ {"NUL", "0", Space, "-", "back", "garbage"} \subseteq Chars /\ HexDigits \in [1..16 -> Chars]
  /\ LetterKeys \subseteq Chars \X Chars
  /\ \A k \in LetterKeys : {k[1], k[2]} \cap {"newline", "return", "back"} = {}
  /\ Texts \subseteq Seq(Chars)
  /\ CursorPositions \subseteq (0..(VGA_HEIGHT - 1)) \X (0..(VGA_WIDTH - 1))
  /\ PrintedInts \subseteq Int /\ IntMin \in Int /\ IntMin < 0

VARIABLES screen,   \* [cells, row, col]: the text buffer and the cursor
          file,     \* the tty file of a process: is it open, has it a line, and its rest
          reading,  \* the get_line a process is in: the characters, shift, was it grown or ended
          echo,     \* what a process still echoes, the next access, and what it has read
          wanted,   \* not in the code: the line as an editor makes it, while the file has one
          got,      \* not in the code: what the reads gave of it
          zero,     \* not in the code: did the last read of the process return 0?
          calls,    \* not in the code: counts up to MaxCalls
          origin,   \* not in the code: where on the screen its line begins, if it still stands there
          strayed   \* not in the code: has a backspace taken another column than it asked for?

fileVars == <<file, wanted, got, zero>>
consoleVars == <<screen, reading, echo, fileVars, origin, strayed, calls>>

Call(waits, amount) ==
  [buffer |-> <<>>, shifted |-> FALSE, grown |-> FALSE, ended |-> FALSE,
   waits |-> waits, amount |-> amount]
NoCall == Call(FALSE, 0)
NoLine == [open |-> TRUE, has |-> FALSE, rest |-> <<>>]
Closed == [open |-> FALSE, has |-> FALSE, rest |-> <<>>]
\* A place on the screen that another print has changed, a line that wrapped or has a tab.
Nowhere == -1

\* An editor of one line, the reference for get_line.
NewLine == [text |-> <<>>, shift |-> FALSE, lost |-> FALSE]
WithShift(w, pressed) == [w EXCEPT !.shift = pressed]
WithoutLast(w) == [w EXCEPT !.text = Front(@)]
WithKey(w, key) == [w EXCEPT !.text = Append(@, IF w.shift THEN key[2] ELSE key[1])]

-----------------------------------------------------------------------------
(* The screen.                                                             *)

Cells == 0..(VGA_WIDTH * VGA_HEIGHT - 1)
\* The cell under the cursor; what is written behind the cells is not seen.
Cursor(s) == s.col + s.row * VGA_WIDTH
Written(contents, i, c) == [contents EXCEPT ![i] = c]
Below(contents, i) == IF i + VGA_WIDTH \in Cells THEN contents[i + VGA_WIDTH] ELSE "NUL"
Next8(n) == (n + 1) % UINT8
Previous8(n) == IF n = 0 THEN UINT8 - 1 ELSE n - 1

newline(s) ==
  IF Next8(s.row) < VGA_HEIGHT THEN [cells |-> s.cells, row |-> Next8(s.row), col |-> 0]
  ELSE [cells |-> [i \in Cells |-> Below(s.cells, i)], row |-> VGA_HEIGHT - 1, col |-> 0]
Put(s, c) ==
  LET t == [cells |-> IF Cursor(s) \in Cells THEN Written(s.cells, Cursor(s), c) ELSE s.cells,
            row |-> s.row, col |-> Next8(s.col)]
  IN IF t.col >= VGA_WIDTH THEN newline(t) ELSE t
Blanks(s) ==
  LET upTo[k \in 0..TAB] == IF k = 0 THEN s ELSE Put(upTo[k - 1], Space) IN upTo[TAB]
print_char(s, c) ==
  CASE c = "newline" -> newline(s)
    [] c = "return" -> [s EXCEPT !.col = 0]
    [] c = "tab" -> Blanks(s)
    [] c = "back" -> [s EXCEPT !.col = IF @ > 0 THEN @ - 1 ELSE @]
    [] OTHER -> Put(s, c)
tty_print(text) ==
  LET upTo[k \in 0..Len(text)] == IF k = 0 THEN screen ELSE print_char(upTo[k - 1], text[k])
  IN upTo[Len(text)]
Cleared0 == [cells |-> [i \in Cells |-> "0"], row |-> 0, col |-> 0]

\* print.c: digits of the magnitude; the smallest number has none, and 0 is one digit.
DigitsIn(n, base) ==
  LET upTo[m \in 0..n] ==
        IF m = 0 THEN <<>> ELSE Append(upTo[m \div base], HexDigits[(m % base) + 1])
  IN upTo[n]
print_int(n) ==
  CASE n = 0 -> <<"0">> [] n = IntMin -> <<"-">>
    [] n < 0 /\ n # IntMin -> <<"-">> \o DigitsIn(-n, 10) [] OTHER -> DigitsIn(n, 10)
print_hex(n) == IF n = 0 THEN <<"0">> ELSE DigitsIn(n % (-2 * IntMin), 16)

\* Whoever prints spoils the lines of the others on the screen.
Shown(s) == screen' = s /\ origin' = [q \in Procs |-> Nowhere]

-----------------------------------------------------------------------------
(* The file.                                                               *)

Counted == calls < MaxCalls /\ calls' = calls + 1
Idle(p) == ~reading[p].waits

tty_open(p) ==
  /\ Idle(p) /\ ~file[p].open
  /\ file' = [file EXCEPT ![p] = NoLine]
  /\ zero' = [zero EXCEPT ![p] = FALSE]
  /\ UNCHANGED <<screen, reading, echo, wanted, got, origin, strayed, calls>>
\* The rest of a line is not freed.
tty_close(p) ==
  /\ Idle(p) /\ file[p].open
  /\ file' = [file EXCEPT ![p] = Closed]
  /\ wanted' = [wanted EXCEPT ![p] = NewLine] /\ got' = [got EXCEPT ![p] = <<>>]
  /\ UNCHANGED <<screen, reading, echo, zero, origin, strayed, calls>>

tty_write(p, text) ==
  /\ Idle(p) /\ file[p].open
  /\ Shown(tty_print(text))
  /\ Counted
  /\ UNCHANGED <<fileVars, reading, echo, strayed>>
tty_clear(p) ==
  /\ Idle(p) /\ file[p].open
  /\ Shown(Cleared0)
  /\ Counted
  /\ UNCHANGED <<fileVars, reading, echo, strayed>>
\* TTY_SET_CURSOR_POS takes the row from the high 16 bits and asks for no bound; no
\* program sets one outside the screen.
tty_set_cursor(p, position) ==
  /\ Idle(p) /\ file[p].open
  /\ Shown([screen EXCEPT !.row = position[1], !.col = position[2]])
  /\ Counted
  /\ UNCHANGED <<fileVars, reading, echo, strayed>>
printf(n) ==
  /\ \E digits \in {print_int(n), print_hex(n)} : Shown(tty_print(digits))
  /\ Counted
  /\ UNCHANGED <<fileVars, reading, echo, strayed>>

\* A read of a file with a line: the rest of it, or 0 once if there is none.
HandOver(p, rest, amount) ==
  LET n == IF Len(rest) < amount THEN Len(rest) ELSE amount IN
  /\ file' = [file EXCEPT ![p] = [open |-> TRUE, has |-> TRUE, rest |-> SubSeq(rest, n + 1, Len(rest))]]
  /\ got' = [got EXCEPT ![p] = @ \o SubSeq(rest, 1, n)]
  /\ zero' = [zero EXCEPT ![p] = n = 0]
tty_read(p, amount) ==
  /\ Idle(p) /\ file[p].open /\ file[p].has /\ file[p].rest # <<>>
  /\ HandOver(p, file[p].rest, amount)
  /\ UNCHANGED <<screen, reading, echo, wanted, origin, strayed, calls>>
ReadEnd(p) ==
  /\ Idle(p) /\ file[p].has /\ file[p].rest = <<>>
  /\ file' = [file EXCEPT ![p] = NoLine]
  /\ wanted' = [wanted EXCEPT ![p] = NewLine] /\ got' = [got EXCEPT ![p] = <<>>]
  /\ zero' = [zero EXCEPT ![p] = TRUE]
  /\ UNCHANGED <<screen, reading, echo, origin, strayed, calls>>
\* A read of a file without a line goes into get_line, unless there is no memory.
ReadLine(p, amount) ==
  /\ Idle(p) /\ file[p].open /\ ~file[p].has
  /\ reading' = [reading EXCEPT ![p] = Call(TRUE, amount)]
  /\ origin' = [origin EXCEPT ![p] = Cursor(screen)]
  /\ zero' = [zero EXCEPT ![p] = FALSE]
  /\ Counted
  /\ UNCHANGED <<screen, echo, file, wanted, got, strayed>>
ReadFails(p) ==
  /\ Idle(p) /\ file[p].open /\ ~file[p].has
  /\ zero' = [zero EXCEPT ![p] = TRUE]
  /\ UNCHANGED <<screen, file, reading, echo, wanted, got, origin, strayed, calls>>

-----------------------------------------------------------------------------
(* The echo: print_char as get_line runs it, one access to the screen or   *)
(* to the cursor at a time, as the build (no -O) makes them.               *)

\* A step of an echo: a value read is kept until it is used.
State(text, step, value, place) == [text |-> text, at |-> step, read |-> value, cell |-> place]
Silence == State(<<>>, "done", 0, 0)
First(text) ==
  CASE text = <<>> -> "done" [] text # <<>> /\ Head(text) = "newline" -> "home"
    [] text # <<>> /\ Head(text) = "back" -> "test" [] OTHER -> "column"
Echo(text) == State(text, First(text), 0, 0)

\* An access of p when it is at a step, and what it goes on with.
AtStep(p, step) == echo[p].at = step
GoesOn(p, e) == echo' = [echo EXCEPT ![p] = e] /\ UNCHANGED <<fileVars, reading, calls>>
Then(p, step) == State(echo[p].text, step, 0, 0)
NextChar(p) == Echo(Tail(echo[p].text))
Reads(p, value, step) ==
  /\ GoesOn(p, State(echo[p].text, step, value, 0))
  /\ UNCHANGED <<screen, origin, strayed>>
Tests(p, condition, step) ==
  /\ GoesOn(p, IF condition THEN Then(p, step) ELSE NextChar(p))
  /\ UNCHANGED <<screen, origin, strayed>>
\* stays says if the line of p is still in the row it began in.
Stores(p, s, stays) ==
  /\ screen' = s
  /\ origin' = [q \in Procs |-> IF q = p /\ stays THEN origin[q] ELSE Nowhere]

ReadColumn(p) == AtStep(p, "column") /\ Reads(p, screen.col, "row")
ReadRow(p) ==
  /\ AtStep(p, "row")
  /\ GoesOn(p, State(echo[p].text, "cell", 0, echo[p].read + screen.row * VGA_WIDTH))
  /\ UNCHANGED <<screen, origin, strayed>>
WriteCell(p) ==
  LET i == echo[p].cell IN
  /\ AtStep(p, "cell")
  /\ Stores(p, IF i \in Cells THEN [screen EXCEPT !.cells = Written(@, i, Head(echo[p].text))]
               ELSE screen, i \in Cells)
  /\ GoesOn(p, Then(p, "load column")) /\ UNCHANGED strayed
LoadColumn(p) == AtStep(p, "load column") /\ Reads(p, screen.col, "store column")
StoreColumn(p) ==
  /\ AtStep(p, "store column")
  /\ Stores(p, [screen EXCEPT !.col = Next8(echo[p].read)], Next8(echo[p].read) # 0)
  /\ GoesOn(p, Then(p, "test width")) /\ UNCHANGED strayed
TestWidth(p) == AtStep(p, "test width") /\ Tests(p, screen.col >= VGA_WIDTH, "home")

\* newline.
Home(p) ==
  /\ AtStep(p, "home")
  /\ Stores(p, [screen EXCEPT !.col = 0], FALSE)
  /\ GoesOn(p, Then(p, "load row")) /\ UNCHANGED strayed
LoadRow(p) == AtStep(p, "load row") /\ Reads(p, screen.row, "store row")
StoreRow(p) ==
  /\ AtStep(p, "store row")
  /\ Stores(p, [screen EXCEPT !.row = Next8(echo[p].read)], FALSE)
  /\ GoesOn(p, Then(p, "test height")) /\ UNCHANGED strayed
TestHeight(p) == AtStep(p, "test height") /\ Tests(p, screen.row >= VGA_HEIGHT, "scroll")
Scroll(p) ==
  LET i == echo[p].cell IN
  /\ AtStep(p, "scroll")
  /\ Stores(p, [screen EXCEPT !.cells = Written(@, i, Below(@, i))], FALSE)
  /\ GoesOn(p, IF i + 1 \in Cells THEN State(echo[p].text, "scroll", 0, i + 1) ELSE Then(p, "last row"))
  /\ UNCHANGED strayed
\* Mutant of LastRow: the cursor stays behind the last row.
LastRowForgotten(p) ==
  /\ AtStep(p, "last row")
  /\ Stores(p, screen, FALSE)
  /\ GoesOn(p, NextChar(p)) /\ UNCHANGED strayed
LastRow(p) ==
  /\ AtStep(p, "last row")
  /\ Stores(p, [screen EXCEPT !.row = VGA_HEIGHT - 1], FALSE)
  /\ GoesOn(p, NextChar(p)) /\ UNCHANGED strayed

\* '\b'; the column it takes one from is read again after the test.
TestColumn(p) == AtStep(p, "test") /\ Tests(p, screen.col > 0, "load back")
LoadBack(p) == AtStep(p, "load back") /\ Reads(p, screen.col, "store back")
StoreBack(p) ==
  /\ AtStep(p, "store back")
  /\ Stores(p, [screen EXCEPT !.col = Previous8(echo[p].read)], TRUE)
  /\ strayed' = (strayed \/ echo[p].read # screen.col \/ echo[p].read = 0)
  /\ GoesOn(p, NextChar(p))

Echoes(p) ==
  \/ ReadColumn(p) \/ ReadRow(p) \/ WriteCell(p) \/ LoadColumn(p) \/ StoreColumn(p) \/ TestWidth(p)
  \/ Home(p) \/ LoadRow(p) \/ StoreRow(p) \/ TestHeight(p) \/ Scroll(p) \/ LastRow(p)
  \/ TestColumn(p) \/ LoadBack(p) \/ StoreBack(p)

-----------------------------------------------------------------------------
(* get_line: one key after the other, as the process fetches them.         *)

Length(p) == Len(reading[p].buffer)
\* The buffer grows with its first character and never again, and nothing asks: at
\* 2 * LINE characters the next key that writes, or the NUL, is behind it, and the model
\* of this process ends.
Fetching(p) ==
  reading[p].waits /\ ~reading[p].ended /\ echo[p].text = <<>> /\ Length(p) < 2 * LINE
\* p echoes text; its line is still where it began, until the echo moves it away.
BeginsEcho(p, text, stays) ==
  /\ echo' = [echo EXCEPT ![p] = Echo(text)]
  /\ origin' = [origin EXCEPT ![p] = IF stays THEN @ ELSE Nowhere]
  /\ UNCHANGED <<screen, file, got, zero, strayed>>

\* Mutant of ShiftKey: a release is not seen.
ShiftSticks(p, pressed) ==
  /\ Fetching(p)
  /\ reading' = [reading EXCEPT ![p].shifted = TRUE]
  /\ wanted' = [wanted EXCEPT ![p] = WithShift(@, pressed)]
  /\ UNCHANGED <<screen, echo, file, got, zero, origin, strayed, calls>>
ShiftKey(p, pressed) ==
  /\ Fetching(p)
  /\ reading' = [reading EXCEPT ![p].shifted = pressed]
  /\ wanted' = [wanted EXCEPT ![p] = WithShift(@, pressed)]
  /\ UNCHANGED <<screen, echo, file, got, zero, origin, strayed, calls>>

\* Mutant of BackspaceKey: the cursor is not put back.
BackspaceAhead(p) ==
  /\ Fetching(p) /\ Length(p) > 0
  /\ reading' = [reading EXCEPT ![p].buffer = Front(@)]
  /\ wanted' = [wanted EXCEPT ![p] = WithoutLast(@)]
  /\ BeginsEcho(p, <<"back", Space>>, TRUE)
  /\ Counted
BackspaceKey(p) ==
  /\ Fetching(p) /\ Length(p) > 0
  /\ reading' = [reading EXCEPT ![p].buffer = Front(@)]
  /\ wanted' = [wanted EXCEPT ![p] = WithoutLast(@)]
  /\ BeginsEcho(p, <<"back", Space, "back">>, TRUE)
  /\ Counted

keycode_to_ascii(k, shifted) == IF shifted THEN k[2] ELSE k[1]
LetterKey(p, k) ==
  LET c == keycode_to_ascii(k, reading[p].shifted) IN
  /\ Fetching(p)
  /\ reading' = [reading EXCEPT ![p].buffer = Append(@, c), ![p].grown = TRUE]
  /\ wanted' = [wanted EXCEPT ![p] = WithKey(@, k)]
  /\ BeginsEcho(p, IF c = "tab" THEN [i \in 1..TAB |-> Space] ELSE <<c>>, c # "tab")
  /\ Counted

EnterKey(p) ==
  /\ Fetching(p)
  /\ reading' = [reading EXCEPT ![p].ended = TRUE]
  /\ BeginsEcho(p, <<"newline">>, FALSE)
  /\ UNCHANGED <<wanted, calls>>

\* The end of get_line and of the read that called it.
Return(p, line) ==
  /\ reading' = [reading EXCEPT ![p] = NoCall]
  /\ HandOver(p, line, reading[p].amount)
  /\ origin' = [origin EXCEPT ![p] = Nowhere]
  /\ UNCHANGED <<screen, echo, strayed, calls>>
ReturnLine(p) ==
  /\ reading[p].ended /\ echo[p].text = <<>>
  /\ Return(p, reading[p].buffer)
  /\ UNCHANGED wanted
\* No memory to grow: the line ends with this character, not echoed, and with whatever
\* the block held.
CannotGrow(p, k, garbage) ==
  /\ Fetching(p) /\ ~reading[p].grown
  /\ Return(p, <<keycode_to_ascii(k, reading[p].shifted)>> \o garbage)
  /\ wanted' = [wanted EXCEPT ![p].lost = TRUE]

-----------------------------------------------------------------------------

ConsoleInit ==
  /\ screen = [cells |-> [i \in Cells |-> "NUL"], row |-> 0, col |-> 0]
  /\ file = [p \in Procs |-> NoLine]
  /\ reading = [p \in Procs |-> NoCall] /\ echo = [p \in Procs |-> Silence]
  /\ calls = 0 /\ strayed = FALSE
  /\ wanted = [p \in Procs |-> NewLine] /\ got = [p \in Procs |-> <<>>]
  /\ zero = [p \in Procs |-> FALSE] /\ origin = [p \in Procs |-> Nowhere]

ConsoleNext ==
  \/ \E p \in Procs : tty_open(p)
  \/ \E p \in Procs : tty_close(p)
  \/ \E p \in Procs : tty_clear(p)
  \/ \E p \in Procs, text \in Texts : tty_write(p, text)
  \/ \E p \in Procs, position \in CursorPositions : tty_set_cursor(p, position)
  \/ \E n \in PrintedInts : printf(n)
  \/ \E p \in Procs, amount \in Amounts : tty_read(p, amount)
  \/ \E p \in Procs, amount \in Amounts : ReadLine(p, amount)
  \/ \E p \in Procs : ReadEnd(p)
  \/ \E p \in Procs : ReadFails(p)
  \/ \E p \in Procs, pressed \in BOOLEAN : ShiftKey(p, pressed)
  \/ \E p \in Procs : BackspaceKey(p)
  \/ \E p \in Procs, k \in LetterKeys : LetterKey(p, k)
  \/ \E p \in Procs : EnterKey(p)
  \/ \E p \in Procs : ReturnLine(p)
  \/ \E p \in Procs : Echoes(p)
  \/ \E p \in Procs, k \in LetterKeys, garbage \in {<<>>, <<"garbage">>} : CannotGrow(p, k, garbage)

ConsoleSpec == ConsoleInit /\ [][ConsoleNext]_consoleVars

-----------------------------------------------------------------------------

\* The steps of an echo before which the cursor may be behind the last column or row.
WidthOpen(p) == echo[p].at \in {"test width", "home"}
HeightOpen(p) == echo[p].at \in {"test height", "scroll", "last row"}

Screens == [cells : [Cells -> Chars], row : 0..(UINT8 - 1), col : 0..(UINT8 - 1)]
Lines == Seq(Chars)
Steps == {"done", "column", "row", "cell", "load column", "store column", "test width",
          "home", "load row", "store row", "test height", "scroll", "last row",
          "test", "load back", "store back"}
EchoStates == [text : Seq(Chars \cup {"newline"}), at : Steps, read : 0..(UINT8 - 1), cell : Nat]
\* The types, with a cursor of two bytes that may be anywhere (tty.c:17-18, input.c:28-37).
TypeOK ==
  /\ screen \in Screens
  /\ file \in [Procs -> [open : BOOLEAN, has : BOOLEAN, rest : Lines]]
  /\ reading \in [Procs -> [buffer : Lines, shifted : BOOLEAN, grown : BOOLEAN, ended : BOOLEAN,
                           waits : BOOLEAN, amount : Nat]]
  /\ echo \in [Procs -> EchoStates]
  /\ wanted \in [Procs -> [text : Lines, shift : BOOLEAN, lost : BOOLEAN]]
  /\ got \in [Procs -> Lines] /\ zero \in [Procs -> BOOLEAN] /\ strayed \in BOOLEAN
  /\ origin \in [Procs -> Nat \cup {Nowhere}] /\ calls \in 0..MaxCalls

\* However the echoes of any number of processes are interrupted, by each other and by
\* prints: the row is on the screen unless somebody is about to test it, and so is the
\* column, until a backspace stores a column that is not one less than the one it tested
\* (tty.c:146-155, 172-187).
CursorComesBack ==
  /\ screen.row >= VGA_HEIGHT => \E p \in Procs : HeightOpen(p)
  /\ screen.col >= VGA_WIDTH => strayed \/ \E p \in Procs : WidthOpen(p)

\* What the reads of a process gave of a line, and what is left of it, is the line as
\* the keys it fetched make it, however the reads of others lie between and in whatever
\* pieces it is read, without the newline that ended it; but for a line whose buffer
\* could not grow (input.c:28-96, tty.c:52-84).
ReadsGiveTheLine ==
  \A p \in Procs : file[p].has /\ ~wanted[p].lost => got[p] \o file[p].rest = wanted[p].text

\* As long as nobody else prints, no tab is typed (a backspace takes one column of it
\* away) and the line stays in its row, it stands on the screen where its input began,
\* with the cursor behind it, whenever its echo is done (input.c:55-93, tty.c:133-157).
ScreenShowsTheLine ==
  \A p \in Procs : reading[p].waits /\ echo[p].text = <<>> /\ origin[p] # Nowhere =>
    LET line == wanted[p].text IN
    /\ Cursor(screen) = origin[p] + Len(line)
    /\ \A i \in 1..Len(line) : screen.cells[origin[p] + i - 1] = line[i]

\* A read that returned 0 has ended its line, and the next read fetches input
\* (terminal/readme.md:8).  An empty line is given as a 0 and ended by another one.
ZeroEndsTheLine == \A p \in Procs : zero[p] => ~file[p].has
=============================================================================
