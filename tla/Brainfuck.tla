----------------------------- MODULE Brainfuck -----------------------------
(***************************************************************************)
(* The brainfuck program, apps/brainfuck/main.c: an editor, a command line *)
(* and an interpreter that share one loop over keyboard events.  Code is a *)
(* buffer of fixed size; a NUL is an instruction that does nothing.        *)
(* Colours, the screen and the status bar are left out.                    *)
(***************************************************************************)
EXTENDS Integers, Sequences, SequencesExt, FiniteSetsExt, FiniteSets

CONSTANTS CODE_SIZE,     \* sizeof code_buffer, 512
          COMMAND_SIZE,  \* sizeof command_buffer, 50
          CELLS,         \* sizeof memory, 300
          BYTE,          \* 256
          CodeKeys,      \* characters typed into the editor
          CommandKeys,   \* letters typed into the command line
          Ascii          \* a character to its byte

ASSUME BrainfuckAssumption ==
  /\ {CODE_SIZE, COMMAND_SIZE} \subseteq Nat \ {0} /\ BYTE \in Nat \ {0, 1}
  /\ CELLS \in Nat /\ CELLS > BYTE /\ "nul" \notin CodeKeys
  /\ \A c \in CodeKeys : Ascii[c] \in 0..(BYTE - 1)

VARIABLES bf,      \* AppState without its CodeExecutionData
          exec,    \* CodeExecutionData
          bfTyped  \* not in the code: the text an ordinary editor would hold, and
                   \* whether only its end was edited since it was empty

bfVars == <<bf, exec, bfTyped>>

NUL == "nul"
Blank(n) == [i \in 0..(n - 1) |-> NUL]
\* A C string in a buffer: up to its first NUL.
Text(buffer) ==
  LET length == Min({i \in DOMAIN buffer : buffer[i] = NUL} \cup {Cardinality(DOMAIN buffer)})
  IN [i \in 1..length |-> buffer[i - 1]]

-----------------------------------------------------------------------------
(* The interpreter.                                                        *)

Code == bf.code_buffer
At(i) == IF i \in DOMAIN Code THEN Code[i] ELSE NUL
CountOf(c, low, high) == Cardinality({i \in low..high : At(i) = c})

init_exec_data == [memory |-> [i \in 0..(CELLS - 1) |-> 0], mem_pos |-> 0, current_code_offset |-> 0]

\* The cell behind the last one is the low byte of mem_pos, and the check of the
\* position lets it through.
Cell(x) == IF x.mem_pos < CELLS THEN x.memory[x.mem_pos] ELSE x.mem_pos % BYTE
SetCell(x, v) ==
  IF x.mem_pos < CELLS THEN [x EXCEPT !.memory[x.mem_pos] = v % BYTE]
  ELSE [x EXCEPT !.mem_pos = (@ \div BYTE) * BYTE + (v % BYTE)]

\* Mutant of ScanForward: nested brackets are not counted.
ScanForwardFlat(from) == Min({i \in (from + 1)..CODE_SIZE : i = CODE_SIZE \/ At(i) = "]"})

\* Where the scans stop; without a match, behind the code and before it.
ScanForward(from) ==
  Min({i \in (from + 1)..CODE_SIZE :
         i = CODE_SIZE \/ (At(i) = "]" /\ CountOf("[", from + 1, i - 1) <= CountOf("]", from + 1, i - 1))})
ScanBackward(from) ==
  Max({i \in -1..(from - 1) :
         i = -1 \/ (At(i) = "[" /\ CountOf("]", i + 1, from - 1) <= CountOf("[", i + 1, from - 1))})

\* One instruction; `input' is the byte of the key, or -1 if there is none.
Instruction(x, c, input) ==
  CASE c = "+" -> SetCell(x, Cell(x) + 1)
    [] c = "-" -> SetCell(x, Cell(x) + BYTE - 1)
    [] c = ">" -> [x EXCEPT !.mem_pos = @ + 1]
    [] c = "<" -> [x EXCEPT !.mem_pos = IF @ = 0 THEN CELLS + BYTE ELSE @ - 1]
    [] c = "," -> SetCell(x, input)
    [] c = "[" /\ Cell(x) = 0 -> [x EXCEPT !.current_code_offset = ScanForward(@)]
    [] c = "]" /\ Cell(x) # 0 -> [x EXCEPT !.current_code_offset = ScanBackward(@)]
    [] OTHER -> x

\* The result, and what is left of the data.  The code's negative offsets are
\* only seen here if a scan leaves one, which the increment hides.
step_code(x, input) ==
  CASE x.current_code_offset < 0 -> [result |-> "UnmatchedPair", exec |-> x]
    [] x.current_code_offset >= CODE_SIZE -> [result |-> "Success", exec |-> x]
    [] x.current_code_offset \in 0..(CODE_SIZE - 1) /\ x.mem_pos > CELLS ->
         [result |-> "MemoryOutOfBounds", exec |-> x]
    [] x.current_code_offset \in 0..(CODE_SIZE - 1) /\ x.mem_pos <= CELLS
       /\ At(x.current_code_offset) = "," /\ input = -1 -> [result |-> "ExpectInput", exec |-> x]
    [] OTHER -> [result |-> "Unfinished",
                 exec |-> LET y == Instruction(x, At(x.current_code_offset), input)
                          IN [y EXCEPT !.current_code_offset = @ + 1]]

ModeAfter(result) ==
  CASE result = "Unfinished" -> "Running"
    [] result = "ExpectInput" -> "WaitingForInput"
    [] OTHER -> "Finished"

\* A key of the keyboard: ESC stops the run, the others are input if the
\* instruction wants one, and lost if not.  A shift key is a byte 0.
ByteOf(key) == IF key \in DOMAIN Ascii THEN Ascii[key] ELSE 0
\* The data of a run that ended is not read again, and the next run clears it: the
\* model clears it at once.
run_mode(key) ==
  /\ bf.mode \in {"Running", "WaitingForInput"}
  /\ LET r == step_code(exec, IF key = "no key" THEN -1 ELSE ByteOf(key))
         mode == IF key = "ESC" THEN "Finished" ELSE ModeAfter(r.result)
     IN /\ bf' = [bf EXCEPT !.mode = mode]
        /\ exec' = IF mode = "Finished" THEN init_exec_data ELSE r.exec
  /\ UNCHANGED bfTyped

-----------------------------------------------------------------------------
(* The editor.                                                             *)

Editing == bf.mode = "Editing" /\ UNCHANGED exec
Edit(buffer, len, offset) ==
  bf' = [bf EXCEPT !.code_buffer = buffer, !.code_len = len, !.code_text_offset = offset]

MoveCursor(by) ==
  /\ Editing
  /\ Edit(bf.code_buffer, bf.code_len,
          IF by < 0 THEN Max({0, bf.code_text_offset - 1}) ELSE Min({bf.code_len, bf.code_text_offset + 1}))
  /\ UNCHANGED bfTyped

\* The last character is cleared before the rest moves up, and the rest begins
\* one place too far behind.
Backspaced ==
  LET len == bf.code_len - 1
      offset == bf.code_text_offset - 1
      cleared == [bf.code_buffer EXCEPT ![len] = NUL]
  IN IF offset < len
     THEN [i \in DOMAIN Code |-> IF i \in (offset + 1)..(len - 1) THEN cleared[i + 1] ELSE cleared[i]]
     ELSE [bf.code_buffer EXCEPT ![offset] = NUL]

Typed(text, atEnd) == bfTyped' = [text |-> IF atEnd THEN text ELSE <<>>, atEnd |-> atEnd]
DeleteLast ==
  LET atEnd == bfTyped.atEnd /\ bf.code_text_offset = bf.code_len
  IN Typed(IF atEnd THEN Front(bfTyped.text) ELSE <<>>, atEnd)

\* Mutant of Backspace: the length stays.
BackspaceStays ==
  /\ Editing /\ bf.code_len > 0
  /\ Edit(Backspaced, bf.code_len, Max({0, bf.code_text_offset - 1}))
  /\ DeleteLast

Backspace ==
  /\ Editing /\ bf.code_len > 0
  /\ Edit(Backspaced, bf.code_len - 1, Max({0, bf.code_text_offset - 1}))
  /\ DeleteLast

Inserted(c) ==
  [i \in DOMAIN Code |-> IF i = bf.code_text_offset THEN c
                         ELSE IF i \in (bf.code_text_offset + 1)..bf.code_len THEN Code[i - 1] ELSE Code[i]]
InsertText(s, c) == SubSeq(s, 1, bf.code_text_offset) \o <<c>> \o SubSeq(s, bf.code_text_offset + 1, Len(s))
TypeCode(c) ==
  /\ Editing /\ bf.code_len < CODE_SIZE
  /\ Edit(Inserted(c), bf.code_len + 1, bf.code_text_offset + 1)
  /\ Typed(IF bfTyped.atEnd THEN InsertText(bfTyped.text, c) ELSE <<>>, bfTyped.atEnd)

LeaveEditor ==
  /\ Editing
  /\ bf' = [bf EXCEPT !.mode = "Command"]
  /\ UNCHANGED bfTyped

-----------------------------------------------------------------------------
(* The command line.                                                       *)

InCommand == bf.mode = "Command"
Command == Text(bf.command_buffer)
Means(word, letter) == Command = word \/ Command = <<letter>>

\* "new" forgets the text but not its length.  "help" and "run" leave the
\* command in its buffer.
command_enter ==
  /\ InCommand
  /\ \/ /\ Means(<<"q", "u", "i", "t">>, "q")
        /\ bf' = [bf EXCEPT !.mode = "Exit"] /\ UNCHANGED <<exec, bfTyped>>
     \/ /\ Means(<<"n", "e", "w">>, "n")
        /\ bf' = [bf EXCEPT !.mode = "Editing", !.code_buffer = Blank(CODE_SIZE),
                            !.command_buffer = Blank(COMMAND_SIZE),
                            !.code_text_offset = 0, !.command_text_offset = 0]
        /\ Typed(<<>>, bf.code_len = 0)
        /\ UNCHANGED exec
     \/ /\ Means(<<"h", "e", "l", "p">>, "h")
        /\ bf' = [bf EXCEPT !.mode = "ViewingHelp"] /\ UNCHANGED <<exec, bfTyped>>
     \/ /\ Means(<<"r", "u", "n">>, "r")
        /\ bf' = [bf EXCEPT !.mode = "Running"] /\ exec' = init_exec_data /\ UNCHANGED bfTyped

command_backspace ==
  /\ InCommand /\ bf.command_text_offset > 0
  /\ bf' = [bf EXCEPT !.command_text_offset = @ - 1, !.command_buffer[bf.command_text_offset - 1] = NUL]
  /\ UNCHANGED <<exec, bfTyped>>

TypeCommand(c) ==
  /\ InCommand /\ bf.command_text_offset < COMMAND_SIZE
  /\ bf' = [bf EXCEPT !.command_buffer[bf.command_text_offset] = c, !.command_text_offset = @ + 1]
  /\ UNCHANGED <<exec, bfTyped>>

\* TAB leaves the command line and a finished run, ESC leaves the help.
ToEditor ==
  /\ bf.mode \in {"Command", "Finished"}
  /\ bf' = [bf EXCEPT !.mode = "Editing"] /\ UNCHANGED <<exec, bfTyped>>
help_mode ==
  /\ bf.mode = "ViewingHelp"
  /\ bf' = [bf EXCEPT !.mode = "Command"] /\ UNCHANGED <<exec, bfTyped>>

-----------------------------------------------------------------------------

BfInit ==
  /\ bf = [mode |-> "Command", code_buffer |-> Blank(CODE_SIZE), command_buffer |-> Blank(COMMAND_SIZE),
           code_len |-> 0, code_text_offset |-> 0, command_text_offset |-> 0]
  /\ exec = init_exec_data
  /\ bfTyped = [text |-> <<>>, atEnd |-> TRUE]

BfNext ==
  \/ \E c \in CodeKeys : TypeCode(c)
  \/ \E c \in CommandKeys : TypeCommand(c)
  \/ \E by \in {-1, 1} : MoveCursor(by)
  \/ Backspace \/ LeaveEditor \/ command_enter \/ command_backspace \/ ToEditor \/ help_mode
  \/ run_mode("ESC") \/ run_mode("shift")
  \/ bf.mode = "Running" /\ run_mode("no key")
  \/ \E c \in CodeKeys : run_mode(c)

BfSpec == BfInit /\ [][BfNext]_bfVars

-----------------------------------------------------------------------------
(* What a user of the program expects.                                     *)

\* Texts whose brackets match, by their grammar.
Balanced(s) ==
  LET balanced[i \in 1..(Len(s) + 1), j \in 0..Len(s)] ==
        \/ i > j
        \/ i <= j /\ s[i] \notin {"[", "]"} /\ balanced[i + 1, j]
        \/ /\ i <= j /\ s[i] = "["
           /\ \E k \in (i + 1)..j : s[k] = "]" /\ balanced[i + 1, k - 1] /\ balanced[k + 1, j]
  IN balanced[1, Len(s)]
Part(i, j) == [k \in 1..(j - i - 1) |-> At(i + k)]
Matches(i, j) == i < j /\ At(i) = "[" /\ At(j) = "]" /\ Balanced(Part(i, j))

\* In a program whose brackets match, an instruction leads to the one behind it, or
\* from a bracket behind the bracket that matches it, and the help text says when:
\* '[' when the cell is 0, ']' when it is not (main.c:96-187, 232-236).  The cell must
\* be one of the 300: the interpreter's check lets the pointer reach the one behind.
JumpsGoToTheMatch ==
  [][LET i == exec.current_code_offset
         j == exec'.current_code_offset - 1
     IN bf.mode = "Running" /\ bf'.mode = "Running" /\ exec.mem_pos < CELLS /\ Balanced(Part(-1, CODE_SIZE)) =>
          CASE At(i) = "[" /\ exec.memory[exec.mem_pos] = 0 -> Matches(i, j)
            [] At(i) = "]" /\ exec.memory[exec.mem_pos] # 0 -> Matches(j, i)
            [] OTHER -> j = i]_bfVars

\* As long as characters are typed anywhere and deleted at the end only, the buffer
\* that "run" executes holds the text an ordinary editor would (main.c:242-322).  A
\* deletion before the end, and any text typed after "new", end the promise.
EditorKeepsTheText ==
  bfTyped.atEnd => Text(bf.code_buffer) = bfTyped.text /\ bf.code_len = Len(bfTyped.text)
=============================================================================
