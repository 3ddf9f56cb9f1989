------------------------------ MODULE Programs ------------------------------
(***************************************************************************)
(* The programs of apps/, each alone in its own address space: brainfuck,  *)
(* calc and minesweeper; a program that prints and reads text with the C   *)
(* library; and the terminal, with the processes that use it.  One runs;   *)
(* the keys it gets and the calls it makes are the environment.            *)
(***************************************************************************)
EXTENDS Brainfuck, Calc, Minesweeper, TextLibrary, Console

VARIABLE launched  \* the program that runs

programVars == <<launched, bfVars, calcVars, mineVars, textVars, consoleVars>>

\* A program that was not launched is counted as one state.
Untouched ==
  /\ launched # "calc" => box.input = <<>> /\ box.typing = CHOOSE t \in Typings : TRUE
  /\ launched # "minesweeper" => cells = NewCells(CHOOSE picks \in Seeds : TRUE)

Init ==
  /\ launched \in {"brainfuck", "calc", "minesweeper", "text library", "terminal"}
  /\ BfInit /\ CalcInit /\ MineInit /\ TextInit /\ ConsoleInit
  /\ Untouched

BfRuns == launched = "brainfuck" /\ BfNext /\ UNCHANGED <<launched, calcVars, mineVars, textVars, consoleVars>>
CalcRuns == launched = "calc" /\ CalcNext /\ UNCHANGED <<launched, bfVars, mineVars, textVars, consoleVars>>
MineRuns == launched = "minesweeper" /\ MineNext /\ UNCHANGED <<launched, bfVars, calcVars, textVars, consoleVars>>
TextRuns == launched = "text library" /\ TextNext /\ UNCHANGED <<launched, bfVars, calcVars, mineVars, consoleVars>>
ConsoleRuns ==
  launched = "terminal" /\ ConsoleNext /\ UNCHANGED <<launched, bfVars, calcVars, mineVars, textVars>>

Next == BfRuns \/ CalcRuns \/ MineRuns \/ TextRuns \/ ConsoleRuns

Spec == Init /\ [][Next]_programVars
=============================================================================
