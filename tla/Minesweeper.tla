---------------------------- MODULE Minesweeper ----------------------------
(***************************************************************************)
(* The game apps/minesweeper/minesweeper.asm.  The cells lie in one array  *)
(* whose rows are as long as those of the field, so the cell behind a row  *)
(* is the first one of the next.  Colours are left out; of the characters  *)
(* on the screen the numbers are kept.                                     *)
(***************************************************************************)
EXTENDS Integers, Sequences, SequencesExt, FiniteSetsExt

CONSTANTS W, H,        \* minefield.w and .h, 78 and 23
          Seeds,       \* sequences of places that rand gives, one for each bomb; 179 bombs
          MARK_ROW,    \* the row whose number is the code of the mark key, 15
          MaxMarks     \* bound of the model: cells marked at once

Field == (0..(W - 1)) \X (0..(H - 1))
ASSUME MinesAssumption ==
  {W, H} \subseteq Nat \ {0} /\ MARK_ROW \in 0..(H - 1) /\ Seeds \subseteq Seq(Field) \ {<<>>}

VARIABLES game,   \* the state of the game and the cursor
          cells   \* sets of the positions with a bomb, revealed, and marked; the numbers shown

mineVars == <<game, cells>>

Position == 0..((H + 2) * (W + 2) - 1)
calculate_buffer_pos(c) == c[2] * W + W + c[1] + 1
InField == {calculate_buffer_pos(c) : c \in Field}

\* Mutant of cell_check_offsets: the row below is one cell short.
FewerOffsets == {-1, 1, W, -W, -W - 1, -W + 1, W - 1}
cell_check_offsets == {-1, 1, W, -W, -W - 1, -W + 1, W - 1, W + 1}
CountBombs(bombs, i) == Cardinality({o \in cell_check_offsets : i + o \in bombs})

\* The search for a place goes on from cell to cell, past the end of the field too; of
\* as many cells as there are bombs and one more, one is free.
Placed(bombs, c) ==
  LET from == calculate_buffer_pos(c)
  IN bombs \cup {Min((from..(from + Cardinality(bombs))) \ bombs)}
generate(picks) ==
  LET placed[k \in 0..Len(picks)] == IF k = 0 THEN {} ELSE Placed(placed[k - 1], picks[k])
  IN placed[Len(picks)]

Playing == game.state = "playing"

-----------------------------------------------------------------------------

\* Mutant of check_all_bombs: marks on other cells are not looked for.
CheckBombsOnly(m) == m.bombs \cap InField \subseteq m.marked
check_all_bombs(m) == m.marked = m.bombs \cap InField

\* The new cells, and the state of the game.
MarkAsBomb(m, i) ==
  IF i \in m.revealed THEN m
  ELSE [m EXCEPT !.marked = IF i \in @ THEN @ \ {i} ELSE @ \cup {i}]
Outcome(m) == IF check_all_bombs(m) THEN "won" ELSE "playing"

\* reveal() calls itself for the four cells beside a cell it revealed, whatever the
\* number it shows.
Beside(c) == {d \in Field : d \in {<<c[1], c[2] - 1>>, <<c[1] - 1, c[2]>>, <<c[1], c[2] + 1>>, <<c[1] + 1, c[2]>>}}
CanReveal(m, c) == calculate_buffer_pos(c) \notin m.bombs \cup m.revealed \cup m.marked
Spread(m, done) == done \cup {d \in UNION {Beside(c) : c \in done} : CanReveal(m, d)}
Flood(m, c) ==
  LET flood[k \in 0..(W * H)] == IF k = 0 THEN {c} ELSE Spread(m, flood[k - 1])
  IN flood[W * H]
Uncover(m, fresh) ==
  [m EXCEPT !.revealed = @ \cup fresh,
            !.shown = [i \in Position |-> IF i \in fresh THEN CountBombs(m.bombs, i) ELSE m.shown[i]]]
reveal(m, c) ==
  IF CanReveal(m, c) THEN Uncover(m, {calculate_buffer_pos(d) : d \in Flood(m, c)}) ELSE m

\* try_reveal keeps the row in the register that held the key: in one row the mark
\* key seems to be pressed as well.
RevealKey ==
  LET i == calculate_buffer_pos(game.cursor)
      seen == IF i \in cells.marked THEN cells ELSE reveal(cells, game.cursor)
      after == IF game.cursor[2] = MARK_ROW THEN MarkAsBomb(seen, i) ELSE seen
  IN /\ Playing
     /\ IF i \in cells.bombs \ cells.marked
        THEN /\ cells' = [cells EXCEPT !.revealed = @ \cup (cells.bombs \cap InField)]
             /\ game' = [game EXCEPT !.state = "lost"]
        ELSE /\ cells' = after
             /\ game' = [game EXCEPT !.state = IF game.cursor[2] = MARK_ROW THEN Outcome(after) ELSE @]

MarkKey ==
  LET m == MarkAsBomb(cells, calculate_buffer_pos(game.cursor)) IN
  /\ Playing
  /\ Cardinality(m.marked) <= MaxMarks \* bound of the model
  /\ cells' = m
  /\ game' = [game EXCEPT !.state = Outcome(m)]

CursorKey(dx, dy) ==
  /\ Playing
  /\ <<game.cursor[1] + dx, game.cursor[2] + dy>> \in Field
  /\ game' = [game EXCEPT !.cursor = <<@[1] + dx, @[2] + dy>>]
  /\ UNCHANGED cells

\* ESC, in every state.
ExitKey ==
  /\ game.state # "exit"
  /\ game' = [game EXCEPT !.state = "exit"]
  /\ UNCHANGED cells

-----------------------------------------------------------------------------

NewCells(picks) ==
  [bombs |-> generate(picks), revealed |-> {}, marked |-> {}, shown |-> [i \in Position |-> 0]]
NewGame == [state |-> "playing", cursor |-> <<0, 0>>]

MineInit ==
  /\ game = NewGame
  /\ \E picks \in Seeds : cells = NewCells(picks)

RestartKey ==
  /\ game.state \in {"won", "lost"}
  /\ game' = NewGame
  /\ \E picks \in Seeds : cells' = NewCells(picks)

MineNext ==
  \/ RevealKey \/ MarkKey \/ ExitKey \/ RestartKey
  \/ CursorKey(0, 1) \/ CursorKey(0, -1) \/ CursorKey(1, 0) \/ CursorKey(-1, 0)

MineSpec == MineInit /\ [][MineNext]_mineVars

-----------------------------------------------------------------------------

\* A revealed cell away from the left and the right edge shows how many of the cells
\* around it hold a bomb, if no bomb was placed below the field or the cell is not in
\* the last row (minesweeper.asm:260-290, 342-348, 409-441).  The code gives the cells
\* of the edge columns neighbours at the other edge.
Around(c) == {d \in Field \ {c} : d[1] \in (c[1] - 1)..(c[1] + 1) /\ d[2] \in (c[2] - 1)..(c[2] + 1)}
NumbersTellBombs ==
  \A c \in Field :
    /\ calculate_buffer_pos(c) \in cells.revealed \ cells.bombs
    /\ c[1] \in 1..(W - 2)
    /\ c[2] < H - 1 \/ cells.bombs \subseteq InField
    => cells.shown[calculate_buffer_pos(c)] =
         Cardinality({d \in Around(c) : calculate_buffer_pos(d) \in cells.bombs})

\* The game is won exactly when every bomb of the field is marked and nothing else
\* is, and a game that is won or going on shows no bomb (minesweeper.asm:109-203).
WonByMarking ==
  /\ game.state \in {"playing", "won"} =>
       cells.revealed \cap cells.bombs = {} /\ cells.revealed \cap cells.marked = {}
  /\ game.state # "exit" => (game.state = "won" <=> cells.marked = cells.bombs \cap InField)

\* Both: what the board shows and what the end of the game says agree with where the
\* bombs are (minesweeper.asm:109-318).
BoardTellsTheTruth == NumbersTellBombs /\ WonByMarking
=============================================================================
