-------------------------------- MODULE Calc --------------------------------
(***************************************************************************)
(* The calculator, apps/calc/main.c: an input box, a parser that orders    *)
(* the operators with a stack, an evaluator over a stack of numbers, and a *)
(* column of labels with the earlier results.  A value is the term that    *)
(* was computed, operators first: rounding, formatting and drawing are     *)
(* left out.                                                               *)
(***************************************************************************)
EXTENDS Integers, Sequences, SequencesExt, FiniteSetsExt

CONSTANTS STACK,     \* elements of expression_stack, 100
          RESULT,    \* elements of operation_array, 100
          NUMBERS,   \* elements of NumberStack.stack, 50
          DIGITS,    \* characters of number_buffer, 50
          LABELS,    \* labels that main() initialises, 21 of 22
          CUT,       \* characters of the text that a label repeats, 5
          Keys,      \* keys of the keyboard that print
          Printed,   \* a key to its characters, without and with shift
          Leftovers, \* what malloc may leave in the input box
          Typings    \* bounds of the model: the characters one user types, each with
                     \* how often a text holds it, and how many are typed in all

ASSUME CalcAssumption ==
  /\ {STACK, RESULT, NUMBERS, DIGITS, LABELS, CUT} \subseteq Nat \ {0}
  /\ \A k \in Keys : DOMAIN Printed[k] = BOOLEAN

VARIABLES box,      \* the input box, the state of shift, the focus; "running", or how
                    \* main() came to an end
          labels,   \* prev_calc_labels, the newest first
          status    \* the status bar

calcVars == <<box, labels, status>>

-----------------------------------------------------------------------------
(* parse_input.                                                            *)

Digit == {"0", "1", "2", "3", "4", "5", "6", "7", "8", "9"}
Operator == {"+", "-", "*", "/", "%"}
get_operator_precedence(c) ==
  CASE c = "^" -> 3 [] c \in {"*", "/", "%"} -> 2 [] c \in {"+", "-"} -> 1 [] OTHER -> -1
calc_expr_get_operator_precedence(e) == IF e.type = "operator" THEN get_operator_precedence(e.of) ELSE -1

Constant(s) == [type |-> "constant", of |-> s]
make_expr_op_from_char(c) == [type |-> "operator", of |-> c]
BracketOpen == [type |-> "bracket open", of |-> "("]

\* expression_stack_offset is Len(stack) - 1 - below: a ')' without its '(' takes
\* it under -1, and what is pushed there is never popped.
Push(p, e) ==
  IF p.below > 0 THEN [p EXCEPT !.below = @ - 1, !.stray = TRUE]
  ELSE [p EXCEPT !.stack = Append(@, e), !.stray = @ \/ Len(p.stack) >= STACK]
Emit(p, es) == [p EXCEPT !.out = @ \o es, !.stray = @ \/ Len(p.out) + Len(es) > RESULT]
\* The elements from the top that satisfy Leaves move to the result.
Popped(p, n) ==
  Emit([p EXCEPT !.stack = SubSeq(@, 1, n)], Reverse(SubSeq(p.stack, n + 1, Len(p.stack))))
Fail(p, message) == [p EXCEPT !.error = message]

\* Mutant of Outranked: an operator of the same rank stays on the stack.
OutrankedStrictly(p, c) ==
  Max({0} \cup {i \in DOMAIN p.stack :
                  get_operator_precedence(c) >= calc_expr_get_operator_precedence(p.stack[i])})
\* How much of the stack an operator leaves.
Outranked(p, c) ==
  Max({0} \cup {i \in DOMAIN p.stack :
                  get_operator_precedence(c) > calc_expr_get_operator_precedence(p.stack[i])})

NumberEnd(s, i) == Min({j \in (i + 1)..(Len(s) + 1) : j = Len(s) + 1 \/ s[j] \notin Digit \cup {"."}})
TakeNumber(s, p, end) ==
  LET number == SubSeq(s, p.at, end - 1) IN
  IF Len(SelectSeq(number, LAMBDA c : c = ".")) > 1 THEN Fail(p, "Invalid number")
  ELSE Emit([p EXCEPT !.at = end, !.stray = @ \/ Len(number) >= DIGITS], <<Constant(number)>>)
\* Mutant of CloseBracket: the bracket is taken off by the loop and once more.
CloseBracketTwice(p) ==
  LET q == Popped(p, Max({0} \cup {i \in DOMAIN p.stack : p.stack[i] = BracketOpen}))
      r == [q EXCEPT !.stack = IF @ = <<>> THEN @ ELSE Front(@)]
  IN IF r.stack = <<>> THEN [r EXCEPT !.below = @ + 1] ELSE [r EXCEPT !.stack = Front(@)]
CloseBracket(p) ==
  LET q == Popped(p, Max({0} \cup {i \in DOMAIN p.stack : p.stack[i] = BracketOpen}))
  IN IF q.stack = <<>> THEN [q EXCEPT !.below = @ + 1] ELSE [q EXCEPT !.stack = Front(@)]
TakeOperator(p, c) ==
  LET q == Push(Popped(p, Outranked(p, c)), make_expr_op_from_char(c))
  IN IF c \in Operator THEN q ELSE Fail(q, "Invalid character encountered")
Next1(p) == [p EXCEPT !.at = @ + 1]

RECURSIVE ParseFrom(_, _)
ParseFrom(s, p) ==
  CASE p.error # "" -> p
    [] p.error = "" /\ p.at > Len(s) -> Popped(p, 0)
    [] p.error = "" /\ p.at <= Len(s) ->
         LET c == s[p.at] IN
         ParseFrom(s, CASE Len(p.out) >= RESULT -> Fail(p, "Result buffer is not large enough")
                        [] Len(p.out) < RESULT /\ Len(p.stack) > STACK ->
                             Fail(p, "Expression stack is not large enough")
                        [] OTHER ->
                             CASE c = " " -> Next1(p)
                               [] c \in Digit -> TakeNumber(s, p, NumberEnd(s, p.at))
                               [] c = "(" -> Next1(Push(p, BracketOpen))
                               [] c = ")" -> Next1(CloseBracket(p))
                               [] OTHER -> Next1(TakeOperator(p, c)))
parse_input(s) ==
  ParseFrom(s, [at |-> 1, out |-> <<>>, stack |-> <<>>, below |-> 0, stray |-> FALSE, error |-> ""])

-----------------------------------------------------------------------------
(* execute.                                                                *)

Apply(c, a, b) == IF c = "%" THEN <<"-99999999">> ELSE <<c>> \o a \o b
NumberTerm(s) == <<"number">> \o s

number_stack_push(m, v) == [m EXCEPT !.stack = Append(@, v), !.stray = @ \/ Len(m.stack) >= NUMBERS]
\* One element of the parsed text; a bracket that was never closed does nothing.
Execute1(m, e) ==
  LET n == Len(m.stack) IN
  CASE m.failed \/ e.type = "bracket open" -> m
    [] ~m.failed /\ e.type = "constant" -> number_stack_push(m, NumberTerm(e.of))
    [] ~m.failed /\ e.type = "operator" ->
         IF n < 2 THEN [m EXCEPT !.failed = TRUE]
         ELSE number_stack_push([m EXCEPT !.stack = SubSeq(@, 1, n - 2)],
                                Apply(e.of, m.stack[n - 1], m.stack[n]))
execute(ops) == FoldLeft(Execute1, [stack |-> <<>>, stray |-> FALSE, failed |-> FALSE], ops)

-----------------------------------------------------------------------------
(* The labels.                                                             *)

EmptyLabel == [text |-> <<>>, value |-> <<>>]
\* strnlen(text, 255): a NUL in the box cuts the text.
BoxText(s) == SubSeq(s, 1, Min({i \in 1..(Len(s) + 1) : i = Len(s) + 1 \/ s[i] = "NUL"}) - 1)
\* Shorter texts are padded with blanks; what follows the copy is left out.
prepare_calc_string(s) == SubSeq(s, 1, Min({CUT, Len(s)}))

\* From the oldest to the newest, then the newest is replaced.
Shifted(ls, l) == [i \in 1..LABELS |-> IF i = 1 THEN l ELSE ls[i - 1]]

Refuse(message) == status' = message /\ UNCHANGED <<box, labels>>
Accept(s, v) ==
  /\ status' = ""
  /\ labels' = Shifted(labels, [text |-> prepare_calc_string(s), value |-> v])
  /\ box' = [box EXCEPT !.input = <<>>]
\* The last of the 22 labels was never initialised: the first strcpy goes through
\* whatever pointer it holds, and may be the last thing the program does.
WildLabel == box' = [box EXCEPT !.state = "wild label"] /\ UNCHANGED <<labels, status>>
\* A parse that wrote beside its arrays: what follows is not modelled.
StrayWrite == box' = [box EXCEPT !.state = "stray write"] /\ UNCHANGED <<labels, status>>

AcceptMathInput(s, p, m) ==
  CASE p.stray \/ (p.error = "" /\ m.stray) -> StrayWrite
    [] ~p.stray /\ p.error # "" -> Refuse(p.error)
    [] ~p.stray /\ p.error = "" /\ ~m.stray /\ m.failed -> Refuse("Not enough values on stack")
    \* execute() fails without a message.
    [] ~p.stray /\ p.error = "" /\ ~m.stray /\ ~m.failed /\ m.stack = <<>> -> Refuse("NULL")
    [] OTHER -> Accept(s, Last(m.stack)) \/ WildLabel
AcceptParsed(s, p) == AcceptMathInput(s, p, execute(p.out))
accept_math_input == AcceptParsed(BoxText(box.input), parse_input(BoxText(box.input)))

-----------------------------------------------------------------------------
(* Keys.                                                                   *)

Running == box.state = "running"
CountIn(c, s) == Len(SelectSeq(s, LAMBDA d : d = c))
MaxOf(c) == IF c \in DOMAIN box.typing.chars THEN box.typing.chars[c] ELSE 0
Append1(c) ==
  /\ box.typed < box.typing.keys /\ CountIn(c, box.input) < MaxOf(c) \* bounds of the model
  /\ box' = [box EXCEPT !.input = Append(@, c), !.typed = @ + 1]
  /\ UNCHANGED <<labels, status>>

TypeKey(k) == Running /\ Append1(Printed[k][box.shift])
CalcBackspace ==
  /\ Running /\ box.input # <<>>
  /\ box' = [box EXCEPT !.input = Front(@)]
  /\ UNCHANGED <<labels, status>>
Enter == Running /\ accept_math_input

Shift(pressed) ==
  /\ Running
  /\ box' = [box EXCEPT !.shift = pressed]
  /\ UNCHANGED <<labels, status>>
\* Ctrl and Alt set the state of shift too, and type their character, which is NUL.
ControlPressed ==
  /\ Running
  /\ box.typed < box.typing.keys /\ CountIn("NUL", box.input) < MaxOf("NUL") \* bounds of the model
  /\ box' = [box EXCEPT !.shift = TRUE, !.input = Append(@, "NUL"), !.typed = @ + 1]
  /\ UNCHANGED <<labels, status>>

\* The elements of the window: a label, the input box, the labels.
Focusable == [i \in 1..(LABELS + 2) |-> i = 2]
advance_focus(from, forwards) ==
  LET there == {i \in DOMAIN Focusable : Focusable[i] /\ IF forwards THEN i > from ELSE i < from}
      every == {i \in DOMAIN Focusable : Focusable[i]}
      found == IF there = {} THEN every ELSE there
  IN IF forwards THEN Min(found) ELSE Max(found)
Tab ==
  /\ Running
  /\ box' = [box EXCEPT !.focus = advance_focus(@, ~box.shift)]
  /\ UNCHANGED <<labels, status>>

\* The input box and its position are not initialised.
CalcInit ==
  /\ \E s \in Leftovers, t \in Typings :
       box = [input |-> s, shift |-> FALSE, focus |-> 2, state |-> "running", typed |-> 0, typing |-> t]
  /\ labels = [i \in 1..LABELS |-> EmptyLabel]
  /\ status = "hello looser!"

CalcNext ==
  \/ \E k \in Keys : TypeKey(k)
  \/ \E pressed \in BOOLEAN : Shift(pressed)
  \/ CalcBackspace \/ Enter \/ ControlPressed \/ Tab

-----------------------------------------------------------------------------
(* What the texts mean.                                                    *)

\* The value of an expression by its grammar, <<>> for a text that is none: a sum or
\* difference splits at its last operator outside brackets, else a product does.
Outside(s, i) == CountIn("(", SubSeq(s, 1, i)) = CountIn(")", SubSeq(s, 1, i))
SplitAt(s, ops) == {i \in DOMAIN s : s[i] \in ops /\ Outside(s, i)}
IsNumber(s) ==
  s # <<>> /\ Head(s) \in Digit /\ (\A i \in DOMAIN s : s[i] \in Digit \cup {"."}) /\ CountIn(".", s) <= 1
Joined(c, a, b) == IF a = <<>> \/ b = <<>> THEN <<>> ELSE <<c>> \o a \o b
RECURSIVE ValueOf(_)
ValueOf(s) ==
  LET sums == SplitAt(s, {"+", "-"})
      products == SplitAt(s, {"*", "/"})
      split == IF sums # {} THEN sums ELSE products
  IN CASE split # {} ->
            LET i == Max(split) IN
            Joined(s[i], ValueOf(SubSeq(s, 1, i - 1)), ValueOf(SubSeq(s, i + 1, Len(s))))
       [] split = {} /\ Len(s) > 2 /\ Head(s) = "(" /\ Last(s) = ")" -> ValueOf(SubSeq(s, 2, Len(s) - 1))
       [] split = {} /\ IsNumber(s) -> NumberTerm(s)
       [] OTHER -> <<>>

\* Texts that leave room: for each number, for the operators and brackets that can
\* wait at once, and for all the elements of the result.
Numbers(s) == {i \in DOMAIN s : s[i] \in Digit /\ (i = 1 \/ s[i - 1] \notin Digit \cup {"."})}
Waiting(s) == Len(SelectSeq(s, LAMBDA c : c \in Operator \cup {"("}))
LeavesRoom(s) ==
  /\ \A i \in Numbers(s) : NumberEnd(s, i) - i < DIGITS
  /\ Cardinality(Numbers(s)) <= NUMBERS
  /\ Waiting(s) <= STACK
  /\ Cardinality(Numbers(s)) + Waiting(s) <= RESULT

\* Enter puts the value of the expression by the usual rules into the first label,
\* beside the text it belongs to, above the labels that were there; and an expression
\* that leaves room in the arrays is never refused (main.c:229-380, 983-1022).  Of
\* other texts the program takes, the value is not said.
EnterShowsTheValue ==
  [][LET s == BoxText(box.input)
         known == LeavesRoom(s) /\ ValueOf(s) # <<>>
     IN /\ labels' # labels =>
             /\ labels'[1].text = prepare_calc_string(s)
             /\ known => labels'[1].value = ValueOf(s)
             /\ \A i \in 2..LABELS : labels'[i] = labels[i - 1]
        /\ status' \notin {status, ""} => ~known]_calcVars

\* Whatever a text means, a parse writes beside its arrays only for a text that is
\* too long for one of them or closes a bracket it did not open: the checks at the
\* head of the loop come one element late and cover two of the four (main.c:240-320).
OnlyOddTextsStray ==
  box.state = "stray write" =>
    LET s == BoxText(box.input)
    IN ~LeavesRoom(s) \/ \E t \in Prefixes(s) : CountIn(")", t) > CountIn("(", t)
=============================================================================
