----------------------------- MODULE MCPrograms -----------------------------
(* Small programs for TLC: short texts, a field of 3 by 3, narrow numbers;  *)
(* and what is typed, printed and read.                                     *)
EXTENDS Programs, MCConsole

MCAscii == [c \in CodeKeys |-> 1]

\* calc: every key with and without shift; what a user types, as a bag of characters.
MCPrinted == [k \in Keys |-> CASE k = "9" -> [s \in BOOLEAN |-> IF s THEN "(" ELSE "9"]
   [] k = "0" -> [s \in BOOLEAN |-> IF s THEN ")" ELSE "0"]
   [] k = "8" -> [s \in BOOLEAN |-> IF s THEN "*" ELSE "8"]
   [] k = " " -> [s \in BOOLEAN |-> " "]
   [] k = "-" -> [s \in BOOLEAN |-> IF s THEN "_" ELSE "-"]
   [] k = "." -> [s \in BOOLEAN |-> IF s THEN ">" ELSE "."]]
MCTypings == {
  [chars |-> "9" :> 3 @@ "-" :> 3 @@ "*" :> 1, keys |-> 6],
  [chars |-> "9" :> 3 @@ "(" :> 1 @@ ")" :> 1 @@ "-" :> 1 @@ "*" :> 1, keys |-> 7],
  [chars |-> "9" :> 2 @@ "." :> 2 @@ "_" :> 1 @@ "-" :> 1 @@ "NUL" :> 1, keys |-> 5],
  [chars |-> "9" :> 1 @@ "(" :> 4 @@ ")" :> 2 @@ "*" :> 1, keys |-> 6],
  [chars |-> "9" :> 4 @@ " " :> 3, keys |-> 7]}
MCLeftovers == {<<>>, <<"9">>}

\* minesweeper: where the random numbers put the bombs, twice on one place too.
MCSeeds == {<< <<0, 0>>, <<0, 0>> >>, << <<1, 1>>, <<2, 0>> >>, << <<2, 2>>, <<2, 2>> >>,
            << <<1, 0>>, <<1, 2>> >>, << <<0, 1>>, <<2, 1>> >>}

\* Formats: one number with every set of these flags, and some of several elements.
MCBits == [char |-> 4, short |-> 6, int |-> 8, intmax |-> 10]
Given(n) == [star |-> FALSE, position |-> 0, n |-> n]
Star(position) == [star |-> TRUE, position |-> position, n |-> 0]
Conversion(conv, flags, width, precision, length, position) ==
  [kind |-> "conversion", conv |-> conv, flags |-> flags, width |-> width, precision |-> precision,
   length |-> length, position |-> position]
Bare(conv) == Conversion(conv, {}, Given(0), Given(-1), "", 0)
SingleFormats ==
  {[fmt |-> <<Conversion(conv, flags, Given(width), Given(precision), length, 0)>>, args |-> <<v>>] :
     conv \in {"d", "i", "u", "x", "o"}, flags \in SUBSET {"-", "0", "+", "#"}, width \in {0, 4},
     precision \in {-1, 0, 3}, length \in {"", "hh"}, v \in {-128, -13, 0, 7, 127}}
OtherFormats == {
  [fmt |-> <<[kind |-> "text", text |-> <<"a">>], Conversion("d", {" "}, Star(0), Given(-1), "", 0), Bare("n")>>,
   args |-> <<-3, 12, 0>>],
  [fmt |-> <<Conversion("d", {}, Star(2), Given(-1), "", 1), Conversion("s", {}, Given(0), Given(1), "", 3)>>,
   args |-> <<12, 2, <<"h", "i">> >>],
  [fmt |-> <<Conversion("d", {}, Star(0), Given(-1), "", 1)>>, args |-> <<2, 12>>],
  [fmt |-> <<Conversion("d", {}, Given(0), Given(-1), "", 2)>>, args |-> <<2, 12>>],
  [fmt |-> <<Bare("c"), Conversion("s", {}, Given(4), Given(-1), "", 0), Bare("p")>>,
   args |-> <<"h", <<"h", "i">>, 77>>],
  [fmt |-> <<Conversion("i", {"+"}, Given(0), Star(0), "ll", 0), Conversion("d", {}, Given(0), Given(-1), "h", 0)>>,
   args |-> <<1, 77, 77>>],
  [fmt |-> <<Conversion("p", {}, Given(0), Given(1), "", 0)>>, args |-> <<77>>]}
MCFormats == SingleFormats \cup OtherFormats
MCValues == {-128, -100, -13, -12, -1, 0, 1, 7, 12, 13, 99, 127}
MCRadixes == {2, 10, 16}
=============================================================================
