------------------------------- MODULE Format -------------------------------
(***************************************************************************)
(* gob_sprintf of the C library, lib/goblibc/src/format.c, and the string  *)
(* that serves it as a file, file_scan_helpers.c; and the number to text   *)
(* functions of stdlib.c.  A format is a sequence of elements, each a text *)
(* or a conversion whose flags, width and precision were already read.     *)
(* Floating point, wide characters, strerror and the overflow of the count *)
(* are left out, and so is the number a %n stores.                         *)
(***************************************************************************)
EXTENDS Integers, Sequences, SequencesExt, FiniteSetsExt

CONSTANTS BITS,      \* a type to its width: char, short, int, intmax
          POINTER    \* sizeof(void *), 4

ASSUME FormatAssumption ==
  /\ BITS.char < BITS.short /\ BITS.short < BITS.int /\ BITS.int < BITS.intmax /\ BITS.char \in Nat \ {0}
  /\ POINTER \in Nat

-----------------------------------------------------------------------------
(* Numbers.                                                                *)

Two(n) == 2^n
Unsigned(v, type) == v % Two(BITS[type])
Signed(v, type) ==
  LET u == Unsigned(v, type) IN IF u >= Two(BITS[type] - 1) THEN u - Two(BITS[type]) ELSE u

\* The type a conversion takes from the list, by its length modifier; long and the
\* types of sizes are as wide as int.
TypeOf(length) ==
  CASE length = "hh" -> "char" [] length = "h" -> "short"
    [] length \in {"ll", "j"} -> "intmax" [] OTHER -> "int"
\* Mutant of pop_arg: the length modifier is ignored.
PopWhole(conv, length, v) == Unsigned(v, "intmax")
\* What union arg holds afterwards: a number of type uintmax_t.
pop_arg(conv, length, v) ==
  Unsigned(IF conv \in {"d", "i"} THEN Signed(v, TypeOf(length)) ELSE Unsigned(v, TypeOf(length)), "intmax")

\* The case of the letters is left out.
DigitChars == <<"0", "1", "2", "3", "4", "5", "6", "7", "8", "9", "a", "b", "c", "d", "e", "f">>
RECURSIVE InBase(_, _)
InBase(v, base) == IF v = 0 THEN <<>> ELSE Append(InBase(v \div base, base), DigitChars[(v % base) + 1])
\* No digit at all for 0.
gob_format_hex(v) == InBase(v, 16)
gob_format_octal(v) == InBase(v, 8)
gob_format_unsigned(v) == InBase(v, 10)

\* itoa: a sign in base 10 only, else the number is taken as unsigned.
itoa(v, radix) ==
  CASE v = 0 -> <<"0">>
    [] v < 0 /\ radix = 10 -> <<"-">> \o InBase(-v, 10)
    [] OTHER -> InBase(Unsigned(v, "int"), radix)
\* int_to_str: a sign in every base.  The negative of the smallest number is itself,
\* and its digits are characters below '0'.
int_to_str(v, radix) ==
  CASE v = 0 -> <<"0">>
    [] v = -Two(BITS.int - 1) -> <<"-", "wild digits">>
    [] v < 0 /\ v # -Two(BITS.int - 1) -> <<"-">> \o InBase(-v, radix)
    [] OTHER -> InBase(v, radix)

-----------------------------------------------------------------------------
(* One conversion.                                                         *)

\* pad() writes as many characters as it is told are there already, instead of those
\* that are missing.
pad(c, width, n, flags) ==
  IF flags \cap {"-", "0"} # {} \/ n >= width THEN <<>> ELSE [i \in 1..n |-> c]
Toggle(flags, f) == IF f \in flags THEN flags \ {f} ELSE flags \cup {f}

\* The tail of the loop: prefix, zeros, digits, within blanks.
Assemble(prefix, digits, precision, width, flags) ==
  LET p == Max({precision, Len(digits)})
      n == Len(prefix) + p
      w == Max({width, n})
  IN [count |-> w,
      text |-> pad(" ", w, n, flags) \o prefix \o pad("0", w, n, Toggle(flags, "0"))
               \o pad("0", p, Len(digits), {}) \o digits \o pad(" ", w, n, Toggle(flags, "-"))]

Sign(negative, flags) ==
  CASE negative -> <<"-">> [] ~negative /\ "+" \in flags -> <<"+">>
    [] ~negative /\ "+" \notin flags /\ " " \in flags -> <<" ">> [] OTHER -> <<>>

\* ifmt_tail: a 0 has one digit, or none if the precision is 0.
Tail0(prefix, v, digits, precision, width, flags) ==
  LET p == IF v = 0 /\ precision = 0 THEN 0 ELSE Max({precision, Len(digits) + (IF v = 0 THEN 1 ELSE 0)})
  IN Assemble(prefix, digits, p, width, flags)

Negative(v) == v > Two(BITS.intmax - 1) - 1
Magnitude(v) == IF Negative(v) THEN Unsigned(-v, "intmax") ELSE v
Hex(v, precision, width, flags) ==
  Tail0(IF v # 0 /\ "#" \in flags THEN <<"0", "x">> ELSE <<>>, v, gob_format_hex(v), precision, width, flags)
Octal(v, digits, precision, width, flags) ==
  Tail0(<<>>, v, digits, IF "#" \in flags THEN Max({precision, Len(digits) + 1}) ELSE precision, width, flags)

\* A number of a kind: a given precision switches the zeros off.
ConvertNumber(conv, v, precision, width, flags) ==
  LET fl == IF precision >= 0 THEN flags \ {"0"} ELSE flags IN
  CASE conv \in {"d", "i"} ->
         Tail0(Sign(Negative(v), flags), v, gob_format_unsigned(Magnitude(v)), precision, width, fl)
    [] conv = "u" -> Tail0(<<>>, v, gob_format_unsigned(v), precision, width, fl)
    [] conv = "x" -> Hex(v, precision, width, fl)
    \* The precision of a pointer is compared as unsigned: none at all counts as the longest.
    [] conv = "p" -> Hex(v, IF precision < 0 THEN precision ELSE Max({precision, 2 * POINTER}), width, fl \cup {"#"})
    [] conv = "o" -> Octal(v, gob_format_octal(v), precision, width, fl)
ConvertText(s, precision, width, flags) ==
  LET cut == IF precision < 0 THEN s ELSE SubSeq(s, 1, Min({precision, Len(s)}))
  IN Assemble(<<>>, cut, Len(cut), width, flags \ {"0"})

-----------------------------------------------------------------------------
(* gob_format_core: the format from its first element to the last.         *)

\* An element: [kind |-> "text", text], or a conversion with its position (0: none),
\* and a width and a precision that are numbers (-1: none) or stars.
IsText(e) == e.kind = "text"
Number(conv) == conv \in {"d", "i", "u", "x", "p", "o"}
Stars(e) == {x \in {e.width, e.precision} : x.star}
Positions(e) == {x \in {e.position} \cup {w.position : w \in Stars(e)} : x > 0}
Conversions(fmt) == {fmt[i] : i \in {j \in DOMAIN fmt : ~IsText(fmt[j])}}
\* A format that mixes conversions with and without a position is undefined in C; the
\* code reads the arguments of the positions uninitialized.
Uniform(fmt) ==
  \/ \A e \in Conversions(fmt) : e.position > 0
  \/ \A e \in Conversions(fmt) : Positions(e) = {}

\* The value of a star or of the conversion itself: by position or the next one.
Argument(s, position) == IF position > 0 THEN s.args[position] ELSE s.args[s.next]
Taken(s, position) == IF position > 0 THEN s ELSE [s EXCEPT !.next = @ + 1]
AfterStar(s, star) == IF star.star THEN Taken(s, star.position) ELSE s
StarValue(s, star) == IF star.star THEN Signed(Argument(s, star.position), "int") ELSE star.n

\* A negative width adjusts to the left, and that switches the zeros off.
Adjusted(flags, w) == IF w < 0 \/ "-" \in flags THEN (flags \cup {"-"}) \ {"0"} ELSE flags
Emitted(s, r) == [s EXCEPT !.text = @ \o r.text, !.count = @ + r.count]
Convert(e, v, precision, width, flags) ==
  CASE Number(e.conv) -> ConvertNumber(e.conv, pop_arg(e.conv, e.length, v), precision, width, flags)
    [] e.conv = "s" -> ConvertText(v, precision, width, flags)
    [] e.conv = "c" -> ConvertText(<<v>>, 1, width, flags)
    [] e.conv = "n" -> [text |-> <<>>, count |-> 0]
AfterStars(s, t, u, e) ==
  LET w == StarValue(s, e.width)
  IN Emitted(Taken(u, e.position),
             Convert(e, Argument(u, e.position), StarValue(t, e.precision), IF w < 0 THEN -w ELSE w,
                     Adjusted(e.flags, w)))
Printed1(s, e) ==
  IF IsText(e) THEN Emitted(s, [text |-> e.text, count |-> Len(e.text)])
  ELSE LET t == AfterStar(s, e.width) IN AfterStars(s, t, AfterStar(t, e.precision), e)

\* The first pass over the format collects the types of the positions.  It refuses a
\* star without a position behind a position, and a gap in the positions.
Mixed(fmt) == \E e \in Conversions(fmt) : e.position > 0 /\ \E w \in Stars(e) : w.position = 0
Gap(fmt) ==
  LET used == UNION {Positions(e) : e \in Conversions(fmt)} IN
  \E n \in used : ~(1..n \subseteq used)

gob_vfprintf(fmt, args) ==
  IF Mixed(fmt) \/ Gap(fmt) THEN [text |-> <<>>, count |-> -1]
  ELSE LET s == FoldLeft(Printed1, [text |-> <<>>, count |-> 0, args |-> args, next |-> 1], fmt)
       IN [text |-> s.text, count |-> s.count]

-----------------------------------------------------------------------------
(* What C says.                                                            *)

Times(c, n) == [i \in 1..n |-> c]
Widened(prefix, digits, zeros, width, flags) ==
  LET missing == Max({0, width - Len(prefix) - Len(digits)}) IN
  CASE "-" \in flags -> prefix \o digits \o Times(" ", missing)
    [] "-" \notin flags /\ zeros /\ "0" \in flags -> prefix \o Times("0", missing) \o digits
    [] OTHER -> Times(" ", missing) \o prefix \o digits
Precise(digits, precision) == Times("0", Max({0, precision - Len(digits)})) \o digits

\* An integer conversion of the argument v: the text, how much of it is padding, and
\* whether its digits are those of a 0.
CInteger(e, v, precision, width, flags) ==
  LET signed == e.conv \in {"d", "i"}
      n == IF signed THEN Signed(v, TypeOf(e.length)) ELSE Unsigned(v, TypeOf(e.length))
      bare == InBase(IF n < 0 THEN -n ELSE n, CASE signed \/ e.conv = "u" -> 10 [] e.conv = "o" -> 8 [] OTHER -> 16)
      precise == Precise(bare, IF precision < 0 THEN 1 ELSE precision)
      digits == IF e.conv = "o" /\ "#" \in flags /\ (precise = <<>> \/ Head(precise) # "0")
                THEN <<"0">> \o precise ELSE precise
      prefix == CASE signed -> Sign(n < 0, flags)
                  [] e.conv = "x" /\ "#" \in flags /\ n # 0 -> <<"0", "x">>
                  [] OTHER -> <<>>
      text == Widened(prefix, digits, precision < 0, width, flags)
      zero == n = 0 /\ precision # 0
  IN [text |-> text, zero |-> zero, padding |-> Len(text) - Len(prefix) - (IF zero THEN 1 ELSE Len(bare))]
\* A string or a character.
CString(s, precision, width, flags) ==
  LET cut == IF precision < 0 THEN s ELSE SubSeq(s, 1, Min({precision, Len(s)}))
      text == Widened(<<>>, cut, FALSE, width, flags)
  IN [text |-> text, zero |-> FALSE, padding |-> Len(text) - Len(cut)]

\* A whole format: stars and conversions take the arguments in their order, or by
\* position.
CStar(star, args, next) == IF star.star THEN args[IF star.position > 0 THEN star.position ELSE next] ELSE star.n
Plain(x) == IF x.star /\ x.position = 0 THEN 1 ELSE 0
CElement(e, v, width, precision) ==
  LET flags == IF width < 0 THEN e.flags \cup {"-"} ELSE e.flags
      w == IF width < 0 THEN -width ELSE width
  IN CASE Number(e.conv) -> CInteger(e, v, precision, w, flags)
       [] e.conv = "s" -> CString(v, precision, w, flags)
       [] e.conv = "c" -> CString(<<v>>, -1, w, flags)
       [] OTHER -> CString(<<>>, -1, 0, {})
CConversion(e, args, next) ==
  CElement(e, args[IF e.position > 0 THEN e.position ELSE next + Plain(e.width) + Plain(e.precision)],
           CStar(e.width, args, next), CStar(e.precision, args, next + Plain(e.width)))
RECURSIVE CFormat(_, _, _)
CFormat(fmt, args, next) ==
  IF fmt = <<>> THEN CString(<<>>, -1, 0, {})
  ELSE LET e == Head(fmt)
           used == IF IsText(e) THEN 0
                   ELSE Plain(e.width) + Plain(e.precision) + (IF e.position = 0 THEN 1 ELSE 0)
           rest == CFormat(Tail(fmt), args, next + used)
           this == IF IsText(e) THEN CString(e.text, -1, 0, {}) ELSE CConversion(e, args, next)
       IN [text |-> this.text \o rest.text, zero |-> this.zero \/ rest.zero,
           padding |-> this.padding + rest.padding]
=============================================================================
