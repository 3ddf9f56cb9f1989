---------------------------- MODULE TextLibrary ----------------------------
(***************************************************************************)
(* A program that prints into a buffer and reads it back with the C        *)
(* library: gob_sprintf (module Format), and gob_sscanf, scanf.c and       *)
(* intscan.c, over a string that serves as a file; itoa, int_to_str and    *)
(* atoi.  The file knows no end of the string: neither does printing write *)
(* the NUL, nor does reading stop at it, and a field width limits nothing; *)
(* so the program clears the buffer before it prints.                      *)
(***************************************************************************)
EXTENDS Format

CONSTANTS TEXT,      \* characters of the buffer
          Formats,   \* formats the program prints, each with its arguments
          Values,    \* numbers it prints with itoa and int_to_str
          Radixes    \* the bases it does so in

\* The programs call what C defines.
ASSUME FormatsAssumption == \A f \in Formats : Uniform(f.fmt)

VARIABLES buffer,   \* the characters
          printed,  \* not in the code: the last call that printed
          scanned   \* not in the code: the last call that read, since then

textVars == <<buffer, printed, scanned>>

Cleared == [i \in 1..TEXT |-> "NUL"]
Nothing == [by |-> "nothing"]
Overwritten(s) == [i \in 1..TEXT |-> IF i <= Len(s) THEN s[i] ELSE buffer[i]]
FirstNul == Min({i \in 1..TEXT : buffer[i] = "NUL"} \cup {TEXT + 1})

-----------------------------------------------------------------------------
(* Printing.                                                               *)

memset ==
  /\ printed.by # "nothing"
  /\ buffer' = Cleared
  /\ printed' = Nothing /\ scanned' = Nothing

PrintedText(r, f) ==
  /\ Len(r.text) <= TEXT
  /\ buffer' = Overwritten(r.text)
  /\ printed' = [by |-> "sprintf", fmt |-> f.fmt, args |-> f.args, count |-> r.count, text |-> r.text]
  /\ scanned' = Nothing
gob_sprintf(f) == PrintedText(gob_vfprintf(f.fmt, f.args), f)

PrintedNumber(s, by, v, radix) ==
  /\ Len(s) < TEXT
  /\ buffer' = Overwritten(Append(s, "NUL"))
  /\ printed' = [by |-> by, value |-> v, radix |-> radix]
  /\ scanned' = Nothing
PrintItoa(v, radix) == PrintedNumber(itoa(v, radix), "itoa", v, radix)
PrintIntToStr(v, radix) == PrintedNumber(int_to_str(v, radix), "int_to_str", v, radix)

-----------------------------------------------------------------------------
(* Reading.                                                                *)

\* The character a pointer is at; the bytes behind the buffer are taken for NULs.
CharAt(i) == IF i <= TEXT THEN buffer[i] ELSE "NUL"
IsSpace(c) == c = " "
DigitOf(c) == IF \E k \in 1..16 : DigitChars[k] = c THEN (CHOOSE k \in 1..16 : DigitChars[k] = c) - 1 ELSE 255
AfterSpaces(i) == Min({j \in i..(TEXT + 1) : ~IsSpace(CharAt(j))})
AfterDigits(i, base) == Min({j \in i..(TEXT + 1) : DigitOf(CharAt(j)) >= base})
ValueIn(i, j, base) ==
  FoldLeft(LAMBDA v, c : v * base + DigitOf(c), 0, [k \in 1..(j - i) |-> CharAt(i + k - 1)])

ULLONG_MAX == Two(BITS.intmax) - 1
Unread(i) == [value |-> 0, end |-> i, read |-> FALSE]
\* Mutant of Digits: the sign is lost.
DigitsUnsigned(i, base, negative) ==
  LET j == AfterDigits(i, base) IN [value |-> Min({ValueIn(i, j, base), ULLONG_MAX}), end |-> j, read |-> TRUE]
\* The digits from i on; too many of them count as the largest number, without sign.
Digits(i, base, negative) ==
  LET j == AfterDigits(i, base)
      v == ValueIn(i, j, base)
  IN [value |-> CASE v > ULLONG_MAX -> ULLONG_MAX
                  [] v <= ULLONG_MAX /\ negative -> Unsigned(-v, "intmax")
                  [] OTHER -> v,
      end |-> j, read |-> TRUE]
\* An "0x" without digits behind it, and a text without digits, count as nothing read.
AfterSign(i, base, negative) ==
  CASE base \in {0, 16} /\ CharAt(i) = "0" /\ CharAt(i + 1) = "x" ->
         IF DigitOf(CharAt(i + 2)) >= 16 THEN Unread(i) ELSE Digits(i + 2, 16, negative)
    [] base = 0 /\ CharAt(i) = "0" /\ CharAt(i + 1) # "x" -> Digits(i, 8, negative)
    [] base = 0 /\ CharAt(i) # "0" ->
         IF DigitOf(CharAt(i)) >= 10 THEN Unread(i) ELSE Digits(i, 10, negative)
    [] OTHER -> IF DigitOf(CharAt(i)) >= base THEN Unread(i) ELSE Digits(i, base, negative)
gob_intscan(i, base) ==
  LET j == AfterSpaces(i) IN
  IF CharAt(j) \in {"+", "-"} THEN AfterSign(j + 1, base, CharAt(j) = "-") ELSE AfterSign(j, base, FALSE)

BaseOf(conv) ==
  CASE conv \in {"p", "x", "X"} -> 16 [] conv = "o" -> 8 [] conv \in {"d", "u"} -> 10 [] OTHER -> 0
store_int(length, v) == Signed(v, TypeOf(length))

\* One call with one conversion.  A %s goes on past the end of the string to the next
\* blank, and a %c past everything: neither is called.
gob_vfscanf(conv, length) ==
  LET r == gob_intscan(AfterSpaces(1), BaseOf(conv))
  IN [by |-> "sscanf", conv |-> conv, length |-> length,
      matches |-> IF r.read THEN 1 ELSE 0, value |-> IF r.read THEN store_int(length, r.value) ELSE 0]
gob_sscanf(conv, length) ==
  /\ printed.by # "nothing"
  /\ scanned' = gob_vfscanf(conv, length)
  /\ UNCHANGED <<buffer, printed>>

\* atoi adds up the digits wherever they are, and is one factor of ten ahead: the sum
\* overflows a digit too early.  The division rounds towards 0.
TowardsZero(v, n) == IF v < 0 THEN -((-v) \div n) ELSE v \div n
atoi ==
  LET s == [i \in 1..(FirstNul - 1) |-> buffer[i]]
      digits == SelectSeq(s, LAMBDA c : DigitOf(c) < 10)
      sum == FoldLeft(LAMBDA v, c : Signed((v + DigitOf(c)) * 10, "int"), 0, digits)
      firstDigit == Min({i \in DOMAIN s : DigitOf(s[i]) < 10} \cup {FirstNul})
      sign == IF \E i \in 1..(firstDigit - 1) : s[i] = "-" THEN -1 ELSE 1
  IN TowardsZero(sum, 10) * sign
Atoi ==
  /\ printed.by \in {"itoa", "int_to_str"}
  /\ scanned' = [by |-> "atoi", value |-> atoi]
  /\ UNCHANGED <<buffer, printed>>

-----------------------------------------------------------------------------

TextInit == buffer = Cleared /\ printed = Nothing /\ scanned = Nothing

TextNext ==
  \/ printed = Nothing /\ \E f \in Formats : gob_sprintf(f)
  \/ printed = Nothing /\ \E v \in Values, radix \in Radixes : PrintItoa(v, radix)
  \/ printed = Nothing /\ \E v \in Values, radix \in Radixes : PrintIntToStr(v, radix)
  \/ \E conv \in {"d", "i", "u", "x", "o"}, length \in {"", "hh"} : gob_sscanf(conv, length)
  \/ memset \/ Atoi

-----------------------------------------------------------------------------

\* The count gob_sprintf returns is the length C gives the text (format.c:268-770); but
\* for a pointer, which C leaves open, and for a refused format, where a star without
\* position follows a position.  The text is C's only where C pads nothing and prints no
\* 0: pad() writes the wrong number of characters, and a 0 gets no digit.
HasPointer(fmt) == \E i \in DOMAIN fmt : ~IsText(fmt[i]) /\ fmt[i].conv = "p"
SprintfCountsLikeC ==
  printed.by = "sprintf" /\ printed.count >= 0 /\ ~HasPointer(printed.fmt) =>
    LET c == CFormat(printed.fmt, printed.args, 1)
    IN /\ printed.count = Len(c.text)
       /\ c.padding = 0 /\ ~c.zero => printed.text = c.text

\* A number printed into an empty buffer is read back by the conversion that printed
\* it, whatever was padded, unless it is 0, which gob_sprintf does not print, or printed
\* by a %i with a 0 in front, which %i takes for octal (intscan.c:46-66, as C does);
\* and atoi reads back what itoa and int_to_str print in base 10, up to a tenth of the
\* largest number.
LooksOctal(text) ==
  \E i \in DOMAIN text : text[i] = "0" /\ \A j \in 1..(i - 1) : text[j] \in {" ", "+", "-"}
IntMax == Two(BITS.int - 1) - 1
OneNumber ==
  Len(printed.fmt) = 1 /\ ~IsText(printed.fmt[1]) /\ printed.fmt[1].conv = scanned.conv
    /\ TypeOf(printed.fmt[1].length) = TypeOf(scanned.length) /\ Len(printed.args) = 1
    /\ (scanned.conv = "i" => ~LooksOctal(printed.text))
ReadBack(v, type) == Unsigned(v, type) # 0 => scanned.matches = 1 /\ scanned.value = Signed(v, type)
ScanReadsBack ==
  /\ printed.by = "sprintf" /\ scanned.by = "sscanf" =>
       (OneNumber => ReadBack(printed.args[1], TypeOf(scanned.length)))
  /\ printed.by \in {"itoa", "int_to_str"} /\ scanned.by = "atoi" =>
       (printed.radix = 10 /\ printed.value \in -(IntMax \div 10)..(IntMax \div 10)
          => scanned.value = printed.value)
=============================================================================
