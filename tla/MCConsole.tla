------------------------------ MODULE MCConsole ------------------------------
\* Console on a small screen, for TLC.
EXTENDS Console, TLC

MCChars == {"0", "1", "2", "3", "4", "5", "6", "7", "8", "9", "A", "B", "C", "D", "E", "F",
            "NUL", "-", " ", "garbage", "back", "a", "tab", "return"}
MCLetterKeys == {<<"a", "A">>, <<"tab", "tab">>}
MCTexts == {<<"tab">>, <<"return">>}
MCCursorPositions == {<<0, 1>>}
MCPrintedInts == {-4}
MCIntMin == -4
ProcessesAlike == Permutations(Procs)
=============================================================================
