--------------------------- MODULE MCKeyboardRing ---------------------------
(* A ring of four slots that can overflow and wrap round twice.            *)
EXTENDS KeyboardRing
=============================================================================
