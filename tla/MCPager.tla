------------------------------- MODULE MCPager -------------------------------
(* Six pages of memory: two are the kernel's, one is the stack of "dummy",   *)
(* three are left.  Tables of two entries: the shell's, a child's and the    *)
(* tables below them.  The heap has room for three ranges.                   *)
EXTENDS Pager
=============================================================================
