----------------------------- MODULE MCEstrosFs -----------------------------
(* Blocks of two words, one direct block and a cache of two blocks: a file   *)
(* of eight words needs a direct, two single-indirect and a double-indirect  *)
(* block, and a request of four words may run past the cache.                *)
EXTENDS EstrosFs, TLC
Symmetry == Permutations(Files) \cup Permutations(Handles) \cup Permutations(Data)
=============================================================================
