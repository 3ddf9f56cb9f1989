------------------------------- MODULE MCVfs -------------------------------
(* A window of two slots and hashes of six bits, chosen so that paths       *)
(* collide and the table doubles while files are open.                       *)
EXTENDS Vfs, TLC

tty == <<"/", "dev", "/", "tty">>
hdd == <<"/", "dev", "/", "hdd">>
kdb == <<"/", "dev", "/", "kdb">>
log == <<"/", "sys", "/", "log">>
lost == <<"/", "f", "/", "g", "/", "h">>
file == <<"/", "f">>
inside == <<"/", "f", "/", "g">>
root == <<"/">>
dev == <<"/", "dev">>
sys == <<"/", "sys">>

MCLiterals == [tty |-> tty, hdd |-> hdd, kdb |-> kdb, log |-> log, root |-> root, dev |-> dev]
MCOnDisk == root :> 2 @@ dev :> 2 @@ sys :> 2 @@ log :> 1
\* A path through two missing directories; cut, it is one of a file that can be
\* created, and then there is a file where the path has its first directory.
MCUserPaths == {kdb, lost}
MCHash == tty :> 60 @@ hdd :> 56 @@ kdb :> 62 @@ log :> 48 @@ file :> 57 @@ root :> 3
          @@ dev :> 0 @@ sys :> 40 @@ lost :> 33 @@ inside :> 49
Symmetry == Permutations(Processes)
=============================================================================
