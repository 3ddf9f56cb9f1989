---------------------------- MODULE MCEstrosDirs ----------------------------
(* Files of every size up to a triple-indirect block, packed next to a small *)
(* one; and small trees that are mounted.  Their directories are empty, one  *)
(* entry short of a block, full, or longer than a block; what is packed next *)
(* to them is a file or their parent.                                        *)
EXTENDS EstrosDirs

File(name, size) == [p \in {<<name>>} |-> size]
Dir(path) == [p \in {path} |-> DIR]
In(dir, names) == [p \in {Append(dir, n) : n \in names} |-> 0]

MCNameCells == [n \in {"a", "d", "e", "f", "g", "x", "y", "z"} |-> 1] @@ [n \in {"b", "w"} |-> 2]
MCHosts ==
  {Dir(<<>>) @@ File("f", SECTOR * size) @@ File("g", SECTOR) : size \in {0, 1} \cup 4..50}
  \cup {Dir(<<>>) @@ Dir(<<"d">>) @@ File("f", SECTOR) @@ In(<<"d">>, names) :
          names \in {{}, {"x"}, {"x", "y"}, {"x", "w"}, {"x", "y", "z"}, {"x", "y", "z", "w"}}}
  \cup {Dir(<<>>) @@ Dir(<<"d">>) @@ Dir(<<"d", "e">>) @@ In(<<"d", "e">>, {"x"})}
=============================================================================
