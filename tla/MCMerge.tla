------------------------------ MODULE MCMerge ------------------------------
(* Three paths, one of them inside a directory that could itself be a file, *)
(* and three inodes, two of which hold the same content.                    *)
EXTENDS Merge

MCPath == {"docs", "docs/guide", "src"}
MCAbove == [x \in MCPath |-> IF x = "docs/guide" THEN {"docs"} ELSE {}]
MCInode == {1, 2, 3}
MCHash == [i \in MCInode |-> IF i = 3 THEN 11 ELSE 10]
=============================================================================
