------------------------- MODULE MCDirectoryIterator -------------------------
EXTENDS DirectoryIterator, TLC

CONSTANTS A, B, C

(* Three names as convert_entry shows them. *)
ThreeFiles == {[base |-> b, cut |-> FALSE, dot |-> TRUE] : b \in {A, B, C}}

(* Files are interchangeable. *)
Symmetry == Permutations({A, B, C})
=============================================================================
