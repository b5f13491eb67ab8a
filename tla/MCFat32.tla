------------------------------ MODULE MCFat32 ------------------------------
EXTENDS Fat32, TLC

CONSTANTS A, B, h1, h2

(* A name as convert_entry shows it.                                        *)
Plain(b) == [base |-> b, cut |-> FALSE, dot |-> TRUE]

TwoFiles == {Plain(A), Plain(B)}
OneFile == {Plain(A)}

(* A name, and a longer one whose 8.3 form is the same.                     *)
OneFileAndLonger == {Plain(A), [base |-> A, cut |-> TRUE, dot |-> TRUE]}

(* Handles are interchangeable, and so are files.                           *)
Symmetry == Permutations({h1, h2}) \cup Permutations({A, B})
=============================================================================
