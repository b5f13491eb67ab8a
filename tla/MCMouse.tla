------------------------------- MODULE MCMouse -------------------------------
EXTENDS Mouse

(* Two windows, as in the kernel: the second to the right of the first. *)
SideBySide == <<<<0, 0>>, <<2, 0>>>>
=============================================================================
