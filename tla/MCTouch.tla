------------------------------ MODULE MCTouch ------------------------------
(* Two values an axis: the least that can be sent, or not, again. *)
EXTENDS Touch

Values == Permutations(X) \cup Permutations(Y)
=============================================================================
