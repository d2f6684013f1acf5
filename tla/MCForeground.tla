---------------------------- MODULE MCForeground ----------------------------
(* Small stock stacks for Foreground. *)
EXTENDS Foreground

CONSTANTS a1, a2, c1

TwoAwesome == {a1, a2}
OneAwesome == {a1}
OneCvm     == {c1}
=============================================================================
