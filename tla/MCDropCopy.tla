----------------------------- MODULE MCDropCopy -----------------------------
(* DropCopy for TLC: two currencies, so that one can be announced after the *)
(* others were asked for.                                                   *)
EXTENDS DropCopy
=============================================================================
