---------------------------- MODULE MCController ----------------------------
(* Controller for TLC: three symbols in slices of two, so that a new symbol *)
(* may complete a slice, begin one, or both; one of them is discarded       *)
(* unless a client asks for it.                                             *)
EXTENDS Controller
=============================================================================
