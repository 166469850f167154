------------------------------- MODULE MCRest -------------------------------
(* Rest for TLC: two timer events to a block and one to a back-off, so that *)
(* a 403 is followed by responses while it lasts, and Retry-After periods   *)
(* shorter and longer than both.                                            *)
EXTENDS Rest
=============================================================================
