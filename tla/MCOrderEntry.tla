---------------------------- MODULE MCOrderEntry -----------------------------
(* OrderEntry for TLC: a few requests, two sessions.  Request ids are       *)
(* interchangeable.                                                         *)
EXTENDS OrderEntry, TLC
Symmetry == Permutations(RequestId)
=============================================================================
