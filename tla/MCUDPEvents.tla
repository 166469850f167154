----------------------------- MODULE MCUDPEvents -----------------------------
(* UDPEvents for TLC. *)
EXTENDS UDPEvents, TLC
Symmetry == Permutations(Instruments)

(* The gateway is running: the instruments are known, and the channel has  *)
(* read the datagram before the first one.                                 *)
RunningInit ==
    /\ sent = <<>>
    /\ newest = 0 /\ frame = 0 /\ at = 0
    /\ channel = [NewChannel EXCEPT !.initialized = TRUE,
                                    !.previous = FirstSequence - 1]
    /\ change_id = 0
    /\ known = Instruments
    /\ last = [c \in Kinds \X Instruments |-> NotSeen]
    /\ handed = {}
    /\ published = [c \in Kinds \X Instruments |-> <<>>]

RunningSpec == RunningInit /\ [][Next]_vars
=============================================================================
