------------------------------- MODULE Channel -------------------------------
(***************************************************************************)
(* gateway/channel.cpp: the sequence check of one multicast channel, and   *)
(* the levels of a book or snapshot that spans several datagrams.  A       *)
(* channel is a value; UDPEvents and UDPSnapshot keep one each.  A level   *)
(* is named by the update and the part of it that it belongs to.           *)
(***************************************************************************)
EXTENDS Integers, Sequences

CONSTANT SequenceModulus  \* sequence numbers are uint32_t: 2^32 in the code

ASSUME ChannelAssumption == SequenceModulus \in Nat \ {0, 1}

NewChannel ==
    [previous |-> 0, initialized |-> FALSE, ready |-> FALSE, levels |-> <<>>]

InSequence(channel, sequence_number) ==
    sequence_number = (channel.previous + 1) % SequenceModulus

(* operator()(Frame): is the datagram to be processed? *)
Accepts(channel, sequence_number) ==
    \/ InSequence(channel, sequence_number)
    \/ sequence_number # channel.previous /\ ~channel.initialized

ResetReadyOnly(channel)  == [channel EXCEPT !.ready = FALSE]   \* mutant
ResetLevelsOnly(channel) == [channel EXCEPT !.levels = <<>>]   \* mutant
ResetEverything(channel) ==                                    \* mutant
    [channel EXCEPT !.levels = <<>>, !.ready = FALSE, !.initialized = FALSE]

(* reset() *)
Reset(channel) == [channel EXCEPT !.levels = <<>>, !.ready = FALSE]

(* The channel after the Frame handler of a stream, which resets a channel *)
(* that did not accept the frame.                                          *)
AfterFrame(channel, sequence_number) ==
    LET moved == [channel EXCEPT !.previous = sequence_number]
    IN  IF InSequence(channel, sequence_number) THEN moved
        ELSE IF Accepts(channel, sequence_number)
             THEN [moved EXCEPT !.initialized = TRUE]
             ELSE Reset(moved)

Append1(channel, level) ==
    [channel EXCEPT !.levels = Append(@, level)]

NotCleared(channel) == channel  \* mutant
Cleared(channel) == [channel EXCEPT !.levels = <<>>]

SnapshotStarted(channel) == [channel EXCEPT !.ready = TRUE]
SnapshotEnded(channel)   == [channel EXCEPT !.ready = FALSE]

(* The levels are those of one update: its parts from some part on up to   *)
(* the one numbered last, in order and without a hole.                     *)
OneUpdate(levels, update, last) ==
    /\ Len(levels) <= last
    /\ \A p \in 1..Len(levels) :
          levels[p] = [update |-> update, part |-> last - Len(levels) + p]

=============================================================================
