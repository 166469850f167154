----------------------------- MODULE UDPSnapshot -----------------------------
(***************************************************************************)
(* gateway/udp_snapshot.cpp: the stream of book snapshots received by      *)
(* multicast.  The exchange publishes cycles: SnapshotStart, one snapshot  *)
(* per instrument in one or more parts, SnapshotEnd.  How they arrive is   *)
(* in Multicast.                                                           *)
(*                                                                         *)
(* The sequencer of an instrument (market::mbp::Sequencer, external) is    *)
(* shared with UDPEvents: it is ready, or it waits for a snapshot.  Both   *)
(* streams run in one event loop, but a snapshot of several datagrams      *)
(* takes several turns of it, and the events stream may have its turn in   *)
(* between: "XXX FIXME there is a race" (udp_snapshot.cpp:224).            *)
(***************************************************************************)
EXTENDS Multicast

CONSTANTS
    Instruments,
    MaxParts        \* bound: parts of a snapshot

ASSUME UDPSnapshotAssumption == MaxParts \in Nat \ {0}

VARIABLES
    update,     \* the number of snapshots published
    known,      \* Shared::instruments, without the discarded ones
    sequencer,  \* Instrument::mbp_sequencer: "waiting" or "ready"
    raced,      \* history: the instrument or its sequencer changed amid the
                \* snapshot that is being read
    handed      \* history: the snapshots given to the sequencers

vars == <<sent, network, update, known, sequencer, raced, handed>>

Mark(d, kind) == [kind |-> kind, datagram |-> d]
Part(d, i, u, p, k) ==
    [kind |-> "Snapshot", datagram |-> d, instrument |-> i,
     update |-> u, part |-> p, of |-> k]

TypeOK ==
    /\ newest \in 0..Datagrams /\ frame \in 0..newest /\ at \in 0..Len(sent)
    /\ channel.previous \in 0..(SequenceModulus - 1)
    /\ channel.initialized \in BOOLEAN /\ channel.ready \in BOOLEAN
    /\ channel.levels \in Seq([update : 1..MaxSent, part : 1..MaxParts])
    /\ Len(channel.levels) < MaxParts
    /\ known \subseteq Instruments
    /\ sequencer \in [Instruments -> {"waiting", "ready"}]

Init ==
    /\ MulticastInit
    /\ update = 0
    /\ known = {}
    /\ sequencer = [i \in Instruments |-> "waiting"]
    /\ raced = FALSE
    /\ handed = {}

-----------------------------------------------------------------------------
(* The exchange.  A cycle is open after a start that no end has followed.  *)

Open == \E n \in 1..Len(sent) :
            /\ sent[n].kind = "SnapshotStart"
            /\ \A m \in n..Len(sent) : sent[m].kind # "SnapshotEnd"

PublishMark(d, kind) ==
    /\ ~Amid
    /\ kind = (IF Open THEN "SnapshotEnd" ELSE "SnapshotStart")
    /\ Publish(Mark(d, kind))
    /\ UNCHANGED <<update, known, sequencer, raced, handed>>

PublishSnapshot(d, i, k) ==
    /\ ~Amid /\ Open
    /\ Publish(Part(d, i, update + 1, 1, k))
    /\ update' = update + 1
    /\ UNCHANGED <<known, sequencer, raced, handed>>

PublishPart(d) ==
    LET part == sent[Len(sent)]
    IN  /\ Amid
        /\ Publish(Part(d, part.instrument, part.update, part.part + 1, part.of))
        /\ UNCHANGED <<update, known, sequencer, raced, handed>>

-----------------------------------------------------------------------------
(* What else happens to an instrument: its message arrives on either       *)
(* stream, or a book update makes the sequencer ready (it held a snapshot  *)
(* and has caught up) or clears it (BadState).  The events stream has its  *)
(* turn between two datagrams.                                             *)

AmidSnapshot(i) == at > 0 /\ Unfinished(at) /\ sent[at].instrument = i

maybe_create_instrument(i) ==
    /\ i \notin known
    /\ known' = known \cup {i}
    /\ raced' = (raced \/ AmidSnapshot(i))
    /\ UNCHANGED <<sent, network, update, sequencer, handed>>

EventsUpdate(i) ==
    /\ ~Dispatching
    /\ i \in known
    /\ sequencer' = [sequencer EXCEPT ![i] =
                        IF @ = "ready" THEN "waiting" ELSE "ready"]
    /\ raced' = (raced \/ AmidSnapshot(i))
    /\ UNCHANGED <<sent, network, update, known, handed>>

-----------------------------------------------------------------------------
Frame(n) ==
    /\ \/ Skip(n) /\ raced' = FALSE
       \/ Receive(n) /\ UNCHANGED raced
    /\ UNCHANGED <<update, known, sequencer, handed>>

(* SnapshotStart and SnapshotEnd *)
ReadMark ==
    /\ Dispatching
    /\ \/ sent[at + 1].kind = "SnapshotStart" /\ Dispatch(SnapshotStarted(channel))
       \/ sent[at + 1].kind = "SnapshotEnd"   /\ Dispatch(SnapshotEnded(channel))
    /\ raced' = FALSE
    /\ UNCHANGED <<update, known, sequencer, handed>>

(* Snapshot: inside a cycle the levels of an instrument whose sequencer    *)
(* waits are collected; the last part hands over what was collected, to    *)
(* whatever the sequencer is by then.  The sequencer publishes it or waits *)
(* for the next.                                                           *)
ReadSnapshot ==
    LET part   == sent[at + 1]
        i      == part.instrument
        level  == [update |-> part.update, part |-> part.part]
        filled == IF channel.ready /\ sequencer[i] # "ready"
                  THEN Append1(channel, level) ELSE channel
        hands  == filled.ready /\ filled.levels # <<>>
    IN  /\ Dispatching
        /\ part.kind = "Snapshot"
        /\ \/ /\ i \notin known
              /\ Dispatch(channel)
              /\ UNCHANGED <<sequencer, handed>>
           \/ /\ i \in known /\ part.part < part.of
              /\ Dispatch(filled)
              /\ UNCHANGED <<sequencer, handed>>
           \/ /\ i \in known /\ part.part = part.of /\ ~hands
              /\ Dispatch(Cleared(filled))
              /\ UNCHANGED <<sequencer, handed>>
           \/ /\ i \in known /\ part.part = part.of /\ hands
              /\ Dispatch(Cleared(filled))
              /\ handed' = handed \cup
                    {[update |-> part.update, of |-> part.of,
                      levels |-> filled.levels, raced |-> raced]}
              /\ \E state \in {"waiting", "ready"} :
                    sequencer' = [sequencer EXCEPT ![i] = state]
        /\ raced' = (raced /\ part.part < part.of)
        /\ UNCHANGED <<update, known>>

Next ==
    \/ \E d \in Filling :
          \/ \E kind \in {"SnapshotStart", "SnapshotEnd"} : PublishMark(d, kind)
          \/ \E i \in Instruments, k \in 1..MaxParts : PublishSnapshot(d, i, k)
          \/ PublishPart(d)
    \/ \E i \in Instruments : maybe_create_instrument(i) \/ EventsUpdate(i)
    \/ \E n \in 1..Len(sent) : Frame(n)
    \/ ReadMark
    \/ ReadSnapshot

Spec == Init /\ [][Next]_vars

-----------------------------------------------------------------------------
(* A snapshot reaches the sequencer whole or not at all, whatever the      *)
(* network loses, repeats or reorders: exactly the parts of one snapshot,  *)
(* in order.  (Joining a cycle in its middle must not hand over a tail.)   *)
(* The race of the FIXME is the only exception: that the instrument was    *)
(* created, or its sequencer became ready or was cleared, between two      *)
(* parts of this snapshot.                                                 *)
HandedWhole ==
    \A h \in handed :
        ~h.raced => /\ Len(h.levels) = h.of
                    /\ OneUpdate(h.levels, h.update, h.of)

(* The levels are parts of one snapshot, up to the one numbered last, in   *)
(* order and none twice, but perhaps not all of them.                      *)
PartsOf(levels, u, p) ==
    /\ \A a \in 1..Len(levels) : levels[a].update = u /\ levels[a].part <= p
    /\ \A a, b \in 1..Len(levels) : a < b => levels[a].part < levels[b].part

(* In the race levels may be missing, but never are there levels of an     *)
(* earlier snapshot, of another instrument or any twice.                   *)
HandedFromOneSnapshot ==
    \A h \in handed : PartsOf(h.levels, h.update, h.of)

(* Levels are kept only within one snapshot of one cycle, race or not:     *)
(* none are left over for the next instrument, cycle or channel reset (the *)
(* assert on channel.instrument_id).                                       *)
NoLeftOvers ==
    channel.levels # <<>> =>
        /\ channel.ready
        /\ at > 0 /\ Unfinished(at)
        /\ PartsOf(channel.levels, sent[at].update, sent[at].part)

=============================================================================
