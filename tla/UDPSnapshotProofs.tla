-------------------------- MODULE UDPSnapshotProofs --------------------------
(***************************************************************************)
(* UDPSnapshot for every set of instruments, every length of a snapshot,   *)
(* every number of messages in a datagram, whatever the network does and   *)
(* whenever the events stream has its turn: a snapshot is handed over      *)
(* whole unless the events stream changed its instrument meanwhile, and    *)
(* then still without a level of anything else.                            *)
(*                                                                         *)
(* The hypothesis, without which the theorems are false, is that sequence  *)
(* numbers neither start at 0 or 1 (a channel would not be marked          *)
(* initialized) nor wrap around.                                           *)
(***************************************************************************)
EXTENDS UDPSnapshot, SequenceTheorems, TLAPS

NoWrap == FirstSequence > 1 /\ FirstSequence + MaxSent <= SequenceModulus

USE ChannelAssumption, MulticastAssumption, UDPSnapshotAssumption

Level == [update : 1..MaxSent, part : 1..MaxParts]

Marks == {"SnapshotStart", "SnapshotEnd"}

Message ==
    [kind : {"Snapshot"}, datagram : 1..MaxSent, instrument : Instruments,
     update : 1..MaxSent, part : 1..MaxParts, of : 1..MaxParts]
    \cup
    [kind : Marks, datagram : 1..MaxSent]

Continues(part, next) ==
    /\ next.kind = part.kind /\ next.instrument = part.instrument
    /\ next.update = part.update /\ next.of = part.of
    /\ next.part = part.part + 1

LEMMA MessageFacts ==
    ASSUME NEW m \in Message
    PROVE  /\ m.datagram \in 1..MaxSent
           /\ m.kind \in {"Snapshot", "SnapshotStart", "SnapshotEnd"}
           /\ m.kind = "Snapshot" =>
                 /\ m.instrument \in Instruments /\ m.update \in 1..MaxSent
                 /\ m.part \in 1..MaxParts /\ m.of \in 1..MaxParts
  BY DEF Message, Marks

(* Datagrams are numbered in the order of their messages and without a     *)
(* hole, and a part that is not the last is followed by the next part.     *)
SentInv ==
    /\ sent \in Seq(Message)
    /\ Len(sent) <= MaxSent
    /\ \A n \in 1..Len(sent) : sent[n].datagram <= n
    /\ \A m, n \in 1..Len(sent) : m <= n => sent[m].datagram <= sent[n].datagram
    /\ \A n \in 1..Len(sent) :
          n < Len(sent) /\ Unfinished(n) => Continues(sent[n], sent[n + 1])

Channels ==
    [previous : 0..(SequenceModulus - 1), initialized : BOOLEAN,
     ready : BOOLEAN, levels : Seq(Level)]

(* The channel is where the datagram delivered last was, and the message   *)
(* dispatched or skipped last is one of it, unless none of it was yet.     *)
PositionInv ==
    /\ newest \in 0..Datagrams /\ frame \in 0..newest /\ at \in 0..Len(sent)
    /\ channel \in Channels
    /\ ~channel.initialized =>
          /\ channel.previous = 0 /\ ~channel.ready /\ channel.levels = <<>>
          /\ frame = 0 /\ at = 0
    /\ channel.initialized =>
          /\ frame > 0 /\ channel.previous = SequenceNumber(frame)
          /\ ~Dispatching => at > 0 /\ sent[at].datagram = frame

-----------------------------------------------------------------------------
(* Sequence numbers *)

LEMMA ModSmall ==
    ASSUME NEW a \in Nat, NEW m \in Nat, a < m
    PROVE  a % m = a
  OBVIOUS

(* Until they wrap around, numbers count datagrams. *)
LEMMA Numbers ==
    ASSUME NoWrap, NEW d \in 1..MaxSent
    PROVE  /\ SequenceNumber(d) = FirstSequence + d - 1
           /\ SequenceNumber(d) \in 2..(SequenceModulus - 1)
<1>1. FirstSequence + d - 1 \in Nat /\ FirstSequence + d - 1 < SequenceModulus
  BY DEF NoWrap
<1>2. SequenceNumber(d) = FirstSequence + d - 1
  BY <1>1, ModSmall DEF SequenceNumber
<1>3. QED
  BY <1>1, <1>2 DEF NoWrap

(* The datagram in sequence is the next one. *)
LEMMA NextInSequence ==
    ASSUME NoWrap, NEW c \in 1..MaxSent, NEW d \in 1..MaxSent,
           channel.previous = SequenceNumber(c),
           InSequence(channel, SequenceNumber(d))
    PROVE  d = c + 1
<1>1. CASE channel.previous + 1 < SequenceModulus
  <2>1. (channel.previous + 1) % SequenceModulus = channel.previous + 1
    BY <1>1, Numbers, ModSmall
  <2>2. QED
    BY <2>1, Numbers DEF InSequence
<1>2. CASE channel.previous + 1 = SequenceModulus
  <2>1. (channel.previous + 1) % SequenceModulus = 0
    BY <1>2
  <2>2. QED
    BY <2>1, Numbers DEF InSequence
<1>3. QED
  BY <1>1, <1>2, Numbers

-----------------------------------------------------------------------------
(* The exchange *)

LEMMA SentFacts ==
    ASSUME SentInv
    PROVE  /\ Len(sent) \in Nat
           /\ \A n \in 1..Len(sent) :
                 sent[n] \in Message /\ sent[n].datagram \in 1..MaxSent
           /\ Datagrams \in 0..Len(sent)
           /\ \A n \in 1..Len(sent) : sent[n].datagram <= Datagrams
<1>1. Len(sent) \in Nat
  BY DEF SentInv
<1>2. \A n \in 1..Len(sent) : sent[n] \in Message /\ sent[n].datagram \in 1..MaxSent
  BY MessageFacts DEF SentInv
<1>3. CASE sent = <<>>
  BY <1>1, <1>2, <1>3 DEF Datagrams
<1>4. CASE sent # <<>>
  <2>1. Len(sent) \in 1..Len(sent)
    BY <1>1, <1>4 DEF SentInv
  <2>2. Datagrams = sent[Len(sent)].datagram
    BY <1>4 DEF Datagrams
  <2>3. QED
    BY <1>1, <1>2, <2>1, <2>2 DEF SentInv
<1>5. QED
  BY <1>3, <1>4

(* A message is published: it continues what is unfinished, in the last    *)
(* datagram or in the next.                                                *)
LEMMA PublishKeepsSent ==
    ASSUME SentInv, NEW d \in Filling, newest \in Nat,
           NEW message \in Message, message.datagram = d,
           Publish(message), Amid => Continues(sent[Len(sent)], message)
    PROVE  /\ SentInv'
           /\ Len(sent') = Len(sent) + 1
           /\ \A n \in 1..Len(sent) : sent'[n] = sent[n]
           /\ sent'[Len(sent) + 1] = message
           /\ Datagrams' >= Datagrams
           /\ UNCHANGED network
<1>1. PICK l \in Nat : l = Len(sent)
  BY SentFacts
<1>2. /\ sent' \in Seq(Message)
      /\ Len(sent') = l + 1
      /\ \A n \in 1..l : sent'[n] = sent[n]
      /\ sent'[l + 1] = message
      /\ l + 1 <= MaxSent
  BY <1>1, AppendProperties DEF Publish, SentInv
<1>3. d >= Datagrams /\ d <= Datagrams + 1 /\ d \in Nat /\ Datagrams \in 0..l
  BY <1>1, SentFacts DEF Filling
<1>4. Datagrams' = d
  BY <1>2 DEF Datagrams
<1>5. ASSUME NEW n \in 1..(l + 1)
      PROVE  sent'[n].datagram <= n
  <2>1. CASE n \in 1..l
    BY <1>1, <1>2, <2>1 DEF SentInv
  <2>2. CASE n = l + 1
    BY <1>2, <1>3, <2>2
  <2>3. QED
    BY <2>1, <2>2
<1>6. ASSUME NEW m \in 1..(l + 1), NEW n \in 1..(l + 1), m <= n
      PROVE  sent'[m].datagram <= sent'[n].datagram
  <2>1. CASE n \in 1..l
    BY <1>1, <1>2, <1>6, <2>1 DEF SentInv
  <2>2. CASE n = l + 1 /\ m = l + 1
    BY <1>2, <1>3, <2>2
  <2>3. CASE n = l + 1 /\ m \in 1..l
    BY <1>1, <1>2, <1>3, <2>3, SentFacts
  <2>4. QED
    BY <2>1, <2>2, <2>3
<1>7. ASSUME NEW n \in 1..(l + 1), n < l + 1, Unfinished(n)'
      PROVE  Continues(sent'[n], sent'[n + 1])
  <2>1. n \in 1..l /\ Unfinished(n)
    BY <1>2, <1>7 DEF Unfinished
  <2>2. CASE n < l
    <3>1. sent'[n] = sent[n] /\ sent'[n + 1] = sent[n + 1]
      BY <1>2, <2>1, <2>2
    <3>2. Continues(sent[n], sent[n + 1])
      BY <1>1, <2>1, <2>2 DEF SentInv
    <3>3. QED
      BY <3>1, <3>2
  <2>3. CASE n = l
    <3>1. Amid
      BY <1>1, <2>1, <2>3 DEF Amid
    <3>2. QED
      BY <1>1, <1>2, <2>1, <2>3, <3>1
  <2>4. QED
    BY <2>1, <2>2, <2>3
<1>8. SentInv'
  BY <1>2, <1>5, <1>6, <1>7 DEF SentInv, Message, Continues
<1>9. QED
  BY <1>1, <1>2, <1>3, <1>4, <1>8 DEF Publish

(* Nothing moves for a gateway that has not been sent the message. *)
LEMMA PublishKeepsPosition ==
    ASSUME SentInv, PositionInv, SentInv',
           Len(sent') = Len(sent) + 1,
           \A n \in 1..Len(sent) : sent'[n] = sent[n],
           Datagrams' >= Datagrams,
           UNCHANGED network
    PROVE  PositionInv'
<1>1. Len(sent) \in Nat /\ Datagrams \in Nat /\ Datagrams' \in Nat
  <2>1. Datagrams' \in Nat
    <3>1. sent' # <<>> /\ Len(sent') \in 1..Len(sent')
      BY SentFacts
    <3>2. sent'[Len(sent')] \in Message
      BY <3>1 DEF SentInv, Message
    <3>3. QED
      BY <3>1, <3>2, MessageFacts DEF Datagrams
  <2>2. QED
    BY <2>1, SentFacts
<1>2. /\ newest' = newest /\ frame' = frame /\ at' = at /\ channel' = channel
  BY DEF network
<1>3. /\ newest' \in 0..Datagrams' /\ frame' \in 0..newest' /\ at' \in 0..Len(sent')
  BY <1>1, <1>2 DEF PositionInv
<1>4. Dispatching => Dispatching'
  BY <1>1, <1>2 DEF Dispatching, PositionInv
<1>5. at > 0 => sent'[at] = sent[at]
  BY <1>1 DEF PositionInv
<1>6. QED
  BY <1>2, <1>3, <1>4, <1>5 DEF PositionInv, Channels, Level

-----------------------------------------------------------------------------
(* The frame handler *)

(* The channel after the frame of a datagram *)
After(d) == AfterFrame(channel, SequenceNumber(d))

LEMMA FrameTyped ==
    ASSUME NoWrap, PositionInv, NEW d \in 1..MaxSent
    PROVE  /\ After(d) \in Channels
           /\ After(d).previous = SequenceNumber(d)
           /\ After(d).initialized
           /\ ~Accepts(channel, SequenceNumber(d)) =>
                 After(d).levels = <<>> /\ ~After(d).ready
           /\ Accepts(channel, SequenceNumber(d)) =>
                 After(d).levels = channel.levels /\ After(d).ready = channel.ready
           /\ Accepts(channel, SequenceNumber(d)) /\ channel.initialized =>
                 InSequence(channel, SequenceNumber(d))
<1>1. SequenceNumber(d) \in 2..(SequenceModulus - 1)
  BY Numbers
<1>2. ~channel.initialized => ~InSequence(channel, SequenceNumber(d))
  <2>1. SUFFICES ASSUME ~channel.initialized
                 PROVE  ~InSequence(channel, SequenceNumber(d))
    OBVIOUS
  <2>2. channel.previous = 0
    BY <2>1 DEF PositionInv
  <2>3. (0 + 1) % SequenceModulus = 1
    BY ModSmall
  <2>4. QED
    BY <1>1, <2>2, <2>3 DEF InSequence
<1>3. ~channel.initialized => Accepts(channel, SequenceNumber(d))
  BY <1>1 DEF Accepts, PositionInv
<1>4. channel \in Channels /\ <<>> \in Seq(Level)
  BY DEF PositionInv
<1>5. CASE InSequence(channel, SequenceNumber(d))
  <2>1. /\ After(d) = [channel EXCEPT !.previous = SequenceNumber(d)]
        /\ Accepts(channel, SequenceNumber(d))
    BY <1>5 DEF After, AfterFrame, Accepts
  <2>2. QED
    BY <1>1, <1>2, <1>4, <1>5, <2>1 DEF Channels
<1>6. CASE /\ ~InSequence(channel, SequenceNumber(d))
           /\ Accepts(channel, SequenceNumber(d))
  <2>1. After(d) = [previous |-> SequenceNumber(d), initialized |-> TRUE,
                    ready |-> channel.ready, levels |-> channel.levels]
    BY <1>4, <1>6 DEF After, AfterFrame, Channels
  <2>2. ~channel.initialized
    BY <1>6 DEF Accepts
  <2>3. QED
    BY <1>1, <1>4, <1>6, <2>1, <2>2 DEF Channels
<1>7. CASE ~Accepts(channel, SequenceNumber(d))
  <2>1. After(d) = [previous |-> SequenceNumber(d),
                    initialized |-> channel.initialized,
                    ready |-> FALSE, levels |-> <<>>]
    BY <1>4, <1>7 DEF After, AfterFrame, Reset, Channels, Accepts
  <2>2. channel.initialized
    BY <1>3, <1>7
  <2>3. After(d) \in Channels
    BY <1>1, <1>4, <2>1, <2>2 DEF Channels
  <2>4. /\ After(d).previous = SequenceNumber(d)
        /\ After(d).initialized = channel.initialized
        /\ After(d).ready = FALSE /\ After(d).levels = <<>>
    BY <2>1
  <2>5. QED
    BY <1>7, <2>2, <2>3, <2>4
<1>8. QED
  BY <1>5, <1>6, <1>7

(* Skipping a datagram clears what was collected. *)
LEMMA SkipKeeps ==
    ASSUME NoWrap, SentInv, PositionInv, NEW n \in 1..Len(sent), Skip(n)
    PROVE  /\ PositionInv' /\ UNCHANGED sent
           /\ channel'.levels = <<>> /\ ~channel'.ready
<1>1. PICK d \in 1..MaxSent : d = sent[n].datagram /\ d <= Datagrams
  BY SentFacts
<1>2. /\ channel' = After(d) /\ frame' = d /\ at' = n /\ sent' = sent
      /\ newest' = IF d > newest THEN d ELSE newest
      /\ ~Accepts(channel, SequenceNumber(d))
  BY <1>1 DEF Skip, Deliver, After
<1>3. newest \in Nat /\ Datagrams' = Datagrams /\ Datagrams \in Nat /\ newest <= Datagrams
  BY <1>2, SentFacts DEF PositionInv, Datagrams
<1>4. newest' \in 0..Datagrams' /\ frame' \in 0..newest' /\ at' \in 0..Len(sent')
  BY <1>1, <1>2, <1>3
<1>5. /\ channel' \in Channels /\ channel'.initialized
      /\ channel'.previous = SequenceNumber(frame')
      /\ channel'.levels = <<>> /\ ~channel'.ready
  BY <1>2, FrameTyped
<1>6. at' > 0 /\ sent'[at'].datagram = frame' /\ frame' > 0
  BY <1>1, <1>2
<1>7. PositionInv'
  BY <1>4, <1>5, <1>6 DEF PositionInv, Channels, Level, SequenceNumber
<1>8. QED
  BY <1>2, <1>5, <1>7

(* A datagram that a running channel accepts begins with the message after *)
(* the one dispatched last; the first one finds nothing collected.         *)
LEMMA ReceiveKeeps ==
    ASSUME NoWrap, SentInv, PositionInv, NEW n \in 1..Len(sent), Receive(n)
    PROVE  /\ PositionInv' /\ UNCHANGED sent
           /\ channel'.levels = channel.levels /\ channel'.ready = channel.ready
           /\ channel.initialized => at' = at
           /\ ~channel.initialized => channel'.levels = <<>> /\ ~channel'.ready
<1>1. PICK d \in 1..MaxSent : d = sent[n].datagram /\ d <= Datagrams
  BY SentFacts
<1>2. /\ channel' = After(d) /\ frame' = d /\ at' = n - 1 /\ sent' = sent
      /\ newest' = IF d > newest THEN d ELSE newest
      /\ Accepts(channel, SequenceNumber(d)) /\ ~Dispatching /\ Opens(n)
  BY <1>1 DEF Receive, Deliver, After
<1>3. /\ newest \in Nat /\ Datagrams' = Datagrams /\ Datagrams \in Nat
      /\ newest <= Datagrams /\ Len(sent) \in Nat /\ frame \in Nat /\ at \in Nat
      /\ at <= Len(sent)
  BY <1>2, SentFacts DEF PositionInv, Datagrams
<1>4. newest' \in 0..Datagrams' /\ frame' \in 0..newest' /\ at' \in 0..Len(sent')
  BY <1>1, <1>2, <1>3
<1>5. /\ channel' \in Channels /\ channel'.initialized
      /\ channel'.previous = SequenceNumber(frame')
      /\ channel'.levels = channel.levels /\ channel'.ready = channel.ready
  BY <1>2, FrameTyped
<1>6. Dispatching'
  BY <1>1, <1>2, <1>3 DEF Dispatching
<1>7. PositionInv'
  BY <1>1, <1>2, <1>4, <1>5, <1>6 DEF PositionInv, Channels, Level, SequenceNumber
<1>8. ~channel.initialized => channel.levels = <<>> /\ ~channel.ready
  BY DEF PositionInv
<1>9. ASSUME channel.initialized
      PROVE  n = at + 1
  <2>1. /\ frame \in 1..MaxSent /\ channel.previous = SequenceNumber(frame)
        /\ at \in 1..Len(sent) /\ sent[at].datagram = frame
    <3>1. at > 0 /\ sent[at].datagram = frame /\ channel.previous = SequenceNumber(frame)
      BY <1>2, <1>9 DEF PositionInv
    <3>2. at \in 1..Len(sent)
      BY <1>3, <3>1
    <3>3. QED
      BY <3>1, <3>2, SentFacts
  <2>2. d = frame + 1
    BY <1>2, <1>9, <2>1, FrameTyped, NextInSequence
  <2>3. n > at
    <3>1. SUFFICES ASSUME n <= at
                   PROVE  FALSE
      BY <1>3
    <3>2. sent[n].datagram <= sent[at].datagram
      BY <2>1, <3>1 DEF SentInv
    <3>3. QED
      BY <1>1, <2>1, <2>2, <3>2
  <2>4. SUFFICES ASSUME n > at + 1
                 PROVE  FALSE
    BY <1>3, <2>3
  <2>5. at + 1 \in 1..Len(sent) /\ n - 1 \in 1..Len(sent) /\ at + 1 <= n - 1
    BY <1>3, <2>1, <2>4
  <2>6. PICK b \in 1..MaxSent, c \in 1..MaxSent :
            b = sent[at + 1].datagram /\ c = sent[n - 1].datagram
    BY <2>5, SentFacts
  <2>7. b # frame /\ c # d
    BY <1>1, <1>2, <1>3, <2>4, <2>5, <2>6 DEF Dispatching, Opens
  <2>8. frame <= b
    BY <1>3, <2>1, <2>5, <2>6 DEF SentInv
  <2>9. b <= c
    BY <2>5, <2>6 DEF SentInv
  <2>10. c <= d
    BY <1>1, <2>5, <2>6 DEF SentInv
  <2>11. QED
    BY <2>1, <2>2, <2>7, <2>8, <2>9, <2>10
<1>10. QED
  BY <1>2, <1>3, <1>5, <1>7, <1>8, <1>9

(* Dispatching a message moves on to it. *)
LEMMA DispatchKeeps ==
    ASSUME SentInv, PositionInv, Dispatching,
           NEW after \in Channels, Dispatch(after),
           after.previous = channel.previous,
           after.initialized = channel.initialized
    PROVE  /\ PositionInv' /\ UNCHANGED sent /\ channel' = after
           /\ at + 1 \in 1..Len(sent) /\ at' = at + 1
           /\ sent[at + 1].datagram = frame /\ frame \in 1..MaxSent
<1>1. /\ at' = at + 1 /\ channel' = after
      /\ sent' = sent /\ newest' = newest /\ frame' = frame
  BY DEF Dispatch
<1>2. /\ at \in Nat /\ Len(sent) \in Nat /\ at < Len(sent)
      /\ sent[at + 1].datagram = frame
  BY SentFacts DEF PositionInv, Dispatching
<1>3. at + 1 \in 1..Len(sent)
  BY <1>2
<1>4. frame \in 1..MaxSent
  BY <1>2, <1>3, SentFacts
<1>5. channel.initialized
  BY <1>4 DEF PositionInv
<1>6. newest' \in 0..Datagrams' /\ frame' \in 0..newest' /\ at' \in 0..Len(sent')
  BY <1>1, <1>3 DEF PositionInv, Datagrams
<1>7. channel'.previous = SequenceNumber(frame') /\ channel'.initialized
  BY <1>1, <1>5 DEF PositionInv
<1>8. PositionInv'
  BY <1>1, <1>2, <1>4, <1>6, <1>7 DEF PositionInv, Channels, Level, SequenceNumber
<1>9. QED
  BY <1>1, <1>2, <1>3, <1>4, <1>8

-----------------------------------------------------------------------------
(* The invariant *)

(* A later part is preceded by the one it continues. *)
PrecededInv ==
    \A n \in 1..Len(sent) :
        sent[n].kind = "Snapshot" /\ sent[n].part > 1 => n > 1 /\ Unfinished(n - 1)

(* Levels may be waiting after a part, not the last, of a snapshot of a    *)
(* known instrument, within a cycle: levels of that snapshot only.         *)
CollectedInv ==
    channel.levels # <<>> =>
        /\ channel.ready
        /\ at > 0 /\ Unfinished(at)
        /\ sent[at].instrument \in known
        /\ Len(channel.levels) <= sent[at].part
        /\ PartsOf(channel.levels, sent[at].update, sent[at].part)

(* Levels are collected: the message dispatched last was a part, but not   *)
(* the last, of the snapshot of an instrument that waits for one, within a *)
(* cycle the start of which was read.                                      *)
Collecting ==
    /\ channel.ready
    /\ at > 0 /\ Unfinished(at)
    /\ sent[at].instrument \in known
    /\ sequencer[sent[at].instrument] = "waiting"

(* Without a race, what is collected is the snapshot from its first part   *)
(* up to here, or nothing.                                                 *)
ExactInv ==
    ~raced =>
        IF Collecting
        THEN /\ Len(channel.levels) = sent[at].part
             /\ OneUpdate(channel.levels, sent[at].update, sent[at].part)
        ELSE channel.levels = <<>>

SnapshotInv ==
    /\ SentInv
    /\ PrecededInv
    /\ PositionInv
    /\ update \in 0..Len(sent)
    /\ known \subseteq Instruments
    /\ sequencer \in [Instruments -> {"waiting", "ready"}]
    /\ raced \in BOOLEAN
    /\ channel.ready => at > 0
    /\ CollectedInv
    /\ ExactInv
    /\ HandedWhole
    /\ HandedFromOneSnapshot

-----------------------------------------------------------------------------
(* Levels *)

(* Levels of one snapshot, and the next of it *)
LEMMA OneMore ==
    ASSUME NEW levels \in Seq(Level), NEW u \in 1..MaxSent,
           NEW p \in 1..MaxParts
    PROVE  LET more == Append(levels, [update |-> u, part |-> p])
           IN  /\ more \in Seq(Level) /\ more # <<>>
               /\ Len(more) = Len(levels) + 1
               /\ Len(levels) = p - 1 /\ OneUpdate(levels, u, p - 1) =>
                     OneUpdate(more, u, p)
               /\ PartsOf(levels, u, p - 1) => PartsOf(more, u, p)
<1> DEFINE level == [update |-> u, part |-> p]
           more  == Append(levels, level)
<1>1. level \in Level /\ Len(levels) \in Nat
  BY DEF Level
<1>2. /\ more \in Seq(Level)
      /\ Len(more) = Len(levels) + 1
      /\ \A q \in 1..Len(levels) : more[q] = levels[q]
      /\ more[Len(levels) + 1] = level
  BY <1>1, AppendProperties
<1> HIDE DEF more
<1>3. ASSUME Len(levels) = p - 1, OneUpdate(levels, u, p - 1)
      PROVE  OneUpdate(more, u, p)
  <2>1. Len(more) = p
    BY <1>1, <1>2, <1>3
  <2>2. ASSUME NEW q \in 1..Len(more)
        PROVE  more[q] = [update |-> u, part |-> p - Len(more) + q]
    <3>1. p - Len(more) + q = q
      BY <2>1
    <3>2. CASE q = Len(levels) + 1
      <4>1. q = p
        BY <1>3, <3>2
      <4>2. QED
        BY <1>2, <3>1, <3>2, <4>1
    <3>3. CASE q \in 1..Len(levels)
      <4>1. levels[q] = [update |-> u, part |-> p - 1 - Len(levels) + q]
        BY <1>3, <3>3 DEF OneUpdate
      <4>2. p - 1 - Len(levels) + q = q
        BY <1>3
      <4>3. QED
        BY <1>2, <3>1, <3>3, <4>1, <4>2
    <3>4. QED
      BY <1>1, <1>2, <3>2, <3>3
  <2>3. QED
    BY <2>1, <2>2 DEF OneUpdate
<1>4. ASSUME PartsOf(levels, u, p - 1)
      PROVE  PartsOf(more, u, p)
  <2>1. \A q \in 1..Len(levels) :
            levels[q].part \in Nat /\ levels[q].update = u /\ levels[q].part < p
    <3>1. ASSUME NEW q \in 1..Len(levels)
          PROVE  levels[q].part \in Nat /\ levels[q].update = u /\ levels[q].part < p
      <4>1. levels[q] \in Level
        BY ElementOfSeq
      <4>2. levels[q].part \in Nat /\ levels[q].update = u /\ levels[q].part <= p - 1
        BY <1>4, <4>1 DEF PartsOf, Level
      <4>3. QED
        BY <4>2
    <3>2. QED
      BY <3>1
  <2>2. ASSUME NEW a \in 1..Len(more)
        PROVE  more[a].update = u /\ more[a].part <= p
    <3>1. CASE a \in 1..Len(levels)
      BY <1>2, <2>1, <3>1
    <3>2. CASE a = Len(levels) + 1
      BY <1>2, <3>2
    <3>3. QED
      BY <1>1, <1>2, <3>1, <3>2
  <2>3. ASSUME NEW a \in 1..Len(more), NEW b \in 1..Len(more), a < b
        PROVE  more[a].part < more[b].part
    <3>1. a \in 1..Len(levels)
      BY <1>1, <1>2, <2>3
    <3>2. CASE b = Len(levels) + 1
      BY <1>2, <2>1, <3>1, <3>2
    <3>3. CASE b \in 1..Len(levels)
      BY <1>2, <1>4, <2>3, <3>1, <3>3 DEF PartsOf
    <3>4. QED
      BY <1>1, <1>2, <3>2, <3>3
  <2>4. QED
    BY <2>2, <2>3 DEF PartsOf
<1>5. more # <<>>
  BY <1>1, <1>2
<1>6. QED
  BY <1>2, <1>3, <1>4, <1>5 DEF more

LEMMA PartsOfMore ==
    ASSUME NEW levels \in Seq(Level), NEW u, NEW p \in Nat, PartsOf(levels, u, p - 1)
    PROVE  PartsOf(levels, u, p)
<1>1. ASSUME NEW a \in 1..Len(levels)
      PROVE  levels[a].update = u /\ levels[a].part <= p
  <2>1. levels[a] \in Level
    BY ElementOfSeq
  <2>2. levels[a].part \in Nat /\ levels[a].update = u /\ levels[a].part <= p - 1
    BY <2>1 DEF PartsOf, Level
  <2>3. QED
    BY <2>2
<1>2. QED
  BY <1>1 DEF PartsOf

LEMMA NoParts ==
    ASSUME NEW u, NEW p \in Nat
    PROVE  PartsOf(<<>>, u, p) /\ OneUpdate(<<>>, u, p)
  BY DEF PartsOf, OneUpdate

-----------------------------------------------------------------------------
(* The exchange *)

LEMMA SentStays ==
    ASSUME SentInv, UNCHANGED sent
    PROVE  SentInv'
  BY DEF SentInv, Message, Marks, Unfinished, Continues

LEMMA PrecededStays ==
    ASSUME PrecededInv, UNCHANGED sent
    PROVE  PrecededInv'
  BY DEF PrecededInv, Unfinished

LEMMA PublishKeepsPreceded ==
    ASSUME SentInv, PrecededInv, NEW message \in Message,
           Len(sent') = Len(sent) + 1,
           \A n \in 1..Len(sent) : sent'[n] = sent[n],
           sent'[Len(sent) + 1] = message,
           message.kind = "Snapshot" /\ message.part > 1 => Amid
    PROVE  PrecededInv'
<1>1. PICK l \in Nat : l = Len(sent)
  BY SentFacts
<1>2. ASSUME NEW n \in 1..(l + 1), sent'[n].kind = "Snapshot", sent'[n].part > 1
      PROVE  n > 1 /\ Unfinished(n - 1)'
  <2>1. CASE n \in 1..l
    <3>1. n > 1 /\ Unfinished(n - 1)
      BY <1>1, <1>2, <2>1 DEF PrecededInv
    <3>2. sent'[n - 1] = sent[n - 1]
      BY <1>1, <2>1, <3>1
    <3>3. QED
      BY <3>1, <3>2 DEF Unfinished
  <2>2. CASE n = l + 1
    <3>1. l > 0 /\ Unfinished(l)
      BY <1>1, <1>2, <2>2 DEF Amid
    <3>2. sent'[l] = sent[l] /\ n - 1 = l
      BY <1>1, <2>2, <3>1
    <3>3. QED
      BY <3>1, <3>2 DEF Unfinished
  <2>3. QED
    BY <2>1, <2>2
<1>3. QED
  BY <1>1, <1>2 DEF PrecededInv

LEMMA PublishKeeps ==
    ASSUME SnapshotInv, NEW d \in Filling, NEW message \in Message,
           message.datagram = d, Publish(message),
           Amid => Continues(sent[Len(sent)], message),
           message.kind = "Snapshot" /\ message.part > 1 => Amid,
           update' \in {update, update + 1},
           UNCHANGED <<known, sequencer, raced, handed>>
    PROVE  SnapshotInv'
<1>1. newest \in Nat /\ Len(sent) \in Nat
  BY SentFacts DEF SnapshotInv, PositionInv
<1>2. /\ SentInv' /\ Len(sent') = Len(sent) + 1
      /\ \A n \in 1..Len(sent) : sent'[n] = sent[n]
      /\ sent'[Len(sent) + 1] = message
      /\ Datagrams' >= Datagrams /\ UNCHANGED network
  BY <1>1, PublishKeepsSent DEF SnapshotInv
<1>3. PrecededInv'
  BY <1>2, PublishKeepsPreceded DEF SnapshotInv
<1>4. PositionInv'
  BY <1>2, PublishKeepsPosition DEF SnapshotInv
<1>5. channel' = channel /\ at' = at
  BY <1>2 DEF network
<1>6. at > 0 => sent'[at] = sent[at]
  BY <1>1, <1>2 DEF SnapshotInv, PositionInv
<1>7. CollectedInv'
  BY <1>5, <1>6 DEF SnapshotInv, CollectedInv, Unfinished, PartsOf
<1>8. Collecting' <=> Collecting
  BY <1>5, <1>6 DEF Collecting, Unfinished
<1>9. ExactInv'
  <2>1. CASE Collecting
    <3>1. at > 0
      BY <2>1 DEF Collecting
    <3>2. QED
      BY <1>5, <1>6, <1>8, <2>1, <3>1 DEF SnapshotInv, ExactInv, OneUpdate
  <2>2. CASE ~Collecting
    BY <1>5, <1>8, <2>2 DEF SnapshotInv, ExactInv
  <2>3. QED
    BY <2>1, <2>2
<1>10. HandedWhole' /\ HandedFromOneSnapshot'
  BY DEF SnapshotInv, HandedWhole, HandedFromOneSnapshot
<1>11. update' \in 0..Len(sent')
  BY <1>1, <1>2 DEF SnapshotInv
<1>12. channel'.ready => at' > 0
  BY <1>5 DEF SnapshotInv
<1>13. QED
  BY <1>2, <1>3, <1>4, <1>7, <1>9, <1>10, <1>11, <1>12 DEF SnapshotInv

(* A datagram to be filled has a number. *)
LEMMA FillingTyped ==
    ASSUME SentInv, newest \in Nat, NEW d \in Filling, Len(sent) < MaxSent
    PROVE  d \in 1..MaxSent
<1>1. Datagrams \in 0..Len(sent) /\ Len(sent) \in Nat
  BY SentFacts
<1>2. QED
  BY <1>1 DEF Filling

LEMMA ExchangeKeeps ==
    ASSUME SnapshotInv, NEW d \in Filling,
           \/ \E kind \in {"SnapshotStart", "SnapshotEnd"} : PublishMark(d, kind)
           \/ \E i \in Instruments, k \in 1..MaxParts : PublishSnapshot(d, i, k)
           \/ PublishPart(d)
    PROVE  SnapshotInv'
<1>1. newest \in Nat /\ SentInv
  BY SentFacts DEF SnapshotInv, PositionInv
<1>2. Len(sent) \in Nat /\ Len(sent) < MaxSent /\ d \in 1..MaxSent
  <2>1. Len(sent) \in Nat /\ Len(sent) < MaxSent
    BY <1>1, SentFacts DEF PublishMark, PublishSnapshot, PublishPart, Publish
  <2>2. QED
    BY <1>1, <2>1, FillingTyped
<1>3. ASSUME NEW kind \in {"SnapshotStart", "SnapshotEnd"}, PublishMark(d, kind)
      PROVE  SnapshotInv'
  <2>1. PICK m \in Message : m = Mark(d, kind)
    BY <1>2 DEF Mark, Message, Marks
  <2>2. m.datagram = d /\ m.kind # "Snapshot" /\ ~Amid /\ Publish(m)
    BY <1>3, <2>1 DEF PublishMark, Mark
  <2>3. QED
    BY <1>3, <2>2, PublishKeeps DEF PublishMark
<1>4. ASSUME NEW i \in Instruments, NEW k \in 1..MaxParts, PublishSnapshot(d, i, k)
      PROVE  SnapshotInv'
  <2>1. update + 1 \in 1..MaxSent /\ 1 \in 1..MaxParts
    BY <1>2 DEF SnapshotInv
  <2>2. PICK m \in Message : m = Part(d, i, update + 1, 1, k)
    BY <1>2, <2>1 DEF Part, Message
  <2>3. m.datagram = d /\ m.part = 1 /\ ~Amid /\ Publish(m)
    BY <1>4, <2>2 DEF PublishSnapshot, Part
  <2>4. QED
    BY <1>4, <2>3, PublishKeeps DEF PublishSnapshot
<1>5. ASSUME PublishPart(d)
      PROVE  SnapshotInv'
  <2>1. Amid /\ Len(sent) \in 1..Len(sent)
    BY <1>2, <1>5 DEF PublishPart, Amid
  <2>2. PICK part \in Message : part = sent[Len(sent)]
    BY <1>1, <2>1, SentFacts
  <2>3. part.kind = "Snapshot" /\ part.part < part.of
    BY <2>1, <2>2, MessageFacts DEF Amid, Unfinished
  <2>4. part.part + 1 \in 1..MaxParts
    BY <2>3, MessageFacts
  <2>5. PICK m \in Message :
            m = Part(d, part.instrument, part.update, part.part + 1, part.of)
    BY <1>2, <2>3, <2>4, MessageFacts DEF Part, Message
  <2>6. m.datagram = d /\ Publish(m) /\ Continues(part, m)
    BY <1>5, <2>2, <2>3, <2>5 DEF PublishPart, Part, Continues
  <2>7. QED
    BY <1>5, <2>1, <2>2, <2>6, PublishKeeps DEF PublishPart
<1>6. QED
  BY <1>3, <1>4, <1>5

-----------------------------------------------------------------------------
(* The events stream *)

LEMMA InterferenceKeeps ==
    ASSUME SnapshotInv, NEW i \in Instruments,
           maybe_create_instrument(i) \/ EventsUpdate(i)
    PROVE  SnapshotInv'
<1>1. /\ UNCHANGED <<sent, newest, frame, at, channel, update, handed>>
      /\ known \subseteq known' /\ known' \subseteq Instruments
      /\ \A j \in Instruments \ {i} :
            (j \in known' <=> j \in known) /\ sequencer'[j] = sequencer[j]
      /\ sequencer' \in [Instruments -> {"waiting", "ready"}]
      /\ raced' \in BOOLEAN
  BY DEF maybe_create_instrument, EventsUpdate, network, SnapshotInv
<1>2. raced' = (raced \/ AmidSnapshot(i))
  BY DEF maybe_create_instrument, EventsUpdate
<1>3. SentInv' /\ PrecededInv'
  BY <1>1, SentStays, PrecededStays DEF SnapshotInv
<1>4. PositionInv'
  BY <1>1 DEF SnapshotInv, PositionInv, Datagrams, Dispatching, Channels, Level,
              SequenceNumber
<1>5. CollectedInv'
  BY <1>1 DEF SnapshotInv, CollectedInv, Unfinished, PartsOf
<1>6. ExactInv'
  <2>1. SUFFICES ASSUME ~raced'
                 PROVE  ExactInv'
    BY DEF ExactInv
  <2>2. ~raced /\ ~AmidSnapshot(i)
    BY <1>2, <2>1
  <2>3. ASSUME at > 0, Unfinished(at)
        PROVE  sent[at].instrument \in Instruments \ {i}
    <3>1. at \in 1..Len(sent)
      BY <2>3 DEF SnapshotInv, PositionInv
    <3>2. PICK part \in Message : part = sent[at]
      BY <3>1, SentFacts DEF SnapshotInv
    <3>3. part.kind = "Snapshot"
      BY <2>3, <3>2, MessageFacts DEF Unfinished
    <3>4. QED
      BY <2>2, <2>3, <3>2, <3>3, MessageFacts DEF AmidSnapshot
  <2>4. Collecting' <=> Collecting
    BY <1>1, <2>3 DEF Collecting, Unfinished
  <2>5. QED
    BY <1>1, <2>2, <2>4 DEF SnapshotInv, ExactInv, OneUpdate
<1>7. HandedWhole' /\ HandedFromOneSnapshot'
  BY <1>1 DEF SnapshotInv, HandedWhole, HandedFromOneSnapshot
<1>8. QED
  BY <1>1, <1>3, <1>4, <1>5, <1>6, <1>7 DEF SnapshotInv

-----------------------------------------------------------------------------
(* The gateway *)

LEMMA FrameKeeps ==
    ASSUME NoWrap, SnapshotInv, NEW n \in 1..Len(sent), Frame(n)
    PROVE  SnapshotInv'
<1>1. UNCHANGED <<update, known, sequencer, handed>>
  BY DEF Frame
<1>2. /\ PositionInv' /\ UNCHANGED sent
      /\ raced' \in BOOLEAN /\ (channel'.ready => at' > 0)
      /\ CollectedInv' /\ ExactInv'
  <2>1. CASE Skip(n) /\ raced' = FALSE
    <3>1. /\ PositionInv' /\ UNCHANGED sent
          /\ channel'.levels = <<>> /\ ~channel'.ready
      BY <2>1, SkipKeeps DEF SnapshotInv
    <3>2. ~Collecting'
      BY <3>1 DEF Collecting
    <3>3. QED
      BY <2>1, <3>1, <3>2 DEF CollectedInv, ExactInv
  <2>2. CASE Receive(n) /\ raced' = raced
    <3>1. /\ PositionInv' /\ UNCHANGED sent
          /\ channel'.levels = channel.levels /\ channel'.ready = channel.ready
          /\ channel.initialized => at' = at
          /\ ~channel.initialized => channel'.levels = <<>> /\ ~channel'.ready
      BY <2>2, ReceiveKeeps DEF SnapshotInv
    <3>2. CASE ~channel.initialized
      <4>1. ~Collecting'
        BY <3>1, <3>2 DEF Collecting
      <4>2. QED
        BY <2>2, <3>1, <3>2, <4>1 DEF SnapshotInv, CollectedInv, ExactInv
    <3>3. CASE channel.initialized
      <4>1. CollectedInv'
        BY <1>1, <3>1, <3>3 DEF SnapshotInv, CollectedInv, Unfinished, PartsOf
      <4>2. Collecting' <=> Collecting
        BY <1>1, <3>1, <3>3 DEF Collecting, Unfinished
      <4>3. ExactInv'
        BY <2>2, <3>1, <3>3, <4>2 DEF SnapshotInv, ExactInv, OneUpdate
      <4>4. QED
        BY <2>2, <3>1, <3>3, <4>1, <4>3 DEF SnapshotInv
    <3>4. QED
      BY <3>2, <3>3
  <2>3. QED
    BY <2>1, <2>2 DEF Frame
<1>3. SentInv' /\ PrecededInv'
  BY <1>2, SentStays, PrecededStays DEF SnapshotInv
<1>4. HandedWhole' /\ HandedFromOneSnapshot'
  BY <1>1 DEF SnapshotInv, HandedWhole, HandedFromOneSnapshot
<1>5. QED
  BY <1>1, <1>2, <1>3, <1>4 DEF SnapshotInv

LEMMA ReadMarkKeeps ==
    ASSUME SnapshotInv, ReadMark
    PROVE  SnapshotInv'
<1>1. /\ at \in Nat /\ at + 1 \in 1..Len(sent) /\ sent[at + 1] \in Message
      /\ Dispatching /\ Len(sent) \in Nat
  BY SentFacts DEF SnapshotInv, PositionInv, Dispatching, ReadMark
<1>2. PICK after \in Channels :
          /\ Dispatch(after) /\ after.levels = channel.levels
          /\ after.previous = channel.previous
          /\ after.initialized = channel.initialized
  <2>1. channel \in Channels
    BY DEF SnapshotInv, PositionInv
  <2>2. CASE Dispatch(SnapshotStarted(channel))
    <3>1. /\ SnapshotStarted(channel) \in Channels
          /\ SnapshotStarted(channel).levels = channel.levels
          /\ SnapshotStarted(channel).previous = channel.previous
          /\ SnapshotStarted(channel).initialized = channel.initialized
      BY <2>1 DEF SnapshotStarted, Channels
    <3>2. QED
      BY <2>2, <3>1
  <2>3. CASE Dispatch(SnapshotEnded(channel))
    <3>1. /\ SnapshotEnded(channel) \in Channels
          /\ SnapshotEnded(channel).levels = channel.levels
          /\ SnapshotEnded(channel).previous = channel.previous
          /\ SnapshotEnded(channel).initialized = channel.initialized
      BY <2>1 DEF SnapshotEnded, Channels
    <3>2. QED
      BY <2>3, <3>1
  <2>4. QED
    BY <2>2, <2>3 DEF ReadMark
<1>3. /\ PositionInv' /\ UNCHANGED sent /\ channel' = after /\ at' = at + 1
  BY <1>1, <1>2, DispatchKeeps DEF SnapshotInv
<1>4. /\ sent[at + 1].kind # "Snapshot" /\ raced' = FALSE
      /\ UNCHANGED <<update, known, sequencer, handed>>
  BY DEF ReadMark
<1>5. channel.levels = <<>>
  <2>1. SUFFICES ASSUME channel.levels # <<>>
                 PROVE  FALSE
    OBVIOUS
  <2>2. at \in 1..Len(sent) /\ at < Len(sent) /\ Unfinished(at)
    BY <1>1, <2>1 DEF SnapshotInv, CollectedInv
  <2>3. sent[at] \in Message /\ Continues(sent[at], sent[at + 1])
    BY <2>2, SentFacts DEF SnapshotInv, SentInv
  <2>4. QED
    BY <1>4, <2>2, <2>3, MessageFacts DEF Continues, Unfinished
<1>6. ~Unfinished(at)'
  BY <1>1, <1>3, <1>4, MessageFacts DEF Unfinished
<1>7. CollectedInv' /\ ExactInv'
  BY <1>2, <1>3, <1>5, <1>6 DEF CollectedInv, ExactInv, Collecting
<1>8. SentInv' /\ PrecededInv'
  BY <1>3, SentStays, PrecededStays DEF SnapshotInv
<1>9. HandedWhole' /\ HandedFromOneSnapshot'
  BY <1>4 DEF SnapshotInv, HandedWhole, HandedFromOneSnapshot
<1>10. channel'.ready => at' > 0
  BY <1>1, <1>3
<1>11. QED
  BY <1>3, <1>4, <1>7, <1>8, <1>9, <1>10 DEF SnapshotInv

(* What a part finds collected: parts of its snapshot before it, and all   *)
(* of them, or none, if there was no race.                                 *)
LEMMA FoundCollected ==
    ASSUME SnapshotInv, Dispatching,
           NEW part \in Message, part = sent[at + 1], part.kind = "Snapshot"
    PROVE  /\ channel.levels # <<>> => channel.ready /\ part.instrument \in known
           /\ Len(channel.levels) <= part.part - 1
           /\ PartsOf(channel.levels, part.update, part.part - 1)
           /\ ~raced =>
                 IF /\ channel.ready /\ part.instrument \in known
                    /\ sequencer[part.instrument] = "waiting"
                 THEN /\ Len(channel.levels) = part.part - 1
                      /\ OneUpdate(channel.levels, part.update, part.part - 1)
                 ELSE channel.levels = <<>>
<1>1. /\ at \in Nat /\ Len(sent) \in Nat /\ at < Len(sent)
      /\ at + 1 \in 1..Len(sent) /\ part.part \in 1..MaxParts
  BY SentFacts, MessageFacts DEF SnapshotInv, PositionInv, Dispatching
<1>2. CASE at > 0 /\ Unfinished(at)
  <2>1. at \in 1..Len(sent) /\ Continues(sent[at], part)
    BY <1>1, <1>2 DEF SnapshotInv, SentInv
  <2>2. PICK prior \in Message : prior = sent[at]
    BY <2>1, SentFacts DEF SnapshotInv
  <2>3. prior.kind = "Snapshot" /\ prior.part \in Nat
    BY <1>2, <2>2, MessageFacts DEF Unfinished
  <2>4. /\ part.part - 1 = prior.part /\ part.update = prior.update
        /\ part.instrument = prior.instrument
    BY <2>1, <2>2, <2>3 DEF Continues
  <2>5. channel.levels = <<>> =>
            /\ Len(channel.levels) <= prior.part
            /\ PartsOf(channel.levels, prior.update, prior.part)
    BY <2>3, NoParts
  <2>6. channel.levels # <<>> =>
            /\ channel.ready /\ prior.instrument \in known
            /\ Len(channel.levels) <= prior.part
            /\ PartsOf(channel.levels, prior.update, prior.part)
    BY <2>2 DEF SnapshotInv, CollectedInv
  <2>7. ~raced =>
            IF /\ channel.ready /\ prior.instrument \in known
               /\ sequencer[prior.instrument] = "waiting"
            THEN /\ Len(channel.levels) = prior.part
                 /\ OneUpdate(channel.levels, prior.update, prior.part)
            ELSE channel.levels = <<>>
    BY <1>2, <2>2 DEF SnapshotInv, ExactInv, Collecting
  <2>8. QED
    BY <2>4, <2>5, <2>6, <2>7
<1>3. CASE ~(at > 0 /\ Unfinished(at))
  <2>1. channel.levels = <<>>
    BY <1>3 DEF SnapshotInv, CollectedInv
  <2>2. Len(channel.levels) = 0 /\ Len(channel.levels) <= part.part - 1
    BY <1>1, <2>1
  <2>3. part.part - 1 \in Nat
    BY <1>1
  <2>4. PartsOf(channel.levels, part.update, part.part - 1)
        /\ OneUpdate(channel.levels, part.update, part.part - 1)
    BY <2>1, <2>3, NoParts
  <2>5. channel.ready => part.part = 1
    <3>1. SUFFICES ASSUME part.part # 1
                   PROVE  FALSE
      OBVIOUS
    <3>2. part.part > 1
      BY <1>1, <3>1
    <3>3. at + 1 > 1 /\ Unfinished(at + 1 - 1)
      BY <1>1, <3>2 DEF SnapshotInv, PrecededInv
    <3>4. at + 1 - 1 = at /\ at > 0
      BY <1>1, <3>3
    <3>5. QED
      BY <1>3, <3>3, <3>4
  <2>6. QED
    BY <2>1, <2>2, <2>4, <2>5
<1>4. QED
  BY <1>2, <1>3

LEMMA ReadSnapshotKeeps ==
    ASSUME SnapshotInv, ReadSnapshot
    PROVE  SnapshotInv'
<1>1. /\ at \in Nat /\ at + 1 \in 1..Len(sent) /\ sent[at + 1] \in Message
      /\ Dispatching /\ Len(sent) \in Nat
  BY SentFacts DEF SnapshotInv, PositionInv, Dispatching, ReadSnapshot
<1>2. PICK part \in Message : part = sent[at + 1] /\ part.kind = "Snapshot"
  BY <1>1 DEF ReadSnapshot
<1>3. PICK i \in Instruments : i = part.instrument
  BY <1>2, MessageFacts
<1>4. PICK u \in 1..MaxSent, p \in 1..MaxParts, k \in 1..MaxParts :
          u = part.update /\ p = part.part /\ k = part.of
  BY <1>2, MessageFacts
<1>5. channel \in Channels /\ channel.levels \in Seq(Level)
  BY DEF SnapshotInv, PositionInv, Channels
<1> DEFINE more   == Append(channel.levels, [update |-> u, part |-> p])
           filled == IF channel.ready /\ sequencer[i] # "ready"
                     THEN [channel EXCEPT !.levels = more] ELSE channel
           empty  == [filled EXCEPT !.levels = <<>>]
<1>6. /\ channel.levels # <<>> => channel.ready /\ i \in known
      /\ Len(channel.levels) <= p - 1
      /\ PartsOf(channel.levels, u, p - 1)
      /\ ~raced =>
            IF channel.ready /\ i \in known /\ sequencer[i] = "waiting"
            THEN Len(channel.levels) = p - 1 /\ OneUpdate(channel.levels, u, p - 1)
            ELSE channel.levels = <<>>
  BY <1>1, <1>2, <1>3, <1>4, FoundCollected
<1>7. /\ more \in Seq(Level) /\ more # <<>> /\ Len(more) = Len(channel.levels) + 1
      /\ Len(channel.levels) = p - 1 /\ OneUpdate(channel.levels, u, p - 1) =>
            OneUpdate(more, u, p)
      /\ PartsOf(more, u, p)
  BY <1>5, <1>6, OneMore
<1>8. PartsOf(channel.levels, u, p)
  BY <1>5, <1>6, PartsOfMore
<1> HIDE DEF more
<1>9. /\ filled \in Channels /\ filled.ready = channel.ready
      /\ filled.previous = channel.previous
      /\ filled.initialized = channel.initialized
      /\ filled.levels = IF channel.ready /\ sequencer[i] # "ready"
                         THEN more ELSE channel.levels
  BY <1>5, <1>7 DEF Channels
<1>10. sequencer[i] \in {"waiting", "ready"}
  BY DEF SnapshotInv
<1> HIDE DEF filled
<1>11. /\ filled.levels \in Seq(Level) /\ PartsOf(filled.levels, u, p)
       /\ Len(filled.levels) <= p
       /\ filled.levels # <<>> => channel.ready
  <2>1. Len(channel.levels) \in Nat
    BY <1>5
  <2>2. QED
    BY <1>5, <1>6, <1>7, <1>8, <1>9, <2>1
<1>12. ASSUME ~raced, i \in known
       PROVE  IF channel.ready /\ sequencer[i] = "waiting"
              THEN Len(filled.levels) = p /\ OneUpdate(filled.levels, u, p)
              ELSE filled.levels = <<>>
  <2>1. CASE channel.ready /\ sequencer[i] = "waiting"
    BY <1>5, <1>6, <1>7, <1>9, <1>12, <2>1
  <2>2. CASE ~(channel.ready /\ sequencer[i] = "waiting")
    BY <1>6, <1>9, <1>10, <1>12, <2>2
  <2>3. QED
    BY <2>1, <2>2
<1>13. /\ empty \in Channels /\ empty.levels = <<>> /\ empty.ready = channel.ready
       /\ empty.previous = channel.previous
       /\ empty.initialized = channel.initialized
  <2>1. <<>> \in Seq(Level)
    OBVIOUS
  <2>2. QED
    BY <1>9, <2>1 DEF Channels
<1>14. /\ \/ /\ i \notin known /\ Dispatch(channel)
             /\ UNCHANGED <<sequencer, handed>>
          \/ /\ i \in known /\ p < k /\ Dispatch(filled)
             /\ UNCHANGED <<sequencer, handed>>
          \/ /\ i \in known /\ p = k /\ Dispatch(empty)
             /\ UNCHANGED <<sequencer, handed>>
          \/ /\ i \in known /\ p = k /\ Dispatch(empty)
             /\ filled.levels # <<>>
             /\ handed' = handed \cup
                   {[update |-> u, of |-> k, levels |-> filled.levels,
                     raced |-> raced]}
             /\ \E state \in {"waiting", "ready"} :
                   sequencer' = [sequencer EXCEPT ![i] = state]
       /\ raced' = (raced /\ p < k)
       /\ update' = update /\ known' = known
  BY <1>2, <1>3, <1>4 DEF ReadSnapshot, Append1, Cleared, filled, more
<1> HIDE DEF empty
<1>15. PositionInv' /\ sent' = sent /\ at' = at + 1
  BY <1>1, <1>5, <1>9, <1>13, <1>14, DispatchKeeps DEF SnapshotInv
<1>16. (Unfinished(at)' <=> p < k) /\ sent'[at'] = part /\ at' > 0
  BY <1>1, <1>2, <1>4, <1>15 DEF Unfinished
<1>17. CollectedInv' /\ ExactInv'
  <2>1. CASE i \notin known /\ Dispatch(channel)
    <3>1. channel' = channel /\ channel.levels = <<>>
      BY <1>6, <2>1 DEF Dispatch
    <3>2. ~Collecting'
      BY <1>3, <1>14, <1>16, <2>1 DEF Collecting
    <3>3. QED
      BY <3>1, <3>2 DEF CollectedInv, ExactInv
  <2>2. CASE i \in known /\ p < k /\ Dispatch(filled)
    <3>1. /\ channel' = filled /\ sequencer' = sequencer
      BY <1>14, <2>2 DEF Dispatch
    <3>2. CollectedInv'
      BY <1>3, <1>4, <1>9, <1>11, <1>14, <1>16, <2>2, <3>1 DEF CollectedInv
    <3>3. Collecting' <=> channel.ready /\ sequencer[i] = "waiting"
      BY <1>3, <1>9, <1>14, <1>16, <2>2, <3>1 DEF Collecting
    <3>4. raced' = raced
      BY <1>14, <2>2 DEF SnapshotInv
    <3>5. QED
      BY <1>4, <1>12, <1>16, <2>2, <3>1, <3>2, <3>3, <3>4 DEF ExactInv
  <2>3. CASE i \in known /\ p = k /\ Dispatch(empty)
    <3>1. channel'.levels = <<>>
      BY <1>13, <2>3 DEF Dispatch
    <3>2. ~Collecting'
      BY <1>16, <2>3 DEF Collecting
    <3>3. QED
      BY <3>1, <3>2 DEF CollectedInv, ExactInv
  <2>4. QED
    BY <1>14, <2>1, <2>2, <2>3
<1>18. ASSUME NEW h \in handed'
       PROVE  /\ ~h.raced => Len(h.levels) = h.of /\ OneUpdate(h.levels, h.update, h.of)
              /\ PartsOf(h.levels, h.update, h.of)
  <2>1. CASE h \in handed
    BY <2>1 DEF SnapshotInv, HandedWhole, HandedFromOneSnapshot
  <2>2. CASE /\ i \in known /\ p = k /\ filled.levels # <<>>
             /\ h = [update |-> u, of |-> k, levels |-> filled.levels,
                     raced |-> raced]
    BY <1>11, <1>12, <2>2
  <2>3. QED
    BY <1>14, <1>18, <2>1, <2>2
<1>19. HandedWhole' /\ HandedFromOneSnapshot'
  BY <1>18 DEF HandedWhole, HandedFromOneSnapshot
<1>20. SentInv' /\ PrecededInv'
  BY <1>15, SentStays, PrecededStays DEF SnapshotInv
<1>21. sequencer' \in [Instruments -> {"waiting", "ready"}] /\ raced' \in BOOLEAN
  BY <1>14 DEF SnapshotInv
<1>22. QED
  BY <1>14, <1>15, <1>16, <1>17, <1>19, <1>20, <1>21 DEF SnapshotInv

-----------------------------------------------------------------------------
LEMMA SnapshotInvInit == Init => SnapshotInv
<1> SUFFICES ASSUME Init
             PROVE  SnapshotInv
  OBVIOUS
<1>1. sent = <<>> /\ Len(sent) = 0 /\ Datagrams = 0
  BY DEF Init, MulticastInit, Datagrams
<1>2. SentInv /\ PrecededInv
  BY <1>1 DEF SentInv, PrecededInv
<1>3. channel \in Channels
  BY DEF Init, MulticastInit, NewChannel, Channels
<1>4. PositionInv /\ CollectedInv /\ ExactInv /\ ~channel.ready
  BY <1>1, <1>3 DEF Init, MulticastInit, NewChannel, PositionInv, CollectedInv,
                    ExactInv, Collecting
<1>5. /\ handed = {} /\ known = {} /\ raced = FALSE /\ update = 0
      /\ sequencer = [i \in Instruments |-> "waiting"]
  BY DEF Init
<1>6. HandedWhole /\ HandedFromOneSnapshot
  BY <1>5 DEF HandedWhole, HandedFromOneSnapshot
<1>7. /\ known \subseteq Instruments /\ raced \in BOOLEAN
      /\ sequencer \in [Instruments -> {"waiting", "ready"}]
  BY <1>5
<1>8. QED
  BY <1>1, <1>2, <1>4, <1>5, <1>6, <1>7 DEF SnapshotInv

LEMMA SnapshotInvStep ==
    ASSUME NoWrap, SnapshotInv, [Next]_vars
    PROVE  SnapshotInv'
<1>1. CASE UNCHANGED vars
  <2>1. UNCHANGED <<sent, newest, frame, at, channel, update, known, sequencer,
                    raced, handed>>
    BY <1>1 DEF vars, network
  <2>2. SentInv' /\ PrecededInv'
    BY <2>1, SentStays, PrecededStays DEF SnapshotInv
  <2>3. PositionInv'
    BY <2>1 DEF SnapshotInv, PositionInv, Datagrams, Dispatching, Channels, Level,
                SequenceNumber
  <2>4. CollectedInv' /\ ExactInv'
    BY <2>1 DEF SnapshotInv, CollectedInv, ExactInv, Collecting, Unfinished,
                PartsOf, OneUpdate
  <2>5. HandedWhole' /\ HandedFromOneSnapshot'
    BY <2>1 DEF SnapshotInv, HandedWhole, HandedFromOneSnapshot
  <2>6. QED
    BY <2>1, <2>2, <2>3, <2>4, <2>5 DEF SnapshotInv
<1>2. QED
  BY <1>1, ExchangeKeeps, InterferenceKeeps, FrameKeeps, ReadMarkKeeps,
     ReadSnapshotKeeps DEF Next

LEMMA SnapshotInvariant == NoWrap => (Spec => []SnapshotInv)
<1>1. ASSUME NoWrap
      PROVE  Spec => []SnapshotInv
  <2>1. SnapshotInv /\ [Next]_vars => SnapshotInv'
    BY <1>1, SnapshotInvStep
  <2>2. QED
    BY <2>1, SnapshotInvInit, PTL DEF Spec
<1>2. QED
  BY <1>1

(* A snapshot reaches its sequencer whole, or not at all, unless the       *)
(* events stream created the instrument or changed its sequencer amid it.  *)
THEOREM SnapshotsAreHandedWhole == NoWrap => (Spec => []HandedWhole)
<1>1. ASSUME NoWrap
      PROVE  Spec => []HandedWhole
  <2>1. SnapshotInv => HandedWhole
    BY DEF SnapshotInv
  <2>2. Spec => []SnapshotInv
    BY <1>1, SnapshotInvariant
  <2>3. QED
    BY <2>1, <2>2, PTL
<1>2. QED
  BY <1>1

(* Race or not, what is handed over are parts of that snapshot, in order   *)
(* and none twice.                                                         *)
THEOREM SnapshotsAreNotMixed == NoWrap => (Spec => []HandedFromOneSnapshot)
<1>1. ASSUME NoWrap
      PROVE  Spec => []HandedFromOneSnapshot
  <2>1. SnapshotInv => HandedFromOneSnapshot
    BY DEF SnapshotInv
  <2>2. Spec => []SnapshotInv
    BY <1>1, SnapshotInvariant
  <2>3. QED
    BY <2>1, <2>2, PTL
<1>2. QED
  BY <1>1

(* No level stays for another snapshot, another cycle, or after a reset.   *)
THEOREM NothingIsLeftOver == NoWrap => (Spec => []NoLeftOvers)
<1>1. ASSUME NoWrap
      PROVE  Spec => []NoLeftOvers
  <2>1. SnapshotInv => NoLeftOvers
    BY DEF SnapshotInv, CollectedInv, NoLeftOvers
  <2>2. Spec => []SnapshotInv
    BY <1>1, SnapshotInvariant
  <2>3. QED
    BY <2>1, <2>2, PTL
<1>2. QED
  BY <1>1

(* The channel, its levels and the sequencers keep their types; the levels *)
(* never exceed the parts of one snapshot.                                 *)
THEOREM SnapshotTypeCorrect == NoWrap => (Spec => []TypeOK)
<1>1. ASSUME NoWrap
      PROVE  Spec => []TypeOK
  <2>1. ASSUME SnapshotInv
        PROVE  TypeOK
    <3>1. Len(channel.levels) < MaxParts
      <4>1. CASE channel.levels = <<>>
        BY <4>1
      <4>2. CASE channel.levels # <<>>
        <5>1. /\ at \in 1..Len(sent) /\ Unfinished(at)
              /\ Len(channel.levels) <= sent[at].part
          BY <2>1, <4>2 DEF SnapshotInv, CollectedInv, PositionInv
        <5>2. PICK part \in Message : part = sent[at]
          BY <2>1, <5>1, SentFacts DEF SnapshotInv
        <5>3. part.kind = "Snapshot" /\ part.part < part.of
          BY <5>1, <5>2, MessageFacts DEF Unfinished
        <5>4. part.part \in 1..MaxParts /\ part.of \in 1..MaxParts
          BY <5>3, MessageFacts
        <5>5. Len(channel.levels) \in Nat
          BY <2>1 DEF SnapshotInv, PositionInv, Channels
        <5>6. QED
          BY <5>1, <5>2, <5>3, <5>4, <5>5
      <4>3. QED
        BY <4>1, <4>2
    <3>2. QED
      BY <2>1, <3>1 DEF SnapshotInv, PositionInv, TypeOK, Channels, Level
  <2>2. Spec => []SnapshotInv
    BY <1>1, SnapshotInvariant
  <2>3. QED
    BY <2>1, <2>2, PTL
<1>2. QED
  BY <1>1

=============================================================================
