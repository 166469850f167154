--------------------------- MODULE UDPEventsProofs ---------------------------
(***************************************************************************)
(* UDPEvents for every set of instruments, every length of an update and   *)
(* every number of messages in a datagram, whatever the network loses,     *)
(* repeats or delivers late.                                               *)
(*                                                                         *)
(* The hypotheses say where the sequence numbers of the day lie, and each  *)
(* theorem is false without its own: a channel that starts at 0 or 1 is    *)
(* not marked initialized, and test_sequence takes a late datagram from    *)
(* below the midpoint of the numbers for one after a wrap-around.          *)
(***************************************************************************)
EXTENDS UDPEvents, SequenceTheorems, TLAPS

OneSide ==
    \/ FirstSequence + MaxSent - 1 <= Midpoint
    \/ Midpoint <= FirstSequence

NoWrap == FirstSequence > 1 /\ FirstSequence + MaxSent <= SequenceModulus

USE ChannelAssumption, MulticastAssumption, UDPEventsAssumption

Level == [update : 1..MaxSent, part : 1..MaxParts]

Message ==
    [kind : {"Book"}, datagram : 1..MaxSent, instrument : Instruments,
     update : 1..MaxSent, part : 1..MaxParts, of : 1..MaxParts]
    \cup
    [kind : Kinds, datagram : 1..MaxSent, instrument : Instruments]

Continues(book, next) ==
    /\ next.kind = book.kind /\ next.instrument = book.instrument
    /\ next.update = book.update /\ next.of = book.of
    /\ next.part = book.part + 1

LEMMA MessageFacts ==
    ASSUME NEW m \in Message
    PROVE  /\ m.datagram \in 1..MaxSent /\ m.instrument \in Instruments
           /\ m.kind \in {"Book"} \cup Kinds
           /\ m.kind = "Book" =>
                 /\ m.update \in 1..MaxSent
                 /\ m.part \in 1..MaxParts /\ m.of \in 1..MaxParts
  BY DEF Message

(* Datagrams are numbered in the order of their messages and without a     *)
(* hole, and a part that is not the last is followed by the next part.     *)
SentInv ==
    /\ sent \in Seq(Message)
    /\ Len(sent) <= MaxSent
    /\ \A n \in 1..Len(sent) : sent[n].datagram <= n
    /\ \A m, n \in 1..Len(sent) : m <= n => sent[m].datagram <= sent[n].datagram
    /\ \A n \in 1..Len(sent) :
          n < Len(sent) /\ Unfinished(n) => Continues(sent[n], sent[n + 1])

Channels ==
    [previous : 0..(SequenceModulus - 1), initialized : BOOLEAN,
     ready : BOOLEAN, levels : Seq(Level)]

(* The channel is where the datagram delivered last was, and the message   *)
(* dispatched or skipped last is one of it, unless none of it was yet.     *)
PositionInv ==
    /\ newest \in 0..Datagrams /\ frame \in 0..newest /\ at \in 0..Len(sent)
    /\ channel \in Channels
    /\ ~channel.initialized =>
          /\ channel.previous = 0 /\ ~channel.ready /\ channel.levels = <<>>
          /\ frame = 0 /\ at = 0
    /\ channel.initialized =>
          /\ frame > 0 /\ channel.previous = SequenceNumber(frame)
          /\ ~Dispatching => at > 0 /\ sent[at].datagram = frame

-----------------------------------------------------------------------------
(* Sequence numbers *)

LEMMA ModSmall ==
    ASSUME NEW a \in Nat, NEW m \in Nat, a < m
    PROVE  a % m = a
  OBVIOUS

(* Until they wrap around, numbers count datagrams. *)
LEMMA Numbers ==
    ASSUME NoWrap, NEW d \in 1..MaxSent
    PROVE  /\ SequenceNumber(d) = FirstSequence + d - 1
           /\ SequenceNumber(d) \in 2..(SequenceModulus - 1)
<1>1. FirstSequence + d - 1 \in Nat /\ FirstSequence + d - 1 < SequenceModulus
  BY DEF NoWrap
<1>2. SequenceNumber(d) = FirstSequence + d - 1
  BY <1>1, ModSmall DEF SequenceNumber
<1>3. QED
  BY <1>1, <1>2 DEF NoWrap

(* The datagram in sequence is the next one. *)
LEMMA NextInSequence ==
    ASSUME NoWrap, NEW c \in 1..MaxSent, NEW d \in 1..MaxSent,
           channel.previous = SequenceNumber(c),
           InSequence(channel, SequenceNumber(d))
    PROVE  d = c + 1
<1>1. CASE channel.previous + 1 < SequenceModulus
  <2>1. (channel.previous + 1) % SequenceModulus = channel.previous + 1
    BY <1>1, Numbers, ModSmall
  <2>2. QED
    BY <2>1, Numbers DEF InSequence
<1>2. CASE channel.previous + 1 = SequenceModulus
  <2>1. (channel.previous + 1) % SequenceModulus = 0
    BY <1>2
  <2>2. QED
    BY <2>1, Numbers DEF InSequence
<1>3. QED
  BY <1>1, <1>2, Numbers

-----------------------------------------------------------------------------
(* The exchange *)

LEMMA SentFacts ==
    ASSUME SentInv
    PROVE  /\ Len(sent) \in Nat
           /\ \A n \in 1..Len(sent) :
                 sent[n] \in Message /\ sent[n].datagram \in 1..MaxSent
           /\ Datagrams \in 0..Len(sent)
           /\ \A n \in 1..Len(sent) : sent[n].datagram <= Datagrams
<1>1. Len(sent) \in Nat
  BY DEF SentInv
<1>2. \A n \in 1..Len(sent) : sent[n] \in Message /\ sent[n].datagram \in 1..MaxSent
  BY MessageFacts DEF SentInv
<1>3. CASE sent = <<>>
  BY <1>1, <1>2, <1>3 DEF Datagrams
<1>4. CASE sent # <<>>
  <2>1. Len(sent) \in 1..Len(sent)
    BY <1>1, <1>4 DEF SentInv
  <2>2. Datagrams = sent[Len(sent)].datagram
    BY <1>4 DEF Datagrams
  <2>3. QED
    BY <1>1, <1>2, <2>1, <2>2 DEF SentInv
<1>5. QED
  BY <1>3, <1>4

(* A message is published: it continues what is unfinished, in the last    *)
(* datagram or in the next.                                                *)
LEMMA PublishKeepsSent ==
    ASSUME SentInv, NEW d \in Filling, newest \in Nat,
           NEW message \in Message, message.datagram = d,
           Publish(message), Amid => Continues(sent[Len(sent)], message)
    PROVE  /\ SentInv'
           /\ Len(sent') = Len(sent) + 1
           /\ \A n \in 1..Len(sent) : sent'[n] = sent[n]
           /\ sent'[Len(sent) + 1] = message
           /\ Datagrams' >= Datagrams
           /\ UNCHANGED network
<1>1. PICK l \in Nat : l = Len(sent)
  BY SentFacts
<1>2. /\ sent' \in Seq(Message)
      /\ Len(sent') = l + 1
      /\ \A n \in 1..l : sent'[n] = sent[n]
      /\ sent'[l + 1] = message
      /\ l + 1 <= MaxSent
  BY <1>1, AppendProperties DEF Publish, SentInv
<1>3. d >= Datagrams /\ d <= Datagrams + 1 /\ d \in Nat /\ Datagrams \in 0..l
  BY <1>1, SentFacts DEF Filling
<1>4. Datagrams' = d
  BY <1>2 DEF Datagrams
<1>5. ASSUME NEW n \in 1..(l + 1)
      PROVE  sent'[n].datagram <= n
  <2>1. CASE n \in 1..l
    BY <1>1, <1>2, <2>1 DEF SentInv
  <2>2. CASE n = l + 1
    BY <1>2, <1>3, <2>2
  <2>3. QED
    BY <2>1, <2>2
<1>6. ASSUME NEW m \in 1..(l + 1), NEW n \in 1..(l + 1), m <= n
      PROVE  sent'[m].datagram <= sent'[n].datagram
  <2>1. CASE n \in 1..l
    BY <1>1, <1>2, <1>6, <2>1 DEF SentInv
  <2>2. CASE n = l + 1 /\ m = l + 1
    BY <1>2, <1>3, <2>2
  <2>3. CASE n = l + 1 /\ m \in 1..l
    BY <1>1, <1>2, <1>3, <2>3, SentFacts
  <2>4. QED
    BY <2>1, <2>2, <2>3
<1>7. ASSUME NEW n \in 1..(l + 1), n < l + 1, Unfinished(n)'
      PROVE  Continues(sent'[n], sent'[n + 1])
  <2>1. n \in 1..l /\ Unfinished(n)
    BY <1>2, <1>7 DEF Unfinished
  <2>2. CASE n < l
    <3>1. sent'[n] = sent[n] /\ sent'[n + 1] = sent[n + 1]
      BY <1>2, <2>1, <2>2
    <3>2. Continues(sent[n], sent[n + 1])
      BY <1>1, <2>1, <2>2 DEF SentInv
    <3>3. QED
      BY <3>1, <3>2
  <2>3. CASE n = l
    <3>1. Amid
      BY <1>1, <2>1, <2>3 DEF Amid
    <3>2. QED
      BY <1>1, <1>2, <2>1, <2>3, <3>1
  <2>4. QED
    BY <2>1, <2>2, <2>3
<1>8. SentInv'
  BY <1>2, <1>5, <1>6, <1>7 DEF SentInv, Message, Continues
<1>9. QED
  BY <1>1, <1>2, <1>3, <1>4, <1>8 DEF Publish

(* Nothing moves for a gateway that has not been sent the message. *)
LEMMA PublishKeepsPosition ==
    ASSUME SentInv, PositionInv, SentInv',
           Len(sent') = Len(sent) + 1,
           \A n \in 1..Len(sent) : sent'[n] = sent[n],
           Datagrams' >= Datagrams,
           UNCHANGED network
    PROVE  PositionInv'
<1>1. Len(sent) \in Nat /\ Datagrams \in Nat /\ Datagrams' \in Nat
  <2>1. Datagrams' \in Nat
    <3>1. sent' # <<>> /\ Len(sent') \in 1..Len(sent')
      BY SentFacts
    <3>2. sent'[Len(sent')] \in Message
      BY <3>1 DEF SentInv, Message
    <3>3. QED
      BY <3>1, <3>2, MessageFacts DEF Datagrams
  <2>2. QED
    BY <2>1, SentFacts
<1>2. /\ newest' = newest /\ frame' = frame /\ at' = at /\ channel' = channel
  BY DEF network
<1>3. /\ newest' \in 0..Datagrams' /\ frame' \in 0..newest' /\ at' \in 0..Len(sent')
  BY <1>1, <1>2 DEF PositionInv
<1>4. Dispatching => Dispatching'
  BY <1>1, <1>2 DEF Dispatching, PositionInv
<1>5. at > 0 => sent'[at] = sent[at]
  BY <1>1 DEF PositionInv
<1>6. QED
  BY <1>2, <1>3, <1>4, <1>5 DEF PositionInv, Channels, Level

-----------------------------------------------------------------------------
(* The frame handler *)

(* The channel after the frame of a datagram *)
After(d) == AfterFrame(channel, SequenceNumber(d))

LEMMA FrameTyped ==
    ASSUME NoWrap, PositionInv, NEW d \in 1..MaxSent
    PROVE  /\ After(d) \in Channels
           /\ After(d).previous = SequenceNumber(d)
           /\ After(d).initialized
           /\ ~Accepts(channel, SequenceNumber(d)) =>
                 After(d).levels = <<>> /\ ~After(d).ready
           /\ Accepts(channel, SequenceNumber(d)) =>
                 After(d).levels = channel.levels /\ After(d).ready = channel.ready
           /\ Accepts(channel, SequenceNumber(d)) /\ channel.initialized =>
                 InSequence(channel, SequenceNumber(d))
<1>1. SequenceNumber(d) \in 2..(SequenceModulus - 1)
  BY Numbers
<1>2. ~channel.initialized => ~InSequence(channel, SequenceNumber(d))
  <2>1. SUFFICES ASSUME ~channel.initialized
                 PROVE  ~InSequence(channel, SequenceNumber(d))
    OBVIOUS
  <2>2. channel.previous = 0
    BY <2>1 DEF PositionInv
  <2>3. (0 + 1) % SequenceModulus = 1
    BY ModSmall
  <2>4. QED
    BY <1>1, <2>2, <2>3 DEF InSequence
<1>3. ~channel.initialized => Accepts(channel, SequenceNumber(d))
  BY <1>1 DEF Accepts, PositionInv
<1>4. channel \in Channels /\ <<>> \in Seq(Level)
  BY DEF PositionInv
<1>5. CASE InSequence(channel, SequenceNumber(d))
  <2>1. /\ After(d) = [channel EXCEPT !.previous = SequenceNumber(d)]
        /\ Accepts(channel, SequenceNumber(d))
    BY <1>5 DEF After, AfterFrame, Accepts
  <2>2. QED
    BY <1>1, <1>2, <1>4, <1>5, <2>1 DEF Channels
<1>6. CASE /\ ~InSequence(channel, SequenceNumber(d))
           /\ Accepts(channel, SequenceNumber(d))
  <2>1. After(d) = [previous |-> SequenceNumber(d), initialized |-> TRUE,
                    ready |-> channel.ready, levels |-> channel.levels]
    BY <1>4, <1>6 DEF After, AfterFrame, Channels
  <2>2. ~channel.initialized
    BY <1>6 DEF Accepts
  <2>3. QED
    BY <1>1, <1>4, <1>6, <2>1, <2>2 DEF Channels
<1>7. CASE ~Accepts(channel, SequenceNumber(d))
  <2>1. After(d) = [previous |-> SequenceNumber(d),
                    initialized |-> channel.initialized,
                    ready |-> FALSE, levels |-> <<>>]
    BY <1>4, <1>7 DEF After, AfterFrame, Reset, Channels, Accepts
  <2>2. channel.initialized
    BY <1>3, <1>7
  <2>3. After(d) \in Channels
    BY <1>1, <1>4, <2>1, <2>2 DEF Channels
  <2>4. /\ After(d).previous = SequenceNumber(d)
        /\ After(d).initialized = channel.initialized
        /\ After(d).ready = FALSE /\ After(d).levels = <<>>
    BY <2>1
  <2>5. QED
    BY <1>7, <2>2, <2>3, <2>4
<1>8. QED
  BY <1>5, <1>6, <1>7

(* Skipping a datagram clears what was collected. *)
LEMMA SkipKeeps ==
    ASSUME NoWrap, SentInv, PositionInv, NEW n \in 1..Len(sent), Skip(n)
    PROVE  /\ PositionInv' /\ UNCHANGED sent
           /\ channel'.levels = <<>> /\ ~channel'.ready
<1>1. PICK d \in 1..MaxSent : d = sent[n].datagram /\ d <= Datagrams
  BY SentFacts
<1>2. /\ channel' = After(d) /\ frame' = d /\ at' = n /\ sent' = sent
      /\ newest' = IF d > newest THEN d ELSE newest
      /\ ~Accepts(channel, SequenceNumber(d))
  BY <1>1 DEF Skip, Deliver, After
<1>3. newest \in Nat /\ Datagrams' = Datagrams /\ Datagrams \in Nat /\ newest <= Datagrams
  BY <1>2, SentFacts DEF PositionInv, Datagrams
<1>4. newest' \in 0..Datagrams' /\ frame' \in 0..newest' /\ at' \in 0..Len(sent')
  BY <1>1, <1>2, <1>3
<1>5. /\ channel' \in Channels /\ channel'.initialized
      /\ channel'.previous = SequenceNumber(frame')
      /\ channel'.levels = <<>> /\ ~channel'.ready
  BY <1>2, FrameTyped
<1>6. at' > 0 /\ sent'[at'].datagram = frame' /\ frame' > 0
  BY <1>1, <1>2
<1>7. PositionInv'
  BY <1>4, <1>5, <1>6 DEF PositionInv, Channels, Level, SequenceNumber
<1>8. QED
  BY <1>2, <1>5, <1>7

(* A datagram that a running channel accepts begins with the message after *)
(* the one dispatched last; the first one finds nothing collected.         *)
LEMMA ReceiveKeeps ==
    ASSUME NoWrap, SentInv, PositionInv, NEW n \in 1..Len(sent), Receive(n)
    PROVE  /\ PositionInv' /\ UNCHANGED sent
           /\ channel'.levels = channel.levels /\ channel'.ready = channel.ready
           /\ channel.initialized => at' = at
           /\ ~channel.initialized => channel'.levels = <<>> /\ ~channel'.ready
<1>1. PICK d \in 1..MaxSent : d = sent[n].datagram /\ d <= Datagrams
  BY SentFacts
<1>2. /\ channel' = After(d) /\ frame' = d /\ at' = n - 1 /\ sent' = sent
      /\ newest' = IF d > newest THEN d ELSE newest
      /\ Accepts(channel, SequenceNumber(d)) /\ ~Dispatching /\ Opens(n)
  BY <1>1 DEF Receive, Deliver, After
<1>3. /\ newest \in Nat /\ Datagrams' = Datagrams /\ Datagrams \in Nat
      /\ newest <= Datagrams /\ Len(sent) \in Nat /\ frame \in Nat /\ at \in Nat
      /\ at <= Len(sent)
  BY <1>2, SentFacts DEF PositionInv, Datagrams
<1>4. newest' \in 0..Datagrams' /\ frame' \in 0..newest' /\ at' \in 0..Len(sent')
  BY <1>1, <1>2, <1>3
<1>5. /\ channel' \in Channels /\ channel'.initialized
      /\ channel'.previous = SequenceNumber(frame')
      /\ channel'.levels = channel.levels /\ channel'.ready = channel.ready
  BY <1>2, FrameTyped
<1>6. Dispatching'
  BY <1>1, <1>2, <1>3 DEF Dispatching
<1>7. PositionInv'
  BY <1>1, <1>2, <1>4, <1>5, <1>6 DEF PositionInv, Channels, Level, SequenceNumber
<1>8. ~channel.initialized => channel.levels = <<>> /\ ~channel.ready
  BY DEF PositionInv
<1>9. ASSUME channel.initialized
      PROVE  n = at + 1
  <2>1. /\ frame \in 1..MaxSent /\ channel.previous = SequenceNumber(frame)
        /\ at \in 1..Len(sent) /\ sent[at].datagram = frame
    <3>1. at > 0 /\ sent[at].datagram = frame /\ channel.previous = SequenceNumber(frame)
      BY <1>2, <1>9 DEF PositionInv
    <3>2. at \in 1..Len(sent)
      BY <1>3, <3>1
    <3>3. QED
      BY <3>1, <3>2, SentFacts
  <2>2. d = frame + 1
    BY <1>2, <1>9, <2>1, FrameTyped, NextInSequence
  <2>3. n > at
    <3>1. SUFFICES ASSUME n <= at
                   PROVE  FALSE
      BY <1>3
    <3>2. sent[n].datagram <= sent[at].datagram
      BY <2>1, <3>1 DEF SentInv
    <3>3. QED
      BY <1>1, <2>1, <2>2, <3>2
  <2>4. SUFFICES ASSUME n > at + 1
                 PROVE  FALSE
    BY <1>3, <2>3
  <2>5. at + 1 \in 1..Len(sent) /\ n - 1 \in 1..Len(sent) /\ at + 1 <= n - 1
    BY <1>3, <2>1, <2>4
  <2>6. PICK b \in 1..MaxSent, c \in 1..MaxSent :
            b = sent[at + 1].datagram /\ c = sent[n - 1].datagram
    BY <2>5, SentFacts
  <2>7. b # frame /\ c # d
    BY <1>1, <1>2, <1>3, <2>4, <2>5, <2>6 DEF Dispatching, Opens
  <2>8. frame <= b
    BY <1>3, <2>1, <2>5, <2>6 DEF SentInv
  <2>9. b <= c
    BY <2>5, <2>6 DEF SentInv
  <2>10. c <= d
    BY <1>1, <2>5, <2>6 DEF SentInv
  <2>11. QED
    BY <2>1, <2>2, <2>7, <2>8, <2>9, <2>10
<1>10. QED
  BY <1>2, <1>3, <1>5, <1>7, <1>8, <1>9

(* Dispatching a message moves on to it. *)
LEMMA DispatchKeeps ==
    ASSUME SentInv, PositionInv, Dispatching,
           NEW after \in Channels, Dispatch(after),
           after.previous = channel.previous,
           after.initialized = channel.initialized
    PROVE  /\ PositionInv' /\ UNCHANGED sent /\ channel' = after
           /\ at + 1 \in 1..Len(sent) /\ at' = at + 1
           /\ sent[at + 1].datagram = frame /\ frame \in 1..MaxSent
<1>1. /\ at' = at + 1 /\ channel' = after
      /\ sent' = sent /\ newest' = newest /\ frame' = frame
  BY DEF Dispatch
<1>2. /\ at \in Nat /\ Len(sent) \in Nat /\ at < Len(sent)
      /\ sent[at + 1].datagram = frame
  BY SentFacts DEF PositionInv, Dispatching
<1>3. at + 1 \in 1..Len(sent)
  BY <1>2
<1>4. frame \in 1..MaxSent
  BY <1>2, <1>3, SentFacts
<1>5. channel.initialized
  BY <1>4 DEF PositionInv
<1>6. newest' \in 0..Datagrams' /\ frame' \in 0..newest' /\ at' \in 0..Len(sent')
  BY <1>1, <1>3 DEF PositionInv, Datagrams
<1>7. channel'.previous = SequenceNumber(frame') /\ channel'.initialized
  BY <1>1, <1>5 DEF PositionInv
<1>8. PositionInv'
  BY <1>1, <1>2, <1>4, <1>6, <1>7 DEF PositionInv, Channels, Level, SequenceNumber
<1>9. QED
  BY <1>1, <1>2, <1>3, <1>4, <1>8

-----------------------------------------------------------------------------
(* Books *)

(* Levels may be waiting after a part, not the last, of an update of a     *)
(* known instrument: levels of that update only, up to that part.          *)
CollectedInv ==
    channel.levels # <<>> =>
        /\ at > 0 /\ Unfinished(at)
        /\ sent[at].instrument \in known
        /\ OneUpdate(channel.levels, sent[at].update, sent[at].part)

BookInv ==
    /\ SentInv
    /\ PositionInv
    /\ change_id \in 0..Len(sent)
    /\ known \subseteq Instruments
    /\ CollectedInv
    /\ HandedFromOneUpdate

(* Levels of one update, and the next of it *)
LEMMA OneMore ==
    ASSUME NEW levels \in Seq(Level), NEW u \in 1..MaxSent,
           NEW p \in 1..MaxParts, OneUpdate(levels, u, p - 1)
    PROVE  LET more == Append(levels, [update |-> u, part |-> p])
           IN  more \in Seq(Level) /\ OneUpdate(more, u, p)
<1> DEFINE level == [update |-> u, part |-> p]
           more  == Append(levels, level)
<1>1. level \in Level /\ Len(levels) \in Nat /\ Len(levels) <= p - 1
  BY DEF Level, OneUpdate
<1>2. /\ more \in Seq(Level)
      /\ Len(more) = Len(levels) + 1
      /\ \A q \in 1..Len(levels) : more[q] = levels[q]
      /\ more[Len(levels) + 1] = level
  BY <1>1, AppendProperties
<1>3. \A q \in 1..Len(levels) :
          levels[q] = [update |-> u, part |-> p - 1 - Len(levels) + q]
  BY DEF OneUpdate
<1>4. ASSUME NEW q \in 1..Len(more)
      PROVE  more[q] = [update |-> u, part |-> p - Len(more) + q]
  <2>1. CASE q = Len(levels) + 1
    <3>1. p - Len(more) + q = p
      BY <1>1, <1>2, <2>1
    <3>2. QED
      BY <1>2, <2>1, <3>1
  <2>2. CASE q \in 1..Len(levels)
    <3>1. p - Len(more) + q = p - 1 - Len(levels) + q
      BY <1>1, <1>2
    <3>2. QED
      BY <1>2, <1>3, <2>2, <3>1
  <2>3. QED
    BY <1>1, <1>2, <2>1, <2>2
<1>5. QED
  BY <1>1, <1>2, <1>4 DEF OneUpdate

(* What the next message finds collected: nothing, or the levels of the    *)
(* update it is a part of, up to the part before it.                       *)
LEMMA FoundCollected ==
    ASSUME BookInv, Dispatching
    PROVE  \/ channel.levels = <<>>
           \/ /\ sent[at + 1].kind = "Book"
              /\ sent[at + 1].instrument \in known
              /\ OneUpdate(channel.levels, sent[at + 1].update,
                           sent[at + 1].part - 1)
<1>1. SUFFICES ASSUME channel.levels # <<>>
               PROVE  /\ sent[at + 1].kind = "Book"
                      /\ sent[at + 1].instrument \in known
                      /\ OneUpdate(channel.levels, sent[at + 1].update,
                                   sent[at + 1].part - 1)
  OBVIOUS
<1>2. /\ at \in 1..Len(sent) /\ at < Len(sent) /\ Unfinished(at)
      /\ sent[at].instrument \in known
      /\ OneUpdate(channel.levels, sent[at].update, sent[at].part)
  BY <1>1 DEF BookInv, CollectedInv, PositionInv, Dispatching
<1>3. sent[at] \in Message /\ Continues(sent[at], sent[at + 1])
  BY <1>2, SentFacts DEF BookInv, SentInv
<1>4. sent[at].kind = "Book"
  BY <1>2, <1>3, MessageFacts, UDPEventsAssumption DEF Unfinished
<1>5. sent[at].part \in Nat
  BY <1>3, <1>4, MessageFacts
<1>6. sent[at + 1].part - 1 = sent[at].part
  BY <1>3, <1>5 DEF Continues
<1>7. QED
  BY <1>2, <1>3, <1>4, <1>6 DEF Continues

LEMMA PublishKeepsBooks ==
    ASSUME BookInv, SentInv', PositionInv',
           Len(sent') = Len(sent) + 1,
           \A n \in 1..Len(sent) : sent'[n] = sent[n],
           change_id' \in {change_id, change_id + 1},
           UNCHANGED <<network, gateway>>
    PROVE  BookInv'
<1>1. at > 0 => at \in 1..Len(sent) /\ sent'[at] = sent[at]
  BY DEF BookInv, PositionInv
<1>2. channel' = channel /\ at' = at /\ known' = known /\ handed' = handed
  BY DEF network, gateway
<1>3. CollectedInv'
  BY <1>1, <1>2 DEF BookInv, CollectedInv, Unfinished, OneUpdate
<1>4. HandedFromOneUpdate' /\ known' \subseteq Instruments
  BY <1>2 DEF BookInv, HandedFromOneUpdate
<1>5. change_id' \in 0..Len(sent')
  BY SentFacts DEF BookInv
<1>6. QED
  BY <1>3, <1>4, <1>5 DEF BookInv

LEMMA PublishBookKeeps ==
    ASSUME BookInv, NEW d \in Filling, NEW i \in Instruments,
           NEW k \in 1..MaxParts, PublishBook(d, i, k)
    PROVE  BookInv'
<1>1. PICK m \in Message : m = Book(d, i, change_id + 1, 1, k)
  <2>1. Len(sent) \in Nat /\ Len(sent) < MaxSent /\ Datagrams \in 0..Len(sent)
    BY SentFacts DEF BookInv, PublishBook, Publish
  <2>2. d \in 1..MaxSent /\ change_id + 1 \in 1..MaxSent
    BY <2>1 DEF BookInv, PositionInv, Filling
  <2>3. 1 \in 1..MaxParts
    OBVIOUS
  <2>4. QED
    BY <2>2, <2>3 DEF Book, Message
<1>2. m.datagram = d /\ Publish(m) /\ ~Amid
  BY <1>1 DEF PublishBook, Book
<1>3. newest \in Nat
  BY SentFacts DEF BookInv, PositionInv
<1>4. /\ SentInv' /\ Len(sent') = Len(sent) + 1
      /\ \A n \in 1..Len(sent) : sent'[n] = sent[n]
      /\ Datagrams' >= Datagrams /\ UNCHANGED network
  BY <1>2, <1>3, PublishKeepsSent DEF BookInv
<1>5. PositionInv'
  BY <1>4, PublishKeepsPosition DEF BookInv
<1>6. QED
  BY <1>4, <1>5, PublishKeepsBooks DEF PublishBook

LEMMA PublishOtherKeeps ==
    ASSUME BookInv, NEW d \in Filling, NEW i \in Instruments,
           NEW kind \in Kinds, PublishOther(d, kind, i)
    PROVE  BookInv'
<1>1. PICK m \in Message : m = Other(d, kind, i)
  <2>1. Len(sent) \in Nat /\ Len(sent) < MaxSent /\ Datagrams \in 0..Len(sent)
    BY SentFacts DEF BookInv, PublishOther, Publish
  <2>2. d \in 1..MaxSent
    BY <2>1 DEF BookInv, PositionInv, Filling
  <2>3. QED
    BY <2>2 DEF Other, Message
<1>2. m.datagram = d /\ Publish(m) /\ ~Amid
  BY <1>1 DEF PublishOther, Other
<1>3. newest \in Nat
  BY SentFacts DEF BookInv, PositionInv
<1>4. /\ SentInv' /\ Len(sent') = Len(sent) + 1
      /\ \A n \in 1..Len(sent) : sent'[n] = sent[n]
      /\ Datagrams' >= Datagrams /\ UNCHANGED network
  BY <1>2, <1>3, PublishKeepsSent DEF BookInv
<1>5. PositionInv'
  BY <1>4, PublishKeepsPosition DEF BookInv
<1>6. QED
  BY <1>4, <1>5, PublishKeepsBooks DEF PublishOther

LEMMA PublishPartKeeps ==
    ASSUME BookInv, NEW d \in Filling, PublishPart(d)
    PROVE  BookInv'
<1>1. /\ Len(sent) \in 1..Len(sent) /\ Len(sent) < MaxSent /\ Amid
      /\ Datagrams \in 0..Len(sent) /\ Len(sent) \in Nat
      /\ sent[Len(sent)] \in Message /\ Unfinished(Len(sent))
  BY SentFacts DEF BookInv, PublishPart, Publish, Amid
<1>2. PICK book \in Message : book = sent[Len(sent)]
  BY <1>1
<1>3. book.kind = "Book" /\ book.part < book.of
  BY <1>1, <1>2, MessageFacts, UDPEventsAssumption DEF Unfinished
<1>4. PICK m \in Message :
          m = Book(d, book.instrument, book.update, book.part + 1, book.of)
  <2>1. d \in 1..MaxSent
    BY <1>1 DEF BookInv, PositionInv, Filling
  <2>2. book.part + 1 \in 1..MaxParts
    BY <1>2, <1>3, MessageFacts
  <2>3. QED
    BY <1>2, <1>3, <2>1, <2>2, MessageFacts DEF Book, Message
<1>5. m.datagram = d /\ Publish(m) /\ Continues(book, m)
  BY <1>2, <1>3, <1>4 DEF PublishPart, Book, Continues
<1>6. newest \in Nat
  BY SentFacts DEF BookInv, PositionInv
<1>7. /\ SentInv' /\ Len(sent') = Len(sent) + 1
      /\ \A n \in 1..Len(sent) : sent'[n] = sent[n]
      /\ Datagrams' >= Datagrams /\ UNCHANGED network
  BY <1>2, <1>5, <1>6, PublishKeepsSent DEF BookInv
<1>8. PositionInv'
  BY <1>7, PublishKeepsPosition DEF BookInv
<1>9. QED
  BY <1>7, <1>8, PublishKeepsBooks DEF PublishPart

LEMMA SentStays ==
    ASSUME SentInv, UNCHANGED sent
    PROVE  SentInv'
  BY DEF SentInv, Message, Unfinished, Continues

LEMMA FrameKeeps ==
    ASSUME NoWrap, BookInv, NEW n \in 1..Len(sent), Frame(n)
    PROVE  BookInv'
<1>1. /\ change_id' = change_id /\ known' = known /\ handed' = handed
  BY DEF Frame, gateway
<1>2. PositionInv' /\ UNCHANGED sent /\ CollectedInv'
  <2>1. CASE Skip(n)
    <3>1. PositionInv' /\ UNCHANGED sent /\ channel'.levels = <<>>
      BY <2>1, SkipKeeps DEF BookInv
    <3>2. QED
      BY <3>1 DEF CollectedInv
  <2>2. CASE Receive(n)
    <3>1. /\ PositionInv' /\ UNCHANGED sent
          /\ channel'.levels = channel.levels
          /\ channel.initialized => at' = at
          /\ ~channel.initialized => channel'.levels = <<>>
      BY <2>2, ReceiveKeeps DEF BookInv
    <3>2. QED
      BY <1>1, <3>1 DEF BookInv, CollectedInv, Unfinished, OneUpdate
  <2>3. QED
    BY <2>1, <2>2 DEF Frame
<1>3. SentInv'
  BY <1>2, SentStays DEF BookInv
<1>4. QED
  BY <1>1, <1>2, <1>3 DEF BookInv, HandedFromOneUpdate

LEMMA ReadBookKeeps ==
    ASSUME BookInv, ReadBook
    PROVE  BookInv'
<1>1. /\ at + 1 \in 1..Len(sent) /\ at \in Nat
      /\ sent[at + 1] \in Message /\ Dispatching
  BY SentFacts DEF BookInv, PositionInv, Dispatching, ReadBook
<1>2. PICK book \in Message : book = sent[at + 1] /\ book.kind = "Book"
  BY <1>1 DEF ReadBook
<1>3. /\ book.update \in 1..MaxSent
      /\ book.part \in 1..MaxParts /\ book.of \in 1..MaxParts
  BY <1>2, MessageFacts
<1> DEFINE level == [update |-> book.update, part |-> book.part]
           full  == [channel EXCEPT !.levels = Append(@, level)]
<1>4. channel \in Channels
  BY DEF BookInv, PositionInv
<1>5. OneUpdate(channel.levels, book.update, book.part - 1)
  <2>1. CASE channel.levels = <<>>
    BY <1>3, <2>1 DEF OneUpdate
  <2>2. CASE channel.levels # <<>>
    BY <1>1, <1>2, <2>2, FoundCollected
  <2>3. QED
    BY <2>1, <2>2
<1>6. /\ full \in Channels
      /\ full.previous = channel.previous /\ full.initialized = channel.initialized
      /\ full.levels \in Seq(Level) /\ OneUpdate(full.levels, book.update, book.part)
  BY <1>3, <1>4, <1>5, OneMore DEF Channels
<1> DEFINE empty == [full EXCEPT !.levels = <<>>]
<1>7. /\ empty \in Channels /\ empty.levels = <<>>
      /\ empty.previous = channel.previous /\ empty.initialized = channel.initialized
  <2> HIDE DEF full
  <2>1. <<>> \in Seq(Level)
    OBVIOUS
  <2>2. QED
    BY <1>6, <2>1 DEF Channels
<1>8. /\ change_id' = change_id /\ known' = known
      /\ \/ /\ book.instrument \notin known /\ Dispatch(channel)
            /\ handed' = handed
         \/ /\ book.instrument \in known /\ book.part < book.of /\ Dispatch(full)
            /\ handed' = handed
         \/ /\ book.instrument \in known /\ book.part = book.of /\ Dispatch(empty)
            /\ handed' = handed \cup
                  {[instrument |-> book.instrument, update |-> book.update,
                    of |-> book.of, levels |-> full.levels]}
  BY <1>2 DEF ReadBook, Append1, Cleared
<1> HIDE DEF full, empty
<1>9. PositionInv' /\ UNCHANGED sent /\ at' = at + 1 /\ CollectedInv'
  <2>1. CASE book.instrument \notin known /\ Dispatch(channel)
    <3>1. channel.levels = <<>>
      BY <1>1, <1>2, <2>1, FoundCollected
    <3>2. PositionInv' /\ UNCHANGED sent /\ at' = at + 1 /\ channel' = channel
      BY <1>1, <1>4, <2>1, DispatchKeeps DEF BookInv
    <3>3. QED
      BY <3>1, <3>2 DEF CollectedInv
  <2>2. CASE book.instrument \in known /\ book.part < book.of /\ Dispatch(full)
    <3>1. PositionInv' /\ UNCHANGED sent /\ at' = at + 1 /\ channel' = full
      BY <1>1, <1>6, <2>2, DispatchKeeps DEF BookInv
    <3>2. QED
      BY <1>1, <1>2, <1>6, <1>8, <2>2, <3>1 DEF CollectedInv, Unfinished, OneUpdate
  <2>3. CASE Dispatch(empty)
    <3>1. PositionInv' /\ UNCHANGED sent /\ at' = at + 1 /\ channel' = empty
      BY <1>1, <1>7, <2>3, DispatchKeeps DEF BookInv
    <3>2. QED
      BY <1>7, <3>1 DEF CollectedInv
  <2>4. QED
    BY <1>8, <2>1, <2>2, <2>3
<1>10. HandedFromOneUpdate'
  <2>1. ASSUME NEW h \in handed'
        PROVE  OneUpdate(h.levels, h.update, h.of)
    <3>1. CASE h \in handed
      BY <3>1 DEF BookInv, HandedFromOneUpdate
    <3>2. CASE /\ h = [instrument |-> book.instrument, update |-> book.update,
                       of |-> book.of, levels |-> full.levels]
               /\ book.part = book.of
      BY <1>6, <3>2
    <3>3. QED
      BY <1>8, <2>1, <3>1, <3>2
  <2>2. QED
    BY <2>1 DEF HandedFromOneUpdate, OneUpdate
<1>11. SentInv'
  BY <1>9, SentStays DEF BookInv
<1>12. QED
  BY <1>8, <1>9, <1>10, <1>11 DEF BookInv

LEMMA ReadOtherKeeps ==
    ASSUME BookInv, ReadOther
    PROVE  BookInv'
<1>1. /\ Dispatching /\ Dispatch(channel) /\ sent[at + 1].kind # "Book"
      /\ change_id' = change_id /\ known' = known /\ handed' = handed
  BY UDPEventsAssumption DEF ReadOther
<1>2. channel.levels = <<>>
  BY <1>1, FoundCollected
<1>3. PositionInv' /\ UNCHANGED sent /\ channel' = channel
  BY <1>1, DispatchKeeps DEF BookInv, PositionInv
<1>4. SentInv'
  BY <1>3, SentStays DEF BookInv
<1>5. QED
  BY <1>1, <1>2, <1>3, <1>4 DEF BookInv, CollectedInv, HandedFromOneUpdate

LEMMA BookInvInit == Init => BookInv
<1> SUFFICES ASSUME Init
             PROVE  BookInv
  OBVIOUS
<1>1. sent = <<>> /\ Len(sent) = 0 /\ Datagrams = 0
  BY DEF Init, MulticastInit, Datagrams
<1>2. SentInv
  BY <1>1 DEF SentInv
<1>3. channel \in Channels
  BY DEF Init, MulticastInit, NewChannel, Channels
<1>4. PositionInv /\ CollectedInv
  BY <1>1, <1>3 DEF Init, MulticastInit, NewChannel, PositionInv, CollectedInv
<1>5. QED
  BY <1>1, <1>2, <1>4 DEF Init, BookInv, HandedFromOneUpdate

LEMMA BookInvStep ==
    ASSUME NoWrap, BookInv, [Next]_vars
    PROVE  BookInv'
<1>1. ASSUME NEW i \in Instruments, maybe_create_instrument(i)
      PROVE  BookInv'
  <2>1. /\ UNCHANGED <<sent, network, change_id, handed>>
        /\ known \subseteq known' /\ known' \subseteq Instruments
    BY <1>1 DEF maybe_create_instrument, BookInv
  <2>2. SentInv'
    BY <2>1, SentStays DEF BookInv
  <2>3. PositionInv'
    BY <2>1 DEF BookInv, PositionInv, network, Datagrams, Dispatching, Channels,
                Level, SequenceNumber
  <2>4. HandedFromOneUpdate' /\ CollectedInv'
    BY <2>1 DEF BookInv, HandedFromOneUpdate, CollectedInv, Unfinished, network,
                OneUpdate
  <2>5. QED
    BY <2>1, <2>2, <2>3, <2>4 DEF BookInv
<1>2. CASE UNCHANGED vars
  <2>1. UNCHANGED <<sent, newest, frame, at, channel, change_id, known, handed>>
    BY <1>2 DEF vars, network, gateway
  <2>2. SentInv'
    BY <2>1, SentStays DEF BookInv
  <2>3. PositionInv'
    BY <2>1 DEF BookInv, PositionInv, Datagrams, Dispatching, Channels, Level,
                SequenceNumber
  <2>4. HandedFromOneUpdate' /\ CollectedInv'
    BY <2>1 DEF BookInv, HandedFromOneUpdate, CollectedInv, Unfinished, OneUpdate
  <2>5. QED
    BY <2>1, <2>2, <2>3, <2>4 DEF BookInv
<1>3. QED
  BY <1>1, <1>2, PublishBookKeeps, PublishOtherKeeps, PublishPartKeeps,
     FrameKeeps, ReadBookKeeps, ReadOtherKeeps DEF Next

LEMMA BookInvariant == NoWrap => (Spec => []BookInv)
<1>1. ASSUME NoWrap
      PROVE  Spec => []BookInv
  <2>1. BookInv /\ [Next]_vars => BookInv'
    BY <1>1, BookInvStep
  <2>2. QED
    BY <2>1, BookInvInit, PTL DEF Spec
<1>2. QED
  BY <1>1

(* Whatever the network does, the sequencer gets under a change id levels  *)
(* of that update only: the tail of its parts, in order, without a hole.   *)
THEOREM UpdatesAreNotMixed == NoWrap => (Spec => []HandedFromOneUpdate)
<1>1. ASSUME NoWrap
      PROVE  Spec => []HandedFromOneUpdate
  <2>1. BookInv => HandedFromOneUpdate
    BY DEF BookInv
  <2>2. Spec => []BookInv
    BY <1>1, BookInvariant
  <2>3. QED
    BY <2>1, <2>2, PTL
<1>2. QED
  BY <1>1

(* The assert of Channel::operator() holds: a gap is taken for the first   *)
(* frame only when no frame was read before.                               *)
THEOREM FirstFrameIsFirst == NoWrap => (Spec => FirstFrameOnly)
<1>1. ASSUME NoWrap
      PROVE  Spec => FirstFrameOnly
  <2>1. BookInv /\ [Next]_vars =>
            [~channel.initialized /\ channel'.initialized
                => channel.previous = 0]_vars
    BY DEF BookInv, PositionInv
  <2>2. Spec => []BookInv
    BY <1>1, BookInvariant
  <2>3. QED
    BY <2>1, <2>2, PTL DEF Spec, FirstFrameOnly
<1>2. QED
  BY <1>1

-----------------------------------------------------------------------------
(* The caches of trades and tickers *)

Numbering == {NotSeen} \cup FirstSequence..(FirstSequence + MaxSent - 1)

(* Messages in the order of the exchange, none twice *)
Ordered(seq) == \A a, b \in 1..Len(seq) : a < b => seq[a] < seq[b]

(* Messages of datagrams that are not newer than the number *)
Behind(seq, number) ==
    \A a \in 1..Len(seq) :
        /\ seq[a] \in 1..Len(sent)
        /\ FirstSequence + sent[seq[a]].datagram - 1 <= number

(* A cache is empty or holds the number of a datagram, and no message was  *)
(* dispatched that is newer than its cache.                                *)
CacheInv ==
    /\ last \in [Kinds \X Instruments -> Numbering]
    /\ published \in [Kinds \X Instruments -> Seq(Nat)]
    /\ \A c \in Kinds \X Instruments :
          Behind(published[c], last[c]) /\ Ordered(published[c])

(* On one side of the midpoint, newer is larger. *)
LEMMA NewerIsLarger ==
    ASSUME NoWrap, OneSide, NEW d \in 1..MaxSent, NEW previous \in Numbering,
           test_sequence(previous, SequenceNumber(d))
    PROVE  previous < SequenceNumber(d)
<1>1. SequenceNumber(d) = FirstSequence + d - 1
  BY Numbers
<1>2. Midpoint \in Nat
  BY DEF Midpoint
<1>3. QED
  BY <1>1, <1>2 DEF test_sequence, OneSide, NotSeen, Numbering

(* Moving a cache on leaves what was dispatched behind it. *)
LEMMA StaysBehind ==
    ASSUME SentInv, NEW seq \in Seq(Nat), NEW number \in Int, NEW later \in Int,
           Behind(seq, number), number < later
    PROVE  Behind(seq, later)
<1>1. ASSUME NEW a \in 1..Len(seq)
      PROVE  /\ seq[a] \in 1..Len(sent)
             /\ FirstSequence + sent[seq[a]].datagram - 1 <= later
  <2>1. /\ seq[a] \in 1..Len(sent)
        /\ FirstSequence + sent[seq[a]].datagram - 1 <= number
    BY DEF Behind
  <2>2. sent[seq[a]].datagram \in Nat
    BY <2>1, SentFacts
  <2>3. QED
    BY <2>1, <2>2
<1>2. QED
  BY <1>1 DEF Behind

(* A message of a newer datagram goes after all others. *)
LEMMA NewestIsLast ==
    ASSUME SentInv, NEW seq \in Seq(Nat), NEW n \in 1..Len(sent),
           NEW number \in Int, number < FirstSequence + sent[n].datagram - 1,
           Behind(seq, number), Ordered(seq)
    PROVE  LET new == Append(seq, n)
           IN  /\ new \in Seq(Nat)
               /\ Behind(new, FirstSequence + sent[n].datagram - 1)
               /\ Ordered(new)
<1> DEFINE new == Append(seq, n)
<1>1. PICK l \in Nat : l = Len(seq)
  OBVIOUS
<1>2. /\ new \in Seq(Nat)
      /\ Len(new) = l + 1
      /\ \A a \in 1..l : new[a] = seq[a]
      /\ new[l + 1] = n
  BY <1>1, AppendProperties
<1> HIDE DEF new
<1>3. PICK d \in Nat : d = sent[n].datagram
  BY SentFacts
<1>4. ASSUME NEW a \in 1..l
      PROVE  /\ seq[a] \in 1..Len(sent) /\ seq[a] < n
             /\ FirstSequence + sent[seq[a]].datagram - 1 <= FirstSequence + d - 1
  <2>1. /\ seq[a] \in 1..Len(sent)
        /\ FirstSequence + sent[seq[a]].datagram - 1 <= number
    BY <1>1 DEF Behind
  <2>2. PICK c \in Nat : c = sent[seq[a]].datagram
    BY <2>1, SentFacts
  <2>3. c < d
    <3>1. FirstSequence + c - 1 <= number /\ number < FirstSequence + d - 1
      BY <1>3, <2>1, <2>2
    <3>2. FirstSequence \in Nat
      OBVIOUS
    <3>3. QED
      BY <3>1, <3>2
  <2>4. SUFFICES ASSUME n <= seq[a]
                 PROVE  FALSE
    <3>1. FirstSequence \in Nat /\ Len(sent) \in Nat
      BY SentFacts
    <3>2. FirstSequence + c - 1 <= FirstSequence + d - 1
      BY <2>3, <3>1
    <3>3. QED
      BY <2>1, <2>2, <3>1, <3>2
  <2>5. d <= c
    BY <1>3, <2>1, <2>2, <2>4 DEF SentInv
  <2>6. QED
    BY <2>3, <2>5
<1>5. Behind(new, FirstSequence + d - 1)
  <2>1. ASSUME NEW a \in 1..(l + 1)
        PROVE  /\ new[a] \in 1..Len(sent)
               /\ FirstSequence + sent[new[a]].datagram - 1 <= FirstSequence + d - 1
    <3>1. CASE a \in 1..l
      BY <1>2, <1>4, <3>1
    <3>2. CASE a = l + 1
      BY <1>2, <1>3, <3>2
    <3>3. QED
      BY <3>1, <3>2
  <2>2. QED
    BY <1>2, <2>1 DEF Behind
<1>6. Ordered(new)
  <2>1. ASSUME NEW a \in 1..(l + 1), NEW b \in 1..(l + 1), a < b
        PROVE  new[a] < new[b]
    <3>1. a \in 1..l
      BY <2>1
    <3>2. CASE b = l + 1
      BY <1>2, <1>4, <3>1, <3>2
    <3>3. CASE b \in 1..l
      BY <1>1, <1>2, <2>1, <3>1, <3>3 DEF Ordered
    <3>4. QED
      BY <3>2, <3>3
  <2>2. QED
    BY <1>2, <2>1 DEF Ordered
<1>7. QED
  BY <1>2, <1>3, <1>5, <1>6 DEF new

(* The caches stay, and so do the messages dispatched. *)
LEMMA CacheStays ==
    ASSUME SentInv, CacheInv, UNCHANGED <<last, published>>,
           Len(sent') \in Nat, Len(sent') >= Len(sent),
           \A n \in 1..Len(sent) : sent'[n] = sent[n]
    PROVE  CacheInv'
<1>1. ASSUME NEW c \in Kinds \X Instruments
      PROVE  Behind(published[c], last[c])'
  <2>1. ASSUME NEW a \in 1..Len(published[c])
        PROVE  /\ published[c][a] \in 1..Len(sent')
               /\ FirstSequence + sent'[published[c][a]].datagram - 1 <= last[c]
    <3>1. /\ published[c][a] \in 1..Len(sent)
          /\ FirstSequence + sent[published[c][a]].datagram - 1 <= last[c]
      BY DEF CacheInv, Behind
    <3>2. published[c][a] \in 1..Len(sent')
      BY <3>1, SentFacts
    <3>3. QED
      BY <3>1, <3>2
  <2>2. QED
    BY <2>1 DEF Behind
<1>2. last' \in [Kinds \X Instruments -> Numbering]
      /\ published' \in [Kinds \X Instruments -> Seq(Nat)]
  BY DEF CacheInv
<1>3. \A c \in Kinds \X Instruments : Ordered(published'[c])
  BY DEF CacheInv
<1>4. QED
  BY <1>1, <1>2, <1>3 DEF CacheInv, Ordered, Numbering

(* One message, of a datagram newer than the cache, is dispatched. *)
LEMMA DispatchKeepsOrder ==
    ASSUME NoWrap, SentInv, CacheInv, UNCHANGED sent,
           NEW n \in 1..Len(sent), NEW c \in Kinds \X Instruments,
           last[c] < SequenceNumber(sent[n].datagram),
           last' = [last EXCEPT ![c] = SequenceNumber(sent[n].datagram)],
           \/ UNCHANGED published
           \/ published' = [published EXCEPT ![c] = Append(@, n)]
    PROVE  CacheInv'
<1>1. PICK number \in Int : number = last[c]
  BY DEF CacheInv, NotSeen, Numbering
<1>2. PICK d \in 1..MaxSent : d = sent[n].datagram
  BY SentFacts
<1>3. PICK later \in Int : later = FirstSequence + d - 1
  OBVIOUS
<1>4. SequenceNumber(d) = later /\ number < later
  BY <1>1, <1>2, <1>3, Numbers
<1>5. /\ last' \in [Kinds \X Instruments -> Numbering]
      /\ last'[c] = later
      /\ \A e \in (Kinds \X Instruments) \ {c} : last'[e] = last[e]
  BY <1>2, <1>3, <1>4 DEF CacheInv, Numbering
<1>6. /\ published[c] \in Seq(Nat)
      /\ Behind(published[c], number)
      /\ Ordered(published[c])
  BY <1>1 DEF CacheInv
<1>7. /\ published' \in [Kinds \X Instruments -> Seq(Nat)]
      /\ Behind(published'[c], later)
      /\ Ordered(published'[c])
      /\ \A e \in (Kinds \X Instruments) \ {c} : published'[e] = published[e]
  <2>1. CASE UNCHANGED published
    <3>1. Behind(published[c], later)
      BY <1>4, <1>6, StaysBehind
    <3>2. QED
      BY <1>6, <2>1, <3>1 DEF CacheInv
  <2>2. CASE published' = [published EXCEPT ![c] = Append(@, n)]
    <3>1. /\ Append(published[c], n) \in Seq(Nat)
          /\ Behind(Append(published[c], n), later)
          /\ Ordered(Append(published[c], n))
      BY <1>2, <1>3, <1>4, <1>6, NewestIsLast
    <3>2. QED
      BY <2>2, <3>1 DEF CacheInv
  <2>3. QED
    BY <2>1, <2>2
<1>8. \A e \in Kinds \X Instruments :
          Behind(published'[e], last'[e]) /\ Ordered(published'[e])
  BY <1>5, <1>7 DEF CacheInv
<1>9. QED
  BY <1>5, <1>7, <1>8 DEF CacheInv, Behind, Ordered, Numbering

LEMMA CacheInvStep ==
    ASSUME NoWrap, OneSide, BookInv, CacheInv, [Next]_vars
    PROVE  CacheInv'
<1>1. ASSUME NEW message, Publish(message), UNCHANGED gateway
      PROVE  CacheInv'
  <2>1. /\ Len(sent') = Len(sent) + 1
        /\ \A n \in 1..Len(sent) : sent'[n] = sent[n]
    BY <1>1, SentFacts DEF Publish, BookInv, SentInv
  <2>2. QED
    BY <1>1, <2>1, SentFacts, CacheStays DEF gateway, BookInv
<1>2. CASE UNCHANGED <<sent, last, published>>
  BY <1>2, SentFacts, CacheStays DEF BookInv
<1>3. CASE ReadOther
  <2>1. /\ Dispatching /\ UNCHANGED sent
        /\ at + 1 \in 1..Len(sent) /\ frame = sent[at + 1].datagram
        /\ frame \in 1..MaxSent /\ sent[at + 1] \in Message
    BY <1>3, SentFacts DEF ReadOther, Dispatch, Dispatching, BookInv, PositionInv
  <2>2. PICK n \in 1..Len(sent) : n = at + 1
    BY <2>1
  <2>3. PICK c \in Kinds \X Instruments : c = <<sent[n].kind, sent[n].instrument>>
    BY <1>3, <2>1, <2>2, MessageFacts DEF ReadOther
  <2>4. CASE ~test_sequence(last[c], SequenceNumber(frame))
    <3>1. UNCHANGED <<last, published>>
      BY <1>3, <2>2, <2>3, <2>4 DEF ReadOther
    <3>2. QED
      BY <1>2, <2>1, <3>1
  <2>5. CASE test_sequence(last[c], SequenceNumber(frame))
    <3>1. last' = [last EXCEPT ![c] = SequenceNumber(frame)]
      BY <1>3, <2>2, <2>3, <2>5 DEF ReadOther
    <3>2. \/ published' = published
          \/ published' = [published EXCEPT ![c] = Append(@, n)]
      BY <1>3, <2>2, <2>3, <2>5 DEF ReadOther
    <3>3. last[c] < SequenceNumber(frame)
      BY <2>1, <2>5, NewerIsLarger DEF CacheInv
    <3>4. QED
      BY <2>1, <2>2, <3>1, <3>2, <3>3, DispatchKeepsOrder DEF BookInv
  <2>6. QED
    BY <2>4, <2>5
<1>4. QED
  BY <1>1, <1>2, <1>3
     DEF Next, vars, gateway, Frame, Skip, Receive, ReadBook, Dispatch, PublishBook,
         PublishPart, PublishOther, maybe_create_instrument

LEMMA CacheInvInit == NoWrap /\ Init => CacheInv
  BY DEF Init, CacheInv, Behind, Ordered, Numbering

(* Trades and tickers of an instrument are dispatched at most once and in  *)
(* the order of the exchange, however late or often datagrams arrive, as   *)
(* long as the numbers stay on one side of the midpoint.                   *)
THEOREM DispatchedOnceInOrder ==
    NoWrap /\ OneSide => (Spec => []PublishedOnceInOrder)
<1>1. ASSUME NoWrap, OneSide
      PROVE  Spec => []PublishedOnceInOrder
  <2>1. BookInv /\ CacheInv /\ [Next]_vars => CacheInv'
    BY <1>1, CacheInvStep
  <2>2. Init => CacheInv
    BY <1>1, CacheInvInit
  <2>3. CacheInv => PublishedOnceInOrder
    BY DEF CacheInv, PublishedOnceInOrder, Ordered
  <2>4. Spec => []BookInv
    BY <1>1, BookInvariant
  <2>5. QED
    BY <2>1, <2>2, <2>3, <2>4, PTL DEF Spec
<1>2. QED
  BY <1>1

(* The channel keeps at most the levels of one update, whatever the number *)
(* of its parts, and the caches hold sequence numbers.                     *)
THEOREM EventsTypeCorrect == NoWrap => (Spec => []TypeOK)
<1> DEFINE Caches == last \in [Kinds \X Instruments ->
                                  {NotSeen} \cup 0..(SequenceModulus - 1)]
<1>1. ASSUME NoWrap, BookInv, Caches
      PROVE  TypeOK
  <2>1. Len(channel.levels) < MaxParts
    <3>1. CASE channel.levels = <<>>
      BY <3>1
    <3>2. CASE channel.levels # <<>>
      <4>1. /\ at \in 1..Len(sent) /\ Unfinished(at)
            /\ OneUpdate(channel.levels, sent[at].update, sent[at].part)
        BY <1>1, <3>2 DEF BookInv, CollectedInv, PositionInv
      <4>2. PICK book \in Message : book = sent[at]
        BY <1>1, <4>1, SentFacts DEF BookInv
      <4>3. book.kind = "Book" /\ book.part < book.of
        BY <4>1, <4>2, MessageFacts, UDPEventsAssumption DEF Unfinished
      <4>4. book.part \in 1..MaxParts /\ book.of \in 1..MaxParts
        BY <4>3, MessageFacts
      <4>5. Len(channel.levels) \in Nat /\ Len(channel.levels) <= book.part
        BY <1>1, <4>1, <4>2 DEF BookInv, PositionInv, Channels, OneUpdate
      <4>6. QED
        BY <4>3, <4>4, <4>5
    <3>3. QED
      BY <3>1, <3>2
  <2>2. QED
    BY <1>1, <2>1 DEF BookInv, PositionInv, TypeOK, Channels, Level
<1>2. ASSUME NoWrap, BookInv, Caches, [Next]_vars
      PROVE  Caches'
  <2>1. CASE UNCHANGED last
    BY <1>2, <2>1
  <2>2. CASE ReadOther
    <3>1. SequenceNumber(frame) \in 0..(SequenceModulus - 1)
      <4>1. at + 1 \in 1..Len(sent) /\ frame = sent[at + 1].datagram
        <5>1. at \in Nat /\ Len(sent) \in Nat
          BY <1>2, SentFacts DEF BookInv, PositionInv
        <5>2. QED
          BY <2>2, <5>1 DEF ReadOther, Dispatching
      <4>2. QED
        BY <1>2, <4>1, SentFacts, Numbers DEF BookInv
    <3>2. \/ last' = last
          \/ last' = [last EXCEPT ![<<sent[at + 1].kind, sent[at + 1].instrument>>]
                                     = SequenceNumber(frame)]
      BY <2>2 DEF ReadOther
    <3>3. QED
      BY <1>2, <3>1, <3>2
  <2>3. QED
    BY <1>2, <2>1, <2>2
       DEF Next, vars, gateway, Frame, ReadBook, PublishBook, PublishPart,
           PublishOther, maybe_create_instrument
<1>3. ASSUME NoWrap
      PROVE  Spec => []TypeOK
  <2>1. BookInv /\ Caches /\ [Next]_vars => Caches'
    BY <1>2, <1>3
  <2>2. Init => Caches
    BY DEF Init
  <2>3. BookInv /\ Caches => TypeOK
    BY <1>1, <1>3
  <2>4. Spec => []BookInv
    BY <1>3, BookInvariant
  <2>5. QED
    BY <2>1, <2>2, <2>3, <2>4, PTL DEF Spec
<1>4. QED
  BY <1>3

=============================================================================
