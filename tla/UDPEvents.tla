------------------------------ MODULE UDPEvents ------------------------------
(***************************************************************************)
(* gateway/udp_events.cpp: the stream of incremental market data received  *)
(* by multicast.  The handlers of the messages; how they arrive is in      *)
(* Multicast.                                                              *)
(*                                                                         *)
(* A book update consists of one or more parts, published back to back, in *)
(* one datagram or in several.  Trades and tickers are alike but for the   *)
(* cache that filters them.                                                *)
(***************************************************************************)
EXTENDS Multicast

CONSTANTS
    Instruments,
    Kinds,          \* {"Trades", "Ticker"}, or one of them, or none
    MaxParts        \* bound: parts of a book update

ASSUME UDPEventsAssumption ==
    /\ Kinds \subseteq {"Trades", "Ticker"}
    /\ MaxParts \in Nat \ {0}

VARIABLES
    change_id,  \* the last change id of the exchange
    known,      \* Shared::instruments
    last,       \* last_trades_ and last_ticker_
    handed,     \* history: the book updates given to the sequencers
    published   \* history: the messages dispatched, by kind and instrument

gateway == <<known, last, handed, published>>
vars == <<sent, network, change_id, gateway>>

NotSeen == -1  \* no entry in the cache

Book(d, i, u, p, k) ==
    [kind |-> "Book", datagram |-> d, instrument |-> i,
     update |-> u, part |-> p, of |-> k]
Other(d, kind, i) == [kind |-> kind, datagram |-> d, instrument |-> i]

TypeOK ==
    /\ newest \in 0..Datagrams /\ frame \in 0..newest /\ at \in 0..Len(sent)
    /\ channel.previous \in 0..(SequenceModulus - 1)
    /\ channel.initialized \in BOOLEAN /\ channel.ready \in BOOLEAN
    /\ channel.levels \in Seq([update : 1..MaxSent, part : 1..MaxParts])
    /\ Len(channel.levels) < MaxParts
    /\ known \subseteq Instruments
    /\ last \in [Kinds \X Instruments -> {NotSeen} \cup 0..(SequenceModulus - 1)]

Init ==
    /\ MulticastInit
    /\ change_id = 0
    /\ known = {}
    /\ last = [c \in Kinds \X Instruments |-> NotSeen]
    /\ handed = {}
    /\ published = [c \in Kinds \X Instruments |-> <<>>]

-----------------------------------------------------------------------------
(* The exchange *)

PublishBook(d, i, k) ==
    /\ ~Amid
    /\ Publish(Book(d, i, change_id + 1, 1, k))
    /\ change_id' = change_id + 1
    /\ UNCHANGED gateway

PublishPart(d) ==
    LET book == sent[Len(sent)]
    IN  /\ Amid
        /\ Publish(Book(d, book.instrument, book.update, book.part + 1, book.of))
        /\ UNCHANGED <<change_id, gateway>>

PublishOther(d, kind, i) ==
    /\ ~Amid
    /\ Publish(Other(d, kind, i))
    /\ UNCHANGED <<change_id, gateway>>

-----------------------------------------------------------------------------
(* Instrument messages, of this stream or of the snapshot stream, create   *)
(* the instrument once.                                                    *)
maybe_create_instrument(i) ==
    /\ i \notin known
    /\ known' = known \cup {i}
    /\ UNCHANGED <<sent, network, change_id, last, handed, published>>

Frame(n) == (Skip(n) \/ Receive(n)) /\ UNCHANGED <<change_id, gateway>>

(* Book: the levels of a known instrument are collected until the last     *)
(* part hands them to the sequencer.                                       *)
ReadBook ==
    LET book == sent[at + 1]
        full == Append1(channel, [update |-> book.update, part |-> book.part])
    IN  /\ Dispatching
        /\ book.kind = "Book"
        /\ \/ /\ book.instrument \notin known
              /\ Dispatch(channel)
              /\ UNCHANGED handed
           \/ /\ book.instrument \in known
              /\ book.part < book.of
              /\ Dispatch(full)
              /\ UNCHANGED handed
           \/ /\ book.instrument \in known
              /\ book.part = book.of
              /\ Dispatch(Cleared(full))
              /\ handed' = handed \cup
                    {[instrument |-> book.instrument, update |-> book.update,
                      of |-> book.of, levels |-> full.levels]}
        /\ UNCHANGED <<change_id, known, last, published>>

(* test_sequence: is the number newer than the one in the cache, be it by  *)
(* wrapping around?                                                        *)
Midpoint == SequenceModulus \div 2

test_sequence_or_equal(previous, sequence_number) ==  \* mutant
    \/ previous <= sequence_number
    \/ sequence_number < Midpoint /\ Midpoint < previous

test_sequence(previous, sequence_number) ==
    \/ previous = NotSeen
    \/ previous < sequence_number
    \/ sequence_number < Midpoint /\ Midpoint < previous

(* Trades and Ticker: a message is tested by the number of its datagram,   *)
(* which moves the cache.                                                  *)
ReadOther ==
    LET message  == sent[at + 1]
        cache    == <<message.kind, message.instrument>>
        sequence == SequenceNumber(frame)
        newer    == test_sequence(last[cache], sequence)
    IN  /\ Dispatching
        /\ message.kind \in Kinds
        /\ Dispatch(channel)
        /\ last' = IF newer THEN [last EXCEPT ![cache] = sequence] ELSE last
        /\ published' = IF newer /\ message.instrument \in known
                        THEN [published EXCEPT ![cache] = Append(@, at + 1)]
                        ELSE published
        /\ UNCHANGED <<change_id, known, handed>>

-----------------------------------------------------------------------------
Next ==
    \/ \E d \in Filling :
          \/ \E i \in Instruments :
                \/ \E k \in 1..MaxParts : PublishBook(d, i, k)
                \/ \E kind \in Kinds : PublishOther(d, kind, i)
          \/ PublishPart(d)
    \/ \E i \in Instruments : maybe_create_instrument(i)
    \/ \E n \in 1..Len(sent) : Frame(n)
    \/ ReadBook
    \/ ReadOther

Spec == Init /\ [][Next]_vars

-----------------------------------------------------------------------------
(* Whatever the network does, what the sequencer gets under a change id is *)
(* part of that update only: the tail of its parts, in order and without a *)
(* hole, never levels of two updates or of two instruments.                *)
HandedFromOneUpdate ==
    \A h \in handed : OneUpdate(h.levels, h.update, h.of)

(* Trades and tickers of an instrument are dispatched at most once and in  *)
(* the order of the exchange, though a late datagram moves the channel     *)
(* back and lets the ones after it in again.                               *)
PublishedOnceInOrder ==
    \A c \in Kinds \X Instruments :
        \A a, b \in 1..Len(published[c]) :
            a < b => published[c][a] < published[c][b]

(* "book/snapshot update may span multiple datagrams" (channel.hpp): the   *)
(* sequencer gets all parts of an update that it will apply, because it    *)
(* was given the updates of the instrument before it (prev_change_id fits).*)
HandedComplete ==
    \A h \in handed :
        (\A n \in 1..Len(sent) :
            /\ sent[n].kind = "Book"
            /\ sent[n].instrument = h.instrument /\ sent[n].update < h.update
            => \E g \in handed : g.update = sent[n].update)
        => Len(h.levels) = h.of

(* The assert in Channel::operator(): the first gap of a channel is only   *)
(* taken for its first frame when no frame was seen before.                *)
FirstFrameOnly ==
    [][~channel.initialized /\ channel'.initialized
          => channel.previous = 0]_vars

=============================================================================
