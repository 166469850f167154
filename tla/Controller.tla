----------------------------- MODULE Controller -----------------------------
(***************************************************************************)
(* Which symbols are followed, and by which stream (gateway/controller.cpp *)
(* and gateway/shared.hpp).  Symbols come from a FIX security list, the    *)
(* instruments that REST downloads, and clients; each is taken once, in    *)
(* the order in which they come.  The sequence is cut into slices, each    *)
(* with a MarketData and a WebSocket stream of its own, which subscribes   *)
(* its slice when it gets ready and what is added to it from then on.      *)
(*                                                                         *)
(* core::Symbols is external: called with new symbols it appends them and  *)
(* returns the number of slices and where the new ones start; get_slice is *)
(* the part of a slice from there on.  How a stream gets ready is with     *)
(* MarketData and WebSocket.  Requests of clients that are only routed     *)
(* (orders, control) are left out.                                         *)
(***************************************************************************)
EXTENDS Integers, FiniteSets, FiniteSetsExt, Sequences, SequencesExt

CONSTANTS
    Symbol,            \* the instruments of the exchange
    Discarded,         \* those that dispatcher.discard_symbol refuses
    MaxSubscriptions   \* fix.market_data_max_subscriptions_per_stream, also
                       \* for WebSocket: the flag ws.market_data_max_... is
                       \* not read

ASSUME ControllerAssumption ==
    /\ IsFiniteSet(Symbol)
    /\ Discarded \subseteq Symbol
    /\ MaxSubscriptions \in Nat \ {0}

Kind == {"market_data", "web_socket"}

VARIABLES
    symbols,       \* shared_.symbols; all_symbols has the same elements
    multiplier,    \* symbols with an entry in shared_.multiplier
    top_of_book,   \* symbols in top_of_book_, per WebSocket stream
    streams,       \* market_data_ and web_socket_: ready or not, per stream
    subscribed,    \* what each stream asked for in this session
    listed,        \* history: symbols in a list of the exchange
    unpriced       \* history: listed symbols of which a quote was dropped

controllerVars == <<symbols, multiplier, top_of_book, streams, subscribed,
                    listed, unpriced>>

ControllerTypeOK ==
    /\ symbols \in Seq(Symbol)
    /\ multiplier \subseteq Symbol
    /\ top_of_book \in Seq(SUBSET Symbol)
    /\ streams \in [Kind -> Seq(BOOLEAN)]
    /\ subscribed \in [Kind -> Seq(Seq(Symbol))]
    /\ listed \subseteq Symbol
    /\ unpriced \subseteq Symbol
    /\ \A k \in Kind : Len(subscribed[k]) = Len(streams[k])
    /\ Len(top_of_book) = Len(streams["web_socket"])

(* create_market_data, create_web_socket: the masters exist from the start *)
ControllerInit ==
    /\ symbols = <<>>
    /\ multiplier = {}
    /\ top_of_book = << {} >>
    /\ streams = [k \in Kind |-> <<FALSE>>]
    /\ subscribed = [k \in Kind |-> << <<>> >>]
    /\ listed = {}
    /\ unpriced = {}

-----------------------------------------------------------------------------
(* core::Symbols *)

Slices(syms) == (Len(syms) + MaxSubscriptions - 1) \div MaxSubscriptions

(* The stream, from 1, whose slice has the n-th symbol *)
SliceOf(n) == (n - 1) \div MaxSubscriptions + 1

get_slice(syms, i, start_from) ==
    SubSeq(syms, Max({start_from, (i - 1) * MaxSubscriptions}) + 1,
                 Min({Len(syms), i * MaxSubscriptions}))

-----------------------------------------------------------------------------
(* ensure_symbol_slices *)

SlicesRoundedDown(k, size) == Max({Len(streams[k]), size - 1})  \* mutant
SlicesWithStream(k, size) == Max({Len(streams[k]), size})

StartFromSlice(from) ==  \* mutant: the last slice is subscribed again
    (from \div MaxSubscriptions) * MaxSubscriptions
StartFrom(from) == from

SymbolsUpdate(new) ==
    LET all == symbols \o new
        size(k) == SlicesWithStream(k, Slices(all))
        asks(k, i) == IF i <= Len(streams[k]) /\ streams[k][i]
                      THEN get_slice(all, i, StartFrom(Len(symbols))) ELSE <<>>
        had(k, i) == IF i <= Len(streams[k]) THEN subscribed[k][i] ELSE <<>>
    IN  /\ symbols' = all
        /\ streams' = [k \in Kind |-> [i \in 1..size(k) |->
                          i <= Len(streams[k]) /\ streams[k][i]]]
        /\ subscribed' = [k \in Kind |-> [i \in 1..size(k) |->
                             had(k, i) \o asks(k, i)]]
        /\ top_of_book' = [i \in 1..size("web_socket") |->
                              IF i <= Len(top_of_book) THEN top_of_book[i] ELSE {}]

(* all_symbols.emplace(symbol).second *)
Seen(s) == s \in Range(symbols)
NotSeen(list) == {s \in list : ~Seen(s)}

NotDiscarded(list) == list \ Discarded

MultiplierIfNew(list) == {s \in list : ~Seen(s)}  \* mutant: #157
MultipliersOf(list) == list

-----------------------------------------------------------------------------
(* Where symbols come from.  A list has any order, so all there is to say  *)
(* of it is the set of its symbols, and the order of those that are new.   *)

(* MarketData: a FIX SecurityList.  The multiplier is kept also for what   *)
(* is discarded or already known.                                          *)
SecurityList(list) ==
    /\ multiplier' = multiplier \cup MultipliersOf(list)
    /\ \E new \in SetToSeqs(NotSeen(NotDiscarded(list))) : SymbolsUpdate(new)
    /\ listed' = listed \cup list
    /\ UNCHANGED unpriced

(* Rest: GetInstrumentsAck.  The table of instruments for multicast is     *)
(* with UDPEvents and UDPSnapshot.                                         *)
GetInstrumentsAck(list) ==
    /\ multiplier' = multiplier \cup MultipliersOf(list)
    /\ \E new \in SetToSeqs(NotSeen(NotDiscarded(list))) : SymbolsUpdate(new)
    /\ listed' = listed \cup list
    /\ UNCHANGED unpriced

(* A client: nothing is discarded, there is no multiplier yet, and the     *)
(* update is dispatched even if it is empty.                               *)
Subscribe(list) ==
    /\ \E new \in SetToSeqs(NotSeen(list)) : SymbolsUpdate(new)
    /\ UNCHANGED <<multiplier, listed, unpriced>>

-----------------------------------------------------------------------------
(* The streams *)

StreamReady(k, i) ==
    /\ ~streams[k][i]
    /\ streams' = [streams EXCEPT ![k][i] = TRUE]
    /\ subscribed' = [subscribed EXCEPT ![k][i] = get_slice(symbols, i, 0)]
    /\ UNCHANGED <<symbols, multiplier, top_of_book, listed, unpriced>>

StreamDisconnected(k, i) ==
    /\ streams[k][i]
    /\ streams' = [streams EXCEPT ![k][i] = FALSE]
    /\ subscribed' = [subscribed EXCEPT ![k][i] = <<>>]
    /\ UNCHANGED <<symbols, multiplier, top_of_book, listed, unpriced>>

(* The multiplier is taken at the first quote of a symbol and kept, also   *)
(* over a reconnect.                                                       *)
get_top_of_book(cached, s) == cached \cup ({s} \cap multiplier)

(* WebSocket: a quote (publish_top_of_book_ is set); without a multiplier  *)
(* it is dropped.                                                          *)
Quote(i, s) ==
    /\ streams["web_socket"][i]
    /\ s \in Range(subscribed["web_socket"][i])
    /\ top_of_book' = [top_of_book EXCEPT ![i] = get_top_of_book(@, s)]
    /\ unpriced' = unpriced \cup (({s} \cap listed) \ top_of_book'[i])
    /\ UNCHANGED <<symbols, multiplier, streams, subscribed, listed>>

ControllerNext ==
    \/ \E list \in SUBSET Symbol :
          SecurityList(list) \/ GetInstrumentsAck(list) \/ Subscribe(list)
    \/ \E i \in 1..Len(top_of_book), s \in Symbol : Quote(i, s)
    \/ \E k \in Kind : \E i \in 1..Len(streams[k]) :
          StreamReady(k, i) \/ StreamDisconnected(k, i)

ControllerSpec == ControllerInit /\ [][ControllerNext]_controllerVars

(* A stream that was started comes up in the end. *)
ControllerFairness ==
    \A k \in Kind : \A i \in 1..Cardinality(Symbol) :
        WF_controllerVars(i <= Len(streams[k]) /\ StreamReady(k, i))

ControllerLiveSpec == ControllerSpec /\ ControllerFairness

-----------------------------------------------------------------------------
(* Whatever the sources, the order of their lists and the times at which   *)
(* streams come and go: a stream that is ready has asked for exactly its   *)
(* slice, each symbol once and none of another stream.                     *)
EachSymbolOnce ==
    \A k \in Kind : \A i \in 1..Len(streams[k]) :
        /\ Range(subscribed[k][i]) =
              {symbols[n] : n \in {m \in 1..Len(symbols) :
                                      streams[k][i] /\ SliceOf(m) = i}}
        /\ IsInjective(subscribed[k][i])
        /\ \A j \in (1..Len(streams[k])) \ {i} :
              Range(subscribed[k][j]) \cap Range(subscribed[k][i]) = {}

(* Every symbol that is known ends up with a MarketData and a WebSocket    *)
(* subscription: the streams for a new slice are created, started and      *)
(* subscribe what is already there.                                        *)
EverySymbolFollowed ==
    \A s \in Symbol, k \in Kind :
        (s \in Range(symbols)) ~>
            (\E i \in 1..Len(streams[k]) : s \in Range(subscribed[k][i]))

(* "WS TopOfBook not working if FIX seeing a symbol first" (changelog,     *)
(* #157) is fixed: whichever of FIX, REST and clients saw a symbol first,  *)
(* once it is listed the quotes of the stream that follows it are          *)
(* published, and what was dropped before is not remembered against it.    *)
TopOfBookWorks == unpriced = {}

=============================================================================
