------------------------------ MODULE WebSocket -----------------------------
(***************************************************************************)
(* The WebSocket market data streams (gateway/web_socket.cpp).  Each logs  *)
(* in, queues the subscriptions of its slice of the symbols and lets the   *)
(* timer send them; the master, stream 1, first waits for the currencies   *)
(* and the instruments, which the REST stream downloads for it.            *)
(*                                                                         *)
(* A slice has one symbol, so stream i has the i-th symbol and exists once *)
(* there are i symbols (Controller has slices of any size).  An error in   *)
(* the answer to the login is only logged, so the answer is one action.    *)
(***************************************************************************)
EXTENDS Integers, FiniteSets, Sequences, SequencesExt

CONSTANTS
    Streams,        \* number of streams considered
    DisableQuote,   \* ws.disable_quote
    TimeSeries,     \* download.time_series_lookback is set
    PartialQueue    \* the rate limiter may let a part of a queue through

ASSUME WebSocketAssumption ==
    /\ Streams \in Nat \ {0}
    /\ DisableQuote \in BOOLEAN
    /\ TimeSeries \in BOOLEAN
    /\ PartialQueue \in BOOLEAN

VARIABLES
    ws_conn,       \* the web socket
    ws_status,     \* connection_status_
    ws_ready,      \* ready_
    ws_state,      \* download_.state()
    ws_queue,      \* subscribe_queue_
    ws_session,    \* whether the login was answered
    symbols,       \* shared_.symbols
    served,        \* what the exchange was asked for, per stream
    ws_asked       \* history: subscriptions queued this session

wsVars == <<ws_conn, ws_status, ws_ready, ws_state, ws_queue, ws_session,
            symbols, served, ws_asked>>

Index == 1..Streams
master(i) == i = 1

PerSymbol == {"QUOTE", "TICKER", "CHART_TRADES"}

WebSocketTypeOK(S) ==
    /\ ws_conn \in [Index -> {"down", "up"}]
    /\ ws_status \in [Index -> {"UNDEFINED", "DISCONNECTED", "LOGIN_SENT",
                                "DOWNLOADING", "READY"}]
    /\ ws_ready \in [Index -> BOOLEAN]
    /\ ws_state \in [Index -> {"UNDEFINED", "CURRENCIES", "INSTRUMENTS", "DONE"}]
    /\ ws_queue \in [Index -> Seq(PerSymbol \cup
                                  {"PLATFORM_STATE", "INSTRUMENT_STATE"})]
    /\ ws_session \in [Index -> {"none", "open"}]
    /\ symbols \in Seq(S)
    /\ served \in [Index -> SUBSET (PerSymbol \cup
                                    {"PLATFORM_STATE", "INSTRUMENT_STATE"})]
    /\ ws_asked \in [Index -> Nat]

WebSocketInit ==
    /\ ws_conn = [i \in Index |-> "down"]
    /\ ws_status = [i \in Index |-> "UNDEFINED"]
    /\ ws_ready = [i \in Index |-> FALSE]
    /\ ws_state = [i \in Index |-> "UNDEFINED"]
    /\ ws_queue = [i \in Index |-> <<>>]
    /\ ws_session = [i \in Index |-> "none"]
    /\ symbols = <<>>
    /\ served = [i \in Index |-> {}]
    /\ ws_asked = [i \in Index |-> 0]

-----------------------------------------------------------------------------
(* subscribe(symbols): the requests for a slice that is not empty *)
subscribe ==
    (IF DisableQuote THEN <<>> ELSE <<"QUOTE">>) \o <<"TICKER">>
        \o (IF TimeSeries THEN <<"CHART_TRADES">> ELSE <<>>)

(* subscribe_platform_state, subscribe_instrument_state: the master only *)
subscribe_state(i) ==
    IF master(i) THEN <<"PLATFORM_STATE", "INSTRUMENT_STATE">> ELSE <<>>

has_slice(i, syms) == i <= Len(syms)

created(i) == master(i) \/ has_slice(i, symbols)

-----------------------------------------------------------------------------
(* web::socket::Client *)

WebSocketLoginSent(i) == ws_status' = [ws_status EXCEPT ![i] = "LOGIN_SENT"]

WebSocketReady(i) ==
    /\ created(i)
    /\ ws_conn[i] = "down"
    /\ ws_conn' = [ws_conn EXCEPT ![i] = "up"]
    /\ WebSocketLoginSent(i)
    /\ UNCHANGED <<ws_ready, ws_state, ws_queue, ws_session, symbols, served,
                   ws_asked>>

WebSocketQueueCleared(i) == ws_queue' = [ws_queue EXCEPT ![i] = <<>>]

WebSocketDownloadKept(i) == UNCHANGED ws_state  \* mutant
WebSocketDownloadReset(i) == ws_state' = [ws_state EXCEPT ![i] = "UNDEFINED"]

WebSocketDisconnected(i) ==
    /\ ws_conn[i] = "up"
    /\ ws_conn' = [ws_conn EXCEPT ![i] = "down"]
    /\ ws_ready' = [ws_ready EXCEPT ![i] = FALSE]
    /\ ws_status' = [ws_status EXCEPT ![i] = "DISCONNECTED"]
    /\ WebSocketDownloadReset(i)
    /\ WebSocketQueueCleared(i)
    /\ ws_session' = [ws_session EXCEPT ![i] = "none"]
    /\ served' = [served EXCEPT ![i] = {}]
    /\ ws_asked' = [ws_asked EXCEPT ![i] = 0]
    /\ UNCHANGED symbols

(* Timer of a ready stream: requests go out as the rate limiter allows *)
WebSocketTimer(i, n) ==
    /\ ws_conn[i] = "up"
    /\ ws_ready[i]
    /\ n \in 1..Len(ws_queue[i])
    /\ n = Len(ws_queue[i]) \/ PartialQueue
    /\ served' = [served EXCEPT ![i] =
                    @ \cup Range(SubSeq(ws_queue[i], 1, n))]
    /\ ws_queue' = [ws_queue EXCEPT ![i] = SubSeq(@, n + 1, Len(@))]
    /\ UNCHANGED <<ws_conn, ws_status, ws_ready, ws_state, ws_session, symbols,
                   ws_asked>>

-----------------------------------------------------------------------------
(* download() *)

(* CURRENCIES, INSTRUMENTS: the master waits for the REST stream. *)
download_waits(i, state) ==
    /\ ws_state' = [ws_state EXCEPT ![i] = state]
    /\ ws_status' = [ws_status EXCEPT ![i] = "DOWNLOADING"]
    /\ UNCHANGED <<ws_conn, ws_ready, ws_queue, symbols, served, ws_asked>>

(* SUBSCRIBE and DONE: neither waits, so both are entered in one step.     *)
(* The latch of DONE is with the caller (Gateway).                         *)
download_done(i) ==
    /\ ws_state' = [ws_state EXCEPT ![i] = "DONE"]
    /\ ws_ready' = [ws_ready EXCEPT ![i] = TRUE]
    /\ ws_status' = [ws_status EXCEPT ![i] = "READY"]
    /\ ws_queue' = [ws_queue EXCEPT ![i] = @ \o subscribe_state(i)
          \o (IF has_slice(i, symbols) THEN subscribe ELSE <<>>)]
    /\ ws_asked' = [ws_asked EXCEPT ![i] =
                      IF has_slice(i, symbols) THEN @ + 1 ELSE @]
    /\ UNCHANGED <<ws_conn, symbols, served>>

Answered(i) ==
    /\ ws_conn[i] = "up"
    /\ ws_status[i] = "LOGIN_SENT"
    /\ ws_session[i] = "none"
    /\ ws_session' = [ws_session EXCEPT ![i] = "open"]

(* Auth, on the master *)
AuthMaster(i) ==
    /\ master(i)
    /\ Answered(i)
    /\ download_waits(i, "CURRENCIES")

(* Auth, on any other stream *)
AuthSlave(i) ==
    /\ ~master(i)
    /\ Answered(i)
    /\ download_done(i)

(* Timer of the master: check_currencies *)
check_currencies(i) ==
    /\ ws_conn[i] = "up"
    /\ ws_state[i] = "CURRENCIES"
    /\ download_waits(i, "INSTRUMENTS")
    /\ UNCHANGED ws_session

(* Timer of the master: check_instruments *)
check_instruments(i) ==
    /\ ws_conn[i] = "up"
    /\ ws_state[i] = "INSTRUMENTS"
    /\ download_done(i)
    /\ UNCHANGED ws_session

-----------------------------------------------------------------------------
(* Controller(SymbolsUpdate): the slices that are new are subscribed on    *)
(* the streams that are ready.                                             *)
SubscribeAll(i, old) == has_slice(i, symbols')  \* mutant: start_from is 0
SubscribeFrom(i, old) == has_slice(i, symbols') /\ ~has_slice(i, old)

WebSocketSymbols(new) ==
    /\ symbols' = symbols \o new
    /\ LET asks(i) == ws_ready[i] /\ SubscribeFrom(i, symbols) IN
       /\ ws_queue' = [i \in Index |-> IF asks(i) THEN ws_queue[i] \o subscribe
                                       ELSE ws_queue[i]]
       /\ ws_asked' = [i \in Index |-> IF asks(i) THEN ws_asked[i] + 1
                                       ELSE ws_asked[i]]
    /\ UNCHANGED <<ws_conn, ws_status, ws_ready, ws_state, ws_session, served>>

-----------------------------------------------------------------------------
(* However logins, downloads and new symbols interleave, a stream that is  *)
(* ready has subscribed its slice exactly once in this session, and has    *)
(* nothing queued from another session.                                    *)
SliceAskedOnce ==
    \A i \in Index :
        /\ ws_asked[i] = IF ws_ready[i] /\ has_slice(i, symbols) THEN 1 ELSE 0
        /\ \A j \in 1..Len(ws_queue[i]) : ws_queue[i][j] \notin served[i]
        /\ ws_queue[i] # <<>> => ws_ready[i]

=============================================================================
