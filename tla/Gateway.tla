------------------------------- MODULE Gateway ------------------------------
(***************************************************************************)
(* The streams of one account put together, as gateway/controller.cpp      *)
(* does: REST downloads currencies and instruments for the master          *)
(* WebSocket stream, new currencies reach the drop copy, new symbols the   *)
(* WebSocket streams, and a WebSocket stream that is ready latches the     *)
(* drop copy.  Each step is one handler of one stream with everything it   *)
(* calls on the others.                                                    *)
(***************************************************************************)
EXTENDS Rest, WebSocket, DropCopy

VARIABLES
    all_currencies,   \* shared_.all_currencies
    answered          \* history: downloads answered since the master logged in

gatewayVars == <<restVars, wsVars, dcVars, all_currencies, answered>>

SymbolsKnown == Range(symbols)   \* shared_.all_symbols

GatewayTypeOK ==
    /\ RestTypeOK
    /\ WebSocketTypeOK(Symbol)
    /\ DropCopyTypeOK
    /\ all_currencies \subseteq Currency
    /\ answered \subseteq Downloads

GatewayInit ==
    /\ RestInit
    /\ WebSocketInit
    /\ DropCopyInit
    /\ all_currencies = {}
    /\ answered = {}

(* The process has not ended: a login refused for good (drop copy) or a    *)
(* redirection (REST).                                                     *)
Running == dc_conn # "terminated" /\ rest_status # "TERMINATED"

-----------------------------------------------------------------------------
(* REST *)

RestStep ==
    /\ Running
    /\ \/ RestConnected \/ RestDisconnected \/ RestTimer
       \/ \E s \in Symbol : ChartDataAck(s)
       \/ RestRedirected
    /\ UNCHANGED <<wsVars, dcVars, all_currencies, answered>>

(* A failed download leaves nothing behind but is answered all the same. *)
DownloadFails ==
    /\ Running
    /\ \E x \in Downloads :
          /\ RestError(x) \/ RestNetworkError(x)
          /\ answered' = answered \cup {x}
    /\ UNCHANGED <<wsVars, dcVars, all_currencies>>

NewCurrencies(S) == S \ all_currencies

(* GetCurrenciesAck: only new currencies are passed on. *)
GetCurrenciesAck(S) ==
    /\ Running
    /\ RestSuccess("currencies")
    /\ all_currencies' = all_currencies \cup S
    /\ IF NewCurrencies(S) = {} THEN UNCHANGED dcVars
                                ELSE CurrenciesUpdate(NewCurrencies(S))
    /\ answered' = answered \cup {"currencies"}
    /\ UNCHANGED <<wsVars, time_series>>

(* The symbols of S that are new, in some order *)
NewSymbols(S) == SetToSeq(S \ SymbolsKnown)

(* subscribe_chart_trades: the streams that subscribed their slice ask     *)
(* for its history too.                                                    *)
ChartsOf(subscribed) ==
    IF TimeSeries THEN {symbols'[i] : i \in subscribed} ELSE {}

SymbolsUpdate(S) ==
    /\ WebSocketSymbols(NewSymbols(S))
    /\ time_series' = time_series \cup
          ChartsOf({i \in Index : ws_asked'[i] # ws_asked[i]})

(* GetInstrumentsAck: only new symbols are passed on.  (Multipliers are    *)
(* with Controller.)                                                       *)
GetInstrumentsAck(S) ==
    /\ Running
    /\ RestSuccess("instruments")
    /\ SymbolsUpdate(S)
    /\ answered' = answered \cup {"instruments"}
    /\ UNCHANGED <<dcVars, all_currencies>>

-----------------------------------------------------------------------------
(* Symbols from elsewhere *)

(* MarketData: a FIX SecurityList; Controller: a client subscribes *)
SymbolsElsewhere(S) ==
    /\ Running
    /\ SymbolsUpdate(S)
    /\ UNCHANGED <<rest_status, request, charting, suspend_until, blocked, dcVars,
                   all_currencies, answered>>

-----------------------------------------------------------------------------
(* WebSocket *)

WebSocketStep ==
    /\ Running
    /\ \E i \in Index :
          \/ WebSocketReady(i) \/ WebSocketDisconnected(i)
          \/ \E n \in 1..Len(ws_queue[i]) : WebSocketTimer(i, n)
    /\ UNCHANGED <<restVars, dcVars, all_currencies, answered>>

download_forgets(x) == UNCHANGED restVars  \* mutant: nobody asks
download(x) ==
    /\ request' = Requested(request, x)
    /\ UNCHANGED <<rest_status, time_series, charting, suspend_until, blocked>>

(* The master logs in: download_currencies *)
MasterAuth ==
    /\ Running
    /\ AuthMaster(1)
    /\ download("currencies")
    /\ answered' = {}
    /\ UNCHANGED <<dcVars, all_currencies>>

(* The currencies were answered: download_instruments *)
MasterCurrencies ==
    /\ Running
    /\ has_response("currencies")
    /\ check_currencies(1)
    /\ download("instruments")
    /\ UNCHANGED <<dcVars, all_currencies, answered>>

(* A stream is done: its subscriptions, the chart data of its slice, and   *)
(* the latch.                                                              *)
charts(i) ==
    /\ time_series' = time_series \cup
          ChartsOf({i} \cap {j \in Index : has_slice(j, symbols)})
    /\ UNCHANGED <<rest_status, request, charting, suspend_until, blocked>>

MasterInstruments ==
    /\ Running
    /\ has_response("instruments")
    /\ check_instruments(1)
    /\ charts(1)
    /\ Latch
    /\ UNCHANGED <<all_currencies, answered>>

SlaveAuth(i) ==
    /\ Running
    /\ AuthSlave(i)
    /\ charts(i)
    /\ Latch
    /\ UNCHANGED <<all_currencies, answered>>

-----------------------------------------------------------------------------
(* Drop copy *)
DropCopyOnly ==
    /\ rest_status # "TERMINATED"
    /\ DropCopyStep
    /\ UNCHANGED <<restVars, wsVars, all_currencies, answered>>

Ended ==
    /\ RestTerminated
    /\ UNCHANGED <<wsVars, dcVars, all_currencies, answered>>

GatewayNext ==
    \/ RestStep \/ DownloadFails
    \/ \E S \in SUBSET Currency : GetCurrenciesAck(S)
    \/ \E S \in SUBSET Symbol :
          GetInstrumentsAck(S) \/ SymbolsElsewhere(S)
    \/ WebSocketStep
    \/ MasterAuth \/ MasterCurrencies \/ MasterInstruments
    \/ \E i \in Index : SlaveAuth(i)
    \/ DropCopyOnly
    \/ Ended

GatewaySpec == GatewayInit /\ [][GatewayNext]_gatewayVars

(* The timer runs: the master looks for responses, queues are sent. *)
GatewayFairness ==
    /\ WF_gatewayVars(MasterCurrencies)
    /\ WF_gatewayVars(MasterInstruments)
    /\ \A i \in Index : WF_gatewayVars(
          /\ Running
          /\ \E n \in 1..Len(ws_queue[i]) : WebSocketTimer(i, n)
          /\ UNCHANGED <<restVars, dcVars, all_currencies, answered>>)

(* REST, even if it keeps losing the connection, gets a request out in the *)
(* end.                                                                    *)
Sends(x) ==
    /\ RestStep
    /\ request[x] = "pending" /\ request'[x] = "sent"

(* The exchange answers logins and HTTP requests. *)
ExchangeFairness ==
    /\ WF_gatewayVars(MasterAuth)
    /\ \A i \in Index : WF_gatewayVars(SlaveAuth(i))
    /\ \A x \in Downloads : SF_gatewayVars(Sends(x))
    /\ WF_gatewayVars(DownloadFails \/ \E S \in SUBSET Currency : GetCurrenciesAck(S))
    /\ WF_gatewayVars(DownloadFails \/ \E S \in SUBSET Symbol : GetInstrumentsAck(S))

GatewayLiveSpec == GatewaySpec /\ GatewayFairness

-----------------------------------------------------------------------------
(* The master only says READY, subscribes and latches the drop copy after  *)
(* both downloads were answered since it logged in, with success or not: a *)
(* response that came before does not count.  (The HTTP request may be the *)
(* earlier session's: one that is out when the master logs in is not sent  *)
(* again, and its response is taken.)                                      *)
MasterWaitsForDownloads == ws_ready[1] => answered = Downloads

(* With an exchange that answers, every symbol is followed in the end: its *)
(* stream comes up, through the downloads if it is the master, and sends   *)
(* the subscription, or it loses its connection.  No interleaving of a     *)
(* reconnect with a download in progress leaves the master waiting for a   *)
(* response that nobody asks for.                                          *)
SymbolsFollowed ==
    ExchangeFairness =>
        \A i \in Index :
            (ws_conn[i] = "up" /\ has_slice(i, symbols))
                ~> ("TICKER" \in served[i] \/ ws_conn[i] # "up" \/ ~Running)

(* What clients are shown of each WebSocket stream is what every stream    *)
(* promises.                                                               *)
WebSocketStream(i) == INSTANCE Stream WITH
    link    <- ws_conn[i],
    status  <- ws_status[i],
    session <- ws_session[i]

WebSocketIsStream ==
    /\ \A i \in Index : WebSocketStream(i)!Init
    /\ [][\A i \in Index :
            WebSocketStream(i)!Next \/ UNCHANGED WebSocketStream(i)!vars]_wsVars

=============================================================================
