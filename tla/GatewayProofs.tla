--------------------------- MODULE GatewayProofs ----------------------------
(***************************************************************************)
(* Gateway for any number of streams, symbols and currencies: the master   *)
(* waits for its downloads, each stream subscribes its slice once, and the *)
(* components keep their promises when the others act as they really do.   *)
(* First Rest by itself, for every value of its constants: types, and that *)
(* a block of the exchange is kept for its whole period.                   *)
(***************************************************************************)
EXTENDS Gateway, DropCopyProofs

-----------------------------------------------------------------------------
(* Rest and its throttle *)

(* The throttle works with the later of two times. *)
LEMMA MaxOfTwo ==
    ASSUME NEW a \in Int, NEW b \in Int
    PROVE  /\ Max({a, b}) \in {a, b}
           /\ Max({a, b}) >= a
           /\ Max({a, b}) >= b
<1>1. \E x \in {a, b} : \A y \in {a, b} : x >= y
  <2>1. CASE a >= b
    BY <2>1
  <2>2. CASE b >= a
    BY <2>2
  <2>3. QED
    BY <2>1, <2>2
<1>2. Max({a, b}) = CHOOSE x \in {a, b} : \A y \in {a, b} : x >= y
  BY DEF Max
<1>3. QED
  BY <1>1, <1>2

(* Times of a throttle: never, or a countdown. *)
Times == {Never} \cup Nat

LEMMA RetryHeaderDelays ==
    ASSUME NEW until \in Times, NEW retry \in RetryAfter \cup {Never}
    PROVE  /\ RetryHeader(until, retry) \in Times
           /\ RetryHeader(until, retry) >= until
<1>1. CASE retry = Never
  BY <1>1 DEF RetryHeader, Times, Never
<1>2. CASE retry # Never
  <2> DEFINE period == IF retry > 0 THEN retry ELSE DefaultBackoff
  <2>1. period \in Nat
    BY <1>2, RestAssumption
  <2>2. until \in Int /\ period \in Int
    BY <2>1 DEF Times, Never
  <2> HIDE DEF period
  <2>3. /\ Max({until, period}) \in {until, period}
        /\ Max({until, period}) >= until
    BY <2>2, MaxOfTwo, Zenon
  <2>4. RetryHeader(until, retry) = Max({until, period})
    BY <1>2 DEF RetryHeader, period
  <2>5. QED
    BY <2>1, <2>3, <2>4 DEF Times
<1>3. QED
  BY <1>1, <1>2

LEMMA ForbiddenDelays ==
    ASSUME NEW until \in Times
    PROVE  /\ Forbidden(until) \in Times
           /\ Forbidden(until) >= until
           /\ Forbidden(until) >= BlockedBackoff
<1>1. until \in Int /\ BlockedBackoff \in Int
  BY RestAssumption DEF Times, Never
<1>2. /\ Max({until, BlockedBackoff}) \in {until, BlockedBackoff}
      /\ Max({until, BlockedBackoff}) >= until
      /\ Max({until, BlockedBackoff}) >= BlockedBackoff
  BY <1>1, MaxOfTwo, Zenon
<1>3. QED
  BY <1>2, RestAssumption DEF Forbidden, Times

LEMMA TooManyRequestsDelays ==
    ASSUME NEW until \in Times
    PROVE  /\ TooManyRequests(until) \in Times
           /\ TooManyRequests(until) >= until
  BY RestAssumption DEF TooManyRequests, Times, Never

-----------------------------------------------------------------------------
ThrottleInv ==
    /\ suspend_until \in Times
    /\ blocked \in 0..BlockedBackoff
    /\ BlockHolds

LEMMA ThrottleKeepsBlock ==
    ASSUME ThrottleInv,
           NEW http \in {"OK", "FORBIDDEN", "TOO_MANY_REQUESTS", "OTHER"},
           NEW retry \in RetryAfter \cup {Never},
           Throttle(http, retry)
    PROVE  ThrottleInv'
<1> DEFINE until == RetryHeader(suspend_until, retry)
<1>1. until \in Times /\ until >= suspend_until
  BY RetryHeaderDelays DEF ThrottleInv
<1>2. CASE ~EnableRateLimit
  <2>1. suspend_until' = suspend_until /\ blocked' \in {blocked, BlockedBackoff}
    BY <1>2 DEF Throttle
  <2>2. QED
    BY <1>2, <2>1, RestAssumption DEF ThrottleInv, BlockHolds
<1>3. CASE EnableRateLimit /\ http = "FORBIDDEN"
  <2>1. suspend_until' = Forbidden(until) /\ blocked' = BlockedBackoff
    BY <1>3 DEF Throttle
  <2>2. Forbidden(until) \in Times /\ Forbidden(until) >= BlockedBackoff
    BY <1>1, ForbiddenDelays
  <2>3. QED
    BY <2>1, <2>2, RestAssumption DEF ThrottleInv, BlockHolds
<1>4. CASE EnableRateLimit /\ http # "FORBIDDEN"
  <2>1. blocked' = blocked
    BY <1>4 DEF Throttle
  <2>2. suspend_until' \in Times /\ suspend_until' >= until
    <3>1. CASE http = "TOO_MANY_REQUESTS"
      BY <1>1, <1>4, <3>1, TooManyRequestsDelays DEF Throttle
    <3>2. CASE http # "TOO_MANY_REQUESTS"
      BY <1>1, <1>4, <3>2 DEF Throttle, Times, Never
    <3>3. QED
      BY <3>1, <3>2
  <2>3. QED
    BY <1>1, <1>4, <2>1, <2>2, RestAssumption
       DEF ThrottleInv, BlockHolds, Times, Never
<1>5. QED
  BY <1>2, <1>3, <1>4, RestAssumption

-----------------------------------------------------------------------------
(* The downloads go through the states of core::limit::Request. *)
RequestsOK ==
    /\ rest_status \in {"UNDEFINED", "DISCONNECTED", "READY", "TERMINATED"}
    /\ request \in [Downloads -> {"idle", "pending", "sent", "done"}]
    /\ time_series \subseteq Symbol /\ charting \subseteq Symbol

RestInv == RequestsOK /\ ThrottleInv

LEMMA CheckDownloadTyped ==
    ASSUME NEW r \in [Downloads -> {"idle", "pending", "sent", "done"}],
           NEW s \in check_download(r)
    PROVE  s \in [Downloads -> {"idle", "pending", "sent", "done"}]
  BY DEF check_download, get_currencies, get_instruments, Downloads

LEMMA RequestsStep ==
    RequestsOK /\ [RestNext]_restVars => RequestsOK'
<1> SUFFICES ASSUME RequestsOK, [RestNext]_restVars
             PROVE  RequestsOK'
  OBVIOUS
<1> USE DEF RequestsOK
<1>1. CASE RestConnected
  BY <1>1, CheckDownloadTyped DEF RestConnected
<1>2. CASE RestDisconnected
  BY <1>2 DEF RestDisconnected
<1>3. CASE RestTimer
  BY <1>3, CheckDownloadTyped DEF RestTimer, get_chart_data
<1>4. ASSUME NEW x \in Downloads,
             \/ RestSuccess(x) /\ UNCHANGED time_series
             \/ RestError(x) \/ RestNetworkError(x)
      PROVE  RequestsOK'
  BY <1>4 DEF RestSuccess, RestError, RestNetworkError, commit
<1>5. ASSUME NEW x \in Downloads, AskDownload(x)
      PROVE  RequestsOK'
  BY <1>5 DEF AskDownload, Requested
<1>6. ASSUME NEW s \in Symbol, ChartDataAck(s) \/ AskChart(s)
      PROVE  RequestsOK'
  BY <1>6 DEF ChartDataAck, AskChart
<1>7. CASE RestRedirected \/ RestTerminated \/ UNCHANGED restVars
  BY <1>7 DEF RestRedirected, RestTerminated, restVars
<1>8. QED
  BY <1>1, <1>2, <1>3, <1>4, <1>5, <1>6, <1>7 DEF RestNext

LEMMA ThrottleStep ==
    ThrottleInv /\ [RestNext]_restVars => ThrottleInv'
<1> SUFFICES ASSUME ThrottleInv, [RestNext]_restVars
             PROVE  ThrottleInv'
  OBVIOUS
<1>1. CASE UNCHANGED <<suspend_until, blocked>>
  BY <1>1 DEF ThrottleInv, BlockHolds
<1>2. CASE RestTimer
  <2>1. /\ suspend_until' = LessTime(suspend_until)
        /\ blocked' = LessTime(blocked)
    BY <1>2 DEF RestTimer
  <2>2. QED
    BY <2>1, RestAssumption DEF ThrottleInv, BlockHolds, LessTime, Times, Never
<1>3. ASSUME NEW http \in {"OK", "FORBIDDEN", "TOO_MANY_REQUESTS", "OTHER"},
             NEW retry \in RetryAfter \cup {Never}, Throttle(http, retry)
      PROVE  ThrottleInv'
  BY <1>3, ThrottleKeepsBlock
<1>4. ASSUME NEW x \in Downloads, RestSuccess(x) \/ RestError(x)
      PROVE  ThrottleInv'
  BY <1>3, <1>4 DEF RestSuccess, RestError
<1>5. ASSUME NEW s \in Symbol, ChartDataAck(s)
      PROVE  ThrottleInv'
  BY <1>1, <1>3, <1>5 DEF ChartDataAck
<1>6. CASE \/ RestConnected \/ RestDisconnected
           \/ RestRedirected \/ RestTerminated \/ UNCHANGED restVars
  BY <1>1, <1>6 DEF RestConnected, RestDisconnected, RestRedirected,
                    RestTerminated, restVars
<1>7. ASSUME NEW x \in Downloads, RestNetworkError(x) \/ AskDownload(x)
      PROVE  ThrottleInv'
  BY <1>1, <1>7 DEF RestNetworkError, AskDownload
<1>8. ASSUME NEW s \in Symbol, AskChart(s)
      PROVE  ThrottleInv'
  BY <1>1, <1>8 DEF AskChart
<1>9. QED
  BY <1>2, <1>4, <1>5, <1>6, <1>7, <1>8 DEF RestNext

LEMMA RestInvariant == RestSpec => []RestInv
<1>1. RestInit => RestInv
  <2>1. RestInit => RequestsOK
    BY DEF RestInit, RequestsOK
  <2>2. RestInit => ThrottleInv
    BY RestAssumption DEF RestInit, ThrottleInv, BlockHolds, Times
  <2>3. QED
    BY <2>1, <2>2 DEF RestInv
<1>2. RestInv /\ [RestNext]_restVars => RestInv'
  BY RequestsStep, ThrottleStep DEF RestInv
<1>3. QED
  BY <1>1, <1>2, PTL DEF RestSpec

(* Type correctness of the REST stream, its downloads and the throttle. *)
THEOREM RestTypeCorrect == RestSpec => []RestTypeOK
<1>1. RestInv => RestTypeOK
  BY DEF RestInv, RequestsOK, ThrottleInv, RestTypeOK, Times
<1>2. QED
  BY <1>1, RestInvariant, PTL

(* A 403 blocks for the whole of its period, for all back-off periods and  *)
(* Retry-After headers: no other response shortens suspend_until_.         *)
THEOREM BlocksHold == RestSpec => []BlockHolds
<1>1. RestInv => BlockHolds
  BY DEF RestInv, ThrottleInv
<1>2. QED
  BY <1>1, RestInvariant, PTL

-----------------------------------------------------------------------------
(* The gateway *)

(* One stream: what it shows follows the login, and the stages of the      *)
(* download exclude each other.                                            *)
StageInv ==
    /\ ws_conn \in [Index -> {"down", "up"}]
    /\ ws_status \in [Index -> {"UNDEFINED", "DISCONNECTED", "LOGIN_SENT",
                                "DOWNLOADING", "READY"}]
    /\ ws_ready \in [Index -> BOOLEAN]
    /\ ws_state \in [Index -> {"UNDEFINED", "CURRENCIES", "INSTRUMENTS", "DONE"}]
    /\ ws_session \in [Index -> {"none", "open"}]
    /\ \A i \in Index :
          /\ ws_session[i] = "open" => ws_conn[i] = "up"
          /\ ws_ready[i] => ws_session[i] = "open" /\ ws_state[i] = "DONE"
          /\ ws_state[i] \in {"CURRENCIES", "INSTRUMENTS"} =>
                ws_session[i] = "open" /\ ws_status[i] = "DOWNLOADING"

(* The steps of the streams, without what they do to the others *)
StageStep ==
    \/ \E i \in Index :
          \/ WebSocketReady(i) \/ WebSocketDisconnected(i)
          \/ AuthMaster(i) \/ AuthSlave(i)
          \/ check_currencies(i) \/ check_instruments(i)
    \/ UNCHANGED <<ws_conn, ws_status, ws_ready, ws_state, ws_session>>

LEMMA MasterIndex == 1 \in Index
  BY WebSocketAssumption DEF Index

LEMMA NextIsStageStep == [GatewayNext]_gatewayVars => StageStep
<1> SUFFICES ASSUME [GatewayNext]_gatewayVars
             PROVE  StageStep
  OBVIOUS
<1>1. CASE WebSocketStep
  BY <1>1 DEF WebSocketStep, WebSocketTimer, StageStep
<1>2. CASE MasterAuth \/ MasterCurrencies \/ MasterInstruments
  BY <1>2, MasterIndex
     DEF MasterAuth, MasterCurrencies, MasterInstruments, StageStep
<1>3. ASSUME NEW i \in Index, SlaveAuth(i)
      PROVE  StageStep
  BY <1>3 DEF SlaveAuth, StageStep
<1>4. ASSUME NEW S, GetInstrumentsAck(S) \/ SymbolsElsewhere(S)
      PROVE  StageStep
  BY <1>4 DEF GetInstrumentsAck, SymbolsElsewhere, SymbolsUpdate,
              WebSocketSymbols, StageStep
<1>5. ASSUME NEW S, GetCurrenciesAck(S)
      PROVE  StageStep
  BY <1>5 DEF GetCurrenciesAck, wsVars, StageStep
<1>6. CASE \/ RestStep \/ DownloadFails \/ DropCopyOnly \/ Ended
           \/ UNCHANGED gatewayVars
  BY <1>6 DEF RestStep, DownloadFails, DropCopyOnly, Ended, gatewayVars, wsVars,
              StageStep
<1>7. QED
  BY <1>1, <1>2, <1>3, <1>4, <1>5, <1>6 DEF GatewayNext

LEMMA StageInvStep == StageInv /\ StageStep => StageInv'
<1> SUFFICES ASSUME StageInv, StageStep
             PROVE  StageInv'
  OBVIOUS
<1>1. ASSUME NEW i \in Index, WebSocketReady(i)
      PROVE  StageInv'
  BY <1>1 DEF WebSocketReady, WebSocketLoginSent, StageInv
<1>2. ASSUME NEW i \in Index, WebSocketDisconnected(i)
      PROVE  StageInv'
  BY <1>2 DEF WebSocketDisconnected, WebSocketDownloadReset, StageInv
<1>3. ASSUME NEW i \in Index, AuthMaster(i)
      PROVE  StageInv'
  BY <1>3 DEF AuthMaster, Answered, download_waits, StageInv
<1>4. ASSUME NEW i \in Index, AuthSlave(i)
      PROVE  StageInv'
  BY <1>4 DEF AuthSlave, Answered, download_done, StageInv
<1>5. ASSUME NEW i \in Index, check_currencies(i)
      PROVE  StageInv'
  BY <1>5 DEF check_currencies, download_waits, StageInv
<1>6. ASSUME NEW i \in Index, check_instruments(i)
      PROVE  StageInv'
  BY <1>6 DEF check_instruments, download_done, StageInv
<1>7. CASE UNCHANGED <<ws_conn, ws_status, ws_ready, ws_state, ws_session>>
  BY <1>7 DEF StageInv
<1>8. QED
  BY <1>1, <1>2, <1>3, <1>4, <1>5, <1>6, <1>7 DEF StageStep

LEMMA StageInvariant == GatewaySpec => []StageInv
<1>1. GatewayInit => StageInv
  BY DEF GatewayInit, WebSocketInit, StageInv
<1>2. QED
  BY <1>1, NextIsStageStep, StageInvStep, PTL DEF GatewaySpec

-----------------------------------------------------------------------------
(* The master and its downloads *)

(* A response the master finds in the stage it is in was given since it    *)
(* logged in.                                                              *)
MasterInv ==
    /\ request \in [Downloads -> {"idle", "pending", "sent", "done"}]
    /\ answered \subseteq Downloads
    /\ ws_state[1] = "CURRENCIES" /\ request["currencies"] = "done" =>
          "currencies" \in answered
    /\ ws_state[1] = "INSTRUMENTS" =>
          /\ "currencies" \in answered
          /\ request["instruments"] = "done" => "instruments" \in answered
    /\ MasterWaitsForDownloads

(* Only a response makes a download done. *)
LEMMA CheckDownloadAnswersNone ==
    ASSUME NEW r \in [Downloads -> {"idle", "pending", "sent", "done"}],
           NEW s \in check_download(r)
    PROVE  /\ s \in [Downloads -> {"idle", "pending", "sent", "done"}]
           /\ \A x \in Downloads : s[x] = "done" => r[x] = "done"
  BY DEF check_download, get_currencies, get_instruments, Downloads

LEMMA MasterInvStep ==
    StageInv /\ MasterInv /\ [GatewayNext]_gatewayVars => MasterInv'
<1> SUFFICES ASSUME StageInv, MasterInv, [GatewayNext]_gatewayVars
             PROVE  MasterInv'
  OBVIOUS
<1> USE DEF MasterInv, MasterWaitsForDownloads
<1>1. ASSUME UNCHANGED <<ws_ready, ws_state>>, answered \subseteq answered',
             answered' \subseteq Downloads,
             request' \in [Downloads -> {"idle", "pending", "sent", "done"}],
             \A x \in Downloads :
                 request'[x] = "done" => request[x] = "done" \/ x \in answered'
      PROVE  MasterInv'
  BY <1>1 DEF Downloads
<1>2. CASE RestStep
  <2>1. /\ UNCHANGED <<ws_ready, ws_state, answered>>
        /\ request' \in check_download(request) \/ UNCHANGED request
    BY <1>2 DEF RestStep, wsVars, RestConnected, RestDisconnected, RestTimer,
                ChartDataAck, RestRedirected
  <2>2. QED
    BY <1>1, <2>1, CheckDownloadAnswersNone
<1>3. ASSUME NEW x \in Downloads, request' = [request EXCEPT ![x] = "done"],
             answered' = answered \cup {x}, UNCHANGED <<ws_ready, ws_state>>
      PROVE  MasterInv'
  BY <1>1, <1>3
<1>4. CASE DownloadFails
  BY <1>3, <1>4 DEF DownloadFails, RestError, RestNetworkError, commit, wsVars
<1>5. ASSUME NEW S, GetCurrenciesAck(S)
      PROVE  MasterInv'
  BY <1>3, <1>5 DEF GetCurrenciesAck, RestSuccess, commit, wsVars, Downloads
<1>6. ASSUME NEW S, GetInstrumentsAck(S)
      PROVE  MasterInv'
  BY <1>3, <1>6 DEF GetInstrumentsAck, RestSuccess, commit, SymbolsUpdate,
                    WebSocketSymbols, Downloads
<1>7. ASSUME NEW S, SymbolsElsewhere(S)
      PROVE  MasterInv'
  BY <1>1, <1>7 DEF SymbolsElsewhere, SymbolsUpdate, WebSocketSymbols
<1>8. CASE WebSocketStep
  <2>1. UNCHANGED <<request, answered>>
    BY <1>8 DEF WebSocketStep, restVars
  <2>2. ASSUME NEW i \in Index, WebSocketReady(i)
        PROVE  MasterInv'
    BY <2>1, <2>2 DEF WebSocketReady
  <2>3. ASSUME NEW i \in Index, WebSocketDisconnected(i)
        PROVE  MasterInv'
    BY <2>1, <2>3, MasterIndex
       DEF WebSocketDisconnected, WebSocketDownloadReset, StageInv
  <2>4. ASSUME NEW i \in Index, NEW n, WebSocketTimer(i, n)
        PROVE  MasterInv'
    BY <2>1, <2>4 DEF WebSocketTimer
  <2>5. QED
    BY <1>8, <2>2, <2>3, <2>4 DEF WebSocketStep
<1>9. CASE MasterAuth
  <2>1. /\ ws_state'[1] = "CURRENCIES" /\ UNCHANGED ws_ready
        /\ ws_session[1] = "none"
        /\ answered' = {}
    BY <1>9, MasterIndex
       DEF MasterAuth, AuthMaster, Answered, download_waits, StageInv
  <2>2. ~ws_ready[1]
    BY <2>1, MasterIndex DEF StageInv
  <2>3. /\ request' \in [Downloads -> {"idle", "pending", "sent", "done"}]
        /\ request'["currencies"] # "done"
    BY <1>9 DEF MasterAuth, download, Requested, Downloads
  <2>4. QED
    BY <2>1, <2>2, <2>3
<1>10. CASE MasterCurrencies
  <2>1. /\ ws_state[1] = "CURRENCIES" /\ ws_state'[1] = "INSTRUMENTS"
        /\ UNCHANGED <<ws_ready, answered>>
        /\ request["currencies"] = "done"
    BY <1>10, MasterIndex
       DEF MasterCurrencies, has_response, check_currencies, download_waits,
           StageInv
  <2>2. /\ request' \in [Downloads -> {"idle", "pending", "sent", "done"}]
        /\ request'["instruments"] # "done"
    BY <1>10 DEF MasterCurrencies, download, Requested, Downloads
  <2>3. QED
    BY <2>1, <2>2
<1>11. CASE MasterInstruments
  <2>1. /\ ws_state[1] = "INSTRUMENTS" /\ ws_state'[1] = "DONE"
        /\ UNCHANGED <<request, answered>>
        /\ request["instruments"] = "done"
    BY <1>11, MasterIndex
       DEF MasterInstruments, has_response, check_instruments, download_done,
           charts, StageInv
  <2>2. answered = Downloads
    BY <2>1 DEF Downloads
  <2>3. QED
    BY <2>1, <2>2
<1>12. ASSUME NEW i \in Index, SlaveAuth(i)
       PROVE  MasterInv'
  <2>1. /\ i # 1
        /\ ws_state'[1] = ws_state[1] /\ ws_ready'[1] = ws_ready[1]
        /\ UNCHANGED <<request, answered>>
    BY <1>12, MasterIndex
       DEF SlaveAuth, AuthSlave, download_done, master, charts, StageInv
  <2>2. QED
    BY <2>1
<1>13. CASE DropCopyOnly \/ Ended \/ UNCHANGED gatewayVars
  BY <1>1, <1>13 DEF DropCopyOnly, Ended, RestTerminated, gatewayVars, wsVars,
                     restVars
<1>14. QED
  BY <1>2, <1>4, <1>5, <1>6, <1>7, <1>8, <1>9, <1>10, <1>11, <1>12, <1>13
     DEF GatewayNext

(* The master is READY, subscribes and latches the drop copy only after    *)
(* both downloads were answered since its present login, however requests, *)
(* responses and reconnects cross.                                         *)
THEOREM MasterWaits == GatewaySpec => []MasterWaitsForDownloads
<1>1. GatewayInit => MasterInv
  BY MasterIndex
     DEF GatewayInit, RestInit, WebSocketInit, MasterInv,
         MasterWaitsForDownloads, Downloads
<1>2. MasterInv => MasterWaitsForDownloads
  BY DEF MasterInv
<1>3. QED
  BY <1>1, <1>2, StageInvariant, MasterInvStep, PTL DEF GatewaySpec

-----------------------------------------------------------------------------
(* The drop copy in the gateway *)

(* The currencies it was told of are all that are known, so that only new  *)
(* ones are passed on.                                                     *)
ToldInv == all_currencies = currencies

LEMMA GatewayStepsDropCopy ==
    ASSUME ToldInv, [GatewayNext]_gatewayVars
    PROVE  ToldInv' /\ [DropCopyNext]_dcVars
<1> USE DEF ToldInv
<1>1. CASE UNCHANGED <<dcVars, all_currencies>>
  BY <1>1 DEF dcVars
<1>2. ASSUME NEW S \in SUBSET Currency, GetCurrenciesAck(S)
      PROVE  ToldInv' /\ [DropCopyNext]_dcVars
  <2>1. all_currencies' = currencies \cup S
    BY <1>2 DEF GetCurrenciesAck
  <2>2. CASE NewCurrencies(S) = {}
    <3>1. UNCHANGED dcVars
      BY <1>2, <2>2 DEF GetCurrenciesAck
    <3>2. S \subseteq currencies
      BY <2>2 DEF NewCurrencies
    <3>3. QED
      BY <2>1, <3>1, <3>2 DEF dcVars
  <2>3. CASE NewCurrencies(S) # {}
    <3>1. CurrenciesUpdate(NewCurrencies(S))
      BY <1>2, <2>3 DEF GetCurrenciesAck
    <3>2. NewCurrencies(S) \in (SUBSET (Currency \ currencies)) \ {{}}
      BY <2>3 DEF NewCurrencies
    <3>3. DropCopyNext
      BY <3>1, <3>2 DEF DropCopyNext
    <3>4. currencies' = currencies \cup (S \ currencies)
      BY <3>1 DEF CurrenciesUpdate, NewCurrencies
    <3>5. QED
      BY <2>1, <3>3, <3>4
  <2>4. QED
    BY <2>2, <2>3
<1>3. ASSUME Latch, UNCHANGED all_currencies
      PROVE  ToldInv' /\ [DropCopyNext]_dcVars
  BY <1>3 DEF Latch, DropCopyNext
<1>4. CASE DropCopyOnly
  <2>1. DropCopyStep /\ UNCHANGED all_currencies
    BY <1>4 DEF DropCopyOnly
  <2>2. UNCHANGED currencies
    BY <2>1 DEF DropCopyStep, DropCopyReady, DropCopyDisconnected, DropCopyTimer,
                Auth, AuthError, UserChanges, UserTrades, ExchangeTrade,
                GetUserTradesByCurrencyAck, DropCopyTerminated, dcVars
  <2>3. QED
    BY <2>1, <2>2 DEF DropCopyNext
<1>5. CASE \/ MasterInstruments
           \/ \E i \in Index : SlaveAuth(i)
  BY <1>3, <1>5 DEF MasterInstruments, SlaveAuth
<1>6. CASE \/ RestStep \/ DownloadFails \/ WebSocketStep \/ Ended
           \/ MasterAuth \/ MasterCurrencies
           \/ \E S \in SUBSET Symbol : GetInstrumentsAck(S) \/ SymbolsElsewhere(S)
           \/ UNCHANGED gatewayVars
  BY <1>1, <1>6
     DEF RestStep, DownloadFails, WebSocketStep, MasterAuth, MasterCurrencies,
         GetInstrumentsAck, SymbolsElsewhere, Ended, gatewayVars
<1>7. QED
  BY <1>2, <1>4, <1>5, <1>6 DEF GatewayNext

(* What DropCopy lets the other streams do is what they do: the drop copy  *)
(* in the gateway is the drop copy on its own.                             *)
THEOREM GatewayImplementsDropCopy == GatewaySpec => DropCopySpec
<1>1. GatewayInit => ToldInv /\ DropCopyInit
  BY DEF GatewayInit, DropCopyInit, ToldInv
<1>2. ToldInv /\ [GatewayNext]_gatewayVars => ToldInv' /\ [DropCopyNext]_dcVars
  BY GatewayStepsDropCopy
<1>3. QED
  BY <1>1, <1>2, PTL DEF GatewaySpec, DropCopySpec

(* In the gateway the drop copy asks for each currency once in a session,  *)
(* though the currencies come from REST, the latch from any of several     *)
(* WebSocket streams, and each of them reconnects on its own.              *)
THEOREM GatewayAsksOnce ==
    GatewaySpec => [](CurrenciesAskedOnce /\ NothingSentTwice)
<1>1. DropCopySpec => []CurrenciesAskedOnce /\ []NothingSentTwice
  BY CurrenciesAreAskedOnce, RequestsAreSentOnce
<1>2. QED
  BY <1>1, GatewayImplementsDropCopy, PTL

-----------------------------------------------------------------------------
(* The slices *)

Subscription == PerSymbol \cup {"PLATFORM_STATE", "INSTRUMENT_STATE"}

(* Subscriptions that differ from each other and from those in done *)
Fresh(queue, done) ==
    /\ queue \in Seq(Subscription)
    /\ \A j \in 1..Len(queue) : queue[j] \notin done
    /\ \A j, k \in 1..Len(queue) : j # k => queue[j] # queue[k]

(* The queue of a stream and what it sent: empty before it is ready, and   *)
(* without subscriptions of symbols until it has a slice.                  *)
StreamOK(queue, done, is_ready, has) ==
    /\ Fresh(queue, done)
    /\ done \subseteq Subscription
    /\ ~is_ready => queue = <<>> /\ done = {}
    /\ ~has => /\ \A j \in 1..Len(queue) : queue[j] \notin PerSymbol
               /\ done \cap PerSymbol = {}

(* That a stream asked is not enough: that nothing it asks for is queued   *)
(* or sent already needs to know what a stream without slice has asked.    *)
SliceInv ==
    /\ symbols \in Seq(Symbol)
    /\ ws_queue \in [Index -> Seq(Subscription)]
    /\ served \in [Index -> SUBSET Subscription]
    /\ ws_asked \in [Index -> Nat]
    /\ \A i \in Index :
          /\ StreamOK(ws_queue[i], served[i], ws_ready[i], has_slice(i, symbols))
          /\ ws_asked[i] = IF ws_ready[i] /\ has_slice(i, symbols) THEN 1 ELSE 0

LEMMA FreshConcat ==
    ASSUME NEW q, NEW r, NEW done, Fresh(q, done), Fresh(r, done),
           \A j \in 1..Len(q), k \in 1..Len(r) : q[j] # r[k]
    PROVE  Fresh(q \o r, done)
<1>1. PICK m \in Nat, n \in Nat : m = Len(q) /\ n = Len(r)
  BY DEF Fresh
<1>2. /\ q \o r \in Seq(Subscription)
      /\ Len(q \o r) = m + n
      /\ \A j \in 1..m : (q \o r)[j] = q[j]
      /\ \A j \in (m + 1)..(m + n) : (q \o r)[j] = r[j - m] /\ j - m \in 1..n
  BY <1>1, ConcatProperties DEF Fresh
<1>3. ASSUME NEW j \in 1..(m + n)
      PROVE  (q \o r)[j] \notin done
  <2>1. CASE j \in 1..m
    BY <1>1, <1>2, <2>1 DEF Fresh
  <2>2. CASE j \in (m + 1)..(m + n)
    BY <1>1, <1>2, <2>2 DEF Fresh
  <2>3. QED
    BY <1>1, <2>1, <2>2
<1>4. ASSUME NEW j \in 1..(m + n), NEW k \in 1..(m + n), j < k
      PROVE  (q \o r)[j] # (q \o r)[k]
  <2>1. CASE k \in 1..m
    <3>1. j \in 1..m
      BY <1>1, <1>4, <2>1
    <3>2. QED
      BY <1>1, <1>2, <1>4, <2>1, <3>1 DEF Fresh
  <2>2. CASE j \in 1..m /\ k \in (m + 1)..(m + n)
    BY <1>1, <1>2, <2>2
  <2>3. CASE j \in (m + 1)..(m + n) /\ k \in (m + 1)..(m + n)
    <3>1. /\ (q \o r)[j] = r[j - m] /\ j - m \in 1..n
          /\ (q \o r)[k] = r[k - m] /\ k - m \in 1..n
          /\ j - m # k - m
      BY <1>1, <1>2, <1>4, <2>3
    <3>2. QED
      BY <1>1, <3>1 DEF Fresh
  <2>4. QED
    BY <1>1, <1>4, <2>1, <2>2, <2>3
<1>5. \A j, k \in 1..(m + n) : j # k => (q \o r)[j] # (q \o r)[k]
  BY <1>1, <1>4
<1>6. QED
  BY <1>2, <1>3, <1>5 DEF Fresh

(* What a stream sends is not in the rest of its queue. *)
LEMMA FreshSent ==
    ASSUME NEW q, NEW done, Fresh(q, done), NEW n \in 1..Len(q)
    PROVE  /\ Fresh(SubSeq(q, n + 1, Len(q)), done \cup Range(SubSeq(q, 1, n)))
           /\ \A x \in Range(SubSeq(q, 1, n)) : \E j \in 1..Len(q) : x = q[j]
           /\ \A k \in 1..Len(SubSeq(q, n + 1, Len(q))) :
                 \E j \in 1..Len(q) : SubSeq(q, n + 1, Len(q))[k] = q[j]
<1>1. PICK m \in Nat : m = Len(q)
  BY DEF Fresh
<1>2. PICK rest : rest = SubSeq(q, n + 1, m)
  OBVIOUS
<1>3. /\ rest \in Seq(Subscription)
      /\ Len(rest) = m - n
      /\ \A j \in 1..(m - n) : rest[j] = q[n + j] /\ n + j \in (n + 1)..m
  BY <1>1, <1>2 DEF Fresh
<1>4. \A x \in Range(SubSeq(q, 1, n)) : \E j \in 1..n : x = q[j]
  <2>1. /\ SubSeq(q, 1, n) \in Seq(Subscription)
        /\ Len(SubSeq(q, 1, n)) = n
        /\ \A j \in 1..n : SubSeq(q, 1, n)[j] = q[j]
    BY <1>1 DEF Fresh
  <2>2. QED
    BY <2>1 DEF Range
<1>5. ASSUME NEW j \in 1..(m - n)
      PROVE  rest[j] \notin done \cup Range(SubSeq(q, 1, n))
  <2>1. rest[j] = q[n + j] /\ n + j \in 1..m
    BY <1>1, <1>3
  <2>2. \A k \in 1..n : q[k] # q[n + j]
    BY <1>1, <2>1 DEF Fresh
  <2>3. QED
    BY <1>1, <1>4, <2>1, <2>2 DEF Fresh
<1>6. ASSUME NEW j \in 1..(m - n), NEW k \in 1..(m - n), j # k
      PROVE  rest[j] # rest[k]
  <2>1. /\ rest[j] = q[n + j] /\ rest[k] = q[n + k]
        /\ n + j \in 1..m /\ n + k \in 1..m /\ n + j # n + k
    BY <1>1, <1>3, <1>6
  <2>2. QED
    BY <1>1, <2>1 DEF Fresh
<1>7. Fresh(rest, done \cup Range(SubSeq(q, 1, n)))
  BY <1>3, <1>5, <1>6 DEF Fresh
<1>8. n \in 1..m /\ \A j \in 1..n : j \in 1..m
  BY <1>1
<1>9. QED
  BY <1>1, <1>2, <1>3, <1>4, <1>7, <1>8

(* The subscriptions of a slice, and of the master *)
LEMMA SubscribeFresh ==
    /\ Fresh(subscribe, {})
    /\ \A j \in 1..Len(subscribe) : subscribe[j] \in PerSymbol
<1>1. PICK a \in {<<>>, <<"QUOTE">>}, c \in {<<>>, <<"CHART_TRADES">>} :
          subscribe = (a \o <<"TICKER">>) \o c
  BY DEF subscribe
<1>2. /\ Fresh(a, {}) /\ \A j \in 1..Len(a) : a[j] = "QUOTE"
      /\ Fresh(<<"TICKER">>, {})
      /\ Fresh(c, {}) /\ \A j \in 1..Len(c) : c[j] = "CHART_TRADES"
  <2>1. Fresh(<<>>, {}) /\ Len(<<>>) = 0
    BY DEF Fresh
  <2>2. ASSUME NEW x \in Subscription
        PROVE  Fresh(<<x>>, {}) /\ Len(<<x>>) = 1 /\ <<x>>[1] = x
    BY DEF Fresh
  <2>3. {"QUOTE", "TICKER", "CHART_TRADES"} \subseteq Subscription
    BY DEF Subscription, PerSymbol
  <2>4. Fresh(a, {}) /\ \A j \in 1..Len(a) : a[j] = "QUOTE"
    BY <1>1, <2>1, <2>2, <2>3
  <2>5. Fresh(c, {}) /\ \A j \in 1..Len(c) : c[j] = "CHART_TRADES"
    BY <1>1, <2>1, <2>2, <2>3
  <2>6. QED
    BY <2>2, <2>3, <2>4, <2>5
<1>3. PICK ab : ab = a \o <<"TICKER">>
  OBVIOUS
<1>4. Fresh(ab, {}) /\ \A j \in 1..Len(ab) : ab[j] \in {"QUOTE", "TICKER"}
  <2>1. Fresh(ab, {})
    BY <1>2, <1>3, FreshConcat
  <2>2. /\ ab[Len(a) + 1] = "TICKER" /\ Len(ab) = Len(a) + 1 /\ Len(a) \in Nat
        /\ \A j \in 1..Len(a) : ab[j] = a[j]
    BY <1>2, <1>3, ConcatProperties DEF Fresh
  <2>3. QED
    BY <1>2, <2>1, <2>2
<1>5. Fresh(ab \o c, {})
  BY <1>2, <1>4, FreshConcat
<1>6. ASSUME NEW j \in 1..Len(ab \o c)
      PROVE  (ab \o c)[j] \in PerSymbol
  <2>1. ab \in Seq(Subscription) /\ c \in Seq(Subscription)
    BY <1>2, <1>4 DEF Fresh
  <2>2. PICK m \in Nat, n \in Nat : m = Len(ab) /\ n = Len(c)
    BY <2>1
  <2>3. Len(ab \o c) = m + n
    BY <2>1, <2>2, ConcatProperties
  <2>4. CASE j \in 1..m
    BY <1>4, <2>1, <2>2, <2>3, <2>4, ConcatProperties DEF PerSymbol
  <2>5. CASE j \in (m + 1)..(m + n)
    <3>1. (ab \o c)[j] = c[j - m] /\ j - m \in 1..n
      BY <2>1, <2>2, <2>3, <2>5, ConcatProperties
    <3>2. QED
      BY <1>2, <2>2, <3>1 DEF PerSymbol
  <2>6. QED
    BY <2>2, <2>3, <2>4, <2>5
<1>7. QED
  BY <1>1, <1>3, <1>5, <1>6

LEMMA StateFresh ==
    ASSUME NEW i \in Index
    PROVE  /\ Fresh(subscribe_state(i), {})
           /\ \A j \in 1..Len(subscribe_state(i)) :
                 subscribe_state(i)[j] \notin PerSymbol
<1>1. CASE master(i)
  <2>1. subscribe_state(i) = <<"PLATFORM_STATE", "INSTRUMENT_STATE">>
    BY <1>1 DEF subscribe_state
  <2>2. QED
    BY <2>1 DEF Fresh, Subscription, PerSymbol
<1>2. CASE ~master(i)
  <2>1. subscribe_state(i) = <<>>
    BY <1>2 DEF subscribe_state
  <2>2. QED
    BY <2>1 DEF Fresh, Subscription, PerSymbol
<1>3. QED
  BY <1>1, <1>2

(* A stream gets its slice: what it now asks for it cannot have asked for. *)
LEMMA SliceComes ==
    ASSUME NEW queue, NEW done, StreamOK(queue, done, TRUE, FALSE)
    PROVE  StreamOK(queue \o subscribe, done, TRUE, TRUE)
<1>1. PICK r : r = subscribe
  OBVIOUS
<1>2. Fresh(r, {}) /\ \A j \in 1..Len(r) : r[j] \in PerSymbol
  BY <1>1, SubscribeFresh
<1>3. Fresh(r, done)
  BY <1>2 DEF Fresh, StreamOK
<1>4. Fresh(queue \o r, done)
  BY <1>2, <1>3, FreshConcat DEF StreamOK
<1>5. QED
  BY <1>1, <1>4 DEF StreamOK

(* A stream becomes ready. *)
LEMMA BecomesReady ==
    ASSUME NEW i \in Index, NEW has \in BOOLEAN
    PROVE  StreamOK(<<>> \o subscribe_state(i)
                         \o (IF has THEN subscribe ELSE <<>>), {}, TRUE, has)
<1>1. PICK a : a = subscribe_state(i)
  OBVIOUS
<1>2. Fresh(a, {}) /\ \A j \in 1..Len(a) : a[j] \notin PerSymbol
  BY <1>1, StateFresh
<1>3. <<>> \o a = a
  BY <1>2 DEF Fresh
<1>4. StreamOK(a, {}, TRUE, FALSE)
  BY <1>2 DEF StreamOK
<1>5. a \o <<>> = a
  BY <1>2 DEF Fresh
<1>6. CASE has
  BY <1>1, <1>3, <1>4, <1>6, SliceComes
<1>7. CASE ~has
  BY <1>1, <1>3, <1>4, <1>5, <1>7
<1>8. QED
  BY <1>6, <1>7

LEMMA SomeAreSent ==
    ASSUME NEW queue, NEW done, NEW has \in BOOLEAN,
           StreamOK(queue, done, TRUE, has), NEW n \in 1..Len(queue)
    PROVE  StreamOK(SubSeq(queue, n + 1, Len(queue)),
                    done \cup Range(SubSeq(queue, 1, n)), TRUE, has)
<1>1. PICK rest, out : /\ rest = SubSeq(queue, n + 1, Len(queue))
                       /\ out = Range(SubSeq(queue, 1, n))
  OBVIOUS
<1>2. /\ Fresh(rest, done \cup out)
      /\ \A x \in out : \E j \in 1..Len(queue) : x = queue[j]
      /\ \A k \in 1..Len(rest) : \E j \in 1..Len(queue) : rest[k] = queue[j]
  <2>1. Fresh(queue, done)
    BY DEF StreamOK
  <2>2. QED
    BY <1>1, <2>1, FreshSent, Zenon
<1>3. \A j \in 1..Len(queue) : queue[j] \in Subscription
  BY DEF StreamOK, Fresh
<1>4. StreamOK(rest, done \cup out, TRUE, has)
  BY <1>2, <1>3 DEF StreamOK
<1>5. QED
  BY <1>1, <1>4

(* One stream changes, the others and the symbols do not. *)
LEMMA OneStreamChanges ==
    ASSUME SliceInv, NEW i \in Index,
           NEW queue, NEW done, NEW asked \in Nat, NEW is_ready \in BOOLEAN,
           ws_ready \in [Index -> BOOLEAN], UNCHANGED symbols,
           ws_queue' = [ws_queue EXCEPT ![i] = queue],
           served' = [served EXCEPT ![i] = done],
           ws_asked' = [ws_asked EXCEPT ![i] = asked],
           ws_ready' = [ws_ready EXCEPT ![i] = is_ready],
           StreamOK(queue, done, is_ready, has_slice(i, symbols)),
           asked = IF is_ready /\ has_slice(i, symbols) THEN 1 ELSE 0
    PROVE  SliceInv'
<1>1. queue \in Seq(Subscription) /\ done \in SUBSET Subscription
  BY DEF StreamOK, Fresh
<1>2. /\ ws_queue' \in [Index -> Seq(Subscription)]
      /\ served' \in [Index -> SUBSET Subscription]
      /\ ws_asked' \in [Index -> Nat]
      /\ symbols' \in Seq(Symbol)
  BY <1>1 DEF SliceInv
<1>3. ASSUME NEW j \in Index
      PROVE  /\ StreamOK(ws_queue'[j], served'[j], ws_ready'[j],
                         has_slice(j, symbols))
             /\ ws_asked'[j] =
                   IF ws_ready'[j] /\ has_slice(j, symbols) THEN 1 ELSE 0
  <2>1. CASE j = i
    BY <2>1 DEF SliceInv
  <2>2. CASE j # i
    BY <2>2 DEF SliceInv
  <2>3. QED
    BY <2>1, <2>2
<1>4. QED
  BY <1>2, <1>3
     DEF SliceInv, StreamOK, Fresh, Subscription, PerSymbol, has_slice

LEMMA StreamDone ==
    ASSUME StageInv, SliceInv, NEW i \in Index, ~ws_ready[i], download_done(i)
    PROVE  SliceInv'
<1>1. PICK has \in BOOLEAN : has <=> has_slice(i, symbols)
  <2>1. CASE has_slice(i, symbols)
    BY <2>1
  <2>2. CASE ~has_slice(i, symbols)
    BY <2>2
  <2>3. QED
    BY <2>1, <2>2
<1>2. /\ ws_queue[i] = <<>> /\ served[i] = {} /\ ws_asked[i] = 0
      /\ served' = served /\ UNCHANGED symbols
      /\ ws_ready' = [ws_ready EXCEPT ![i] = TRUE]
  BY DEF SliceInv, StreamOK, download_done
<1>3. PICK queue : queue = <<>> \o subscribe_state(i)
                                \o (IF has THEN subscribe ELSE <<>>)
  OBVIOUS
<1>4. PICK asked \in Nat : asked = IF has THEN 1 ELSE 0
  OBVIOUS
<1>5. ws_queue' = [ws_queue EXCEPT ![i] = queue]
  BY <1>1, <1>2, <1>3 DEF download_done
<1>6. ws_asked' = [ws_asked EXCEPT ![i] = asked]
  <2>1. ws_asked' = [ws_asked EXCEPT ![i] =
                       IF has_slice(i, symbols) THEN ws_asked[i] + 1
                       ELSE ws_asked[i]]
    BY DEF download_done
  <2>2. asked = IF has_slice(i, symbols) THEN ws_asked[i] + 1 ELSE ws_asked[i]
    BY <1>1, <1>2, <1>4
  <2>3. QED
    BY <2>1, <2>2
<1>7. served' = [served EXCEPT ![i] = {}]
  BY <1>2 DEF SliceInv
<1>8. StreamOK(queue, {}, TRUE, has)
  BY <1>3, BecomesReady
<1>9. StreamOK(queue, {}, TRUE, has_slice(i, symbols))
  BY <1>1, <1>8 DEF StreamOK
<1>10. asked = IF TRUE /\ has_slice(i, symbols) THEN 1 ELSE 0
  BY <1>1, <1>4
<1>11. QED
  BY <1>2, <1>5, <1>6, <1>7, <1>9, <1>10, OneStreamChanges DEF StageInv

(* More symbols: every stream that is ready and whose slice is new asks.   *)
LEMMA MoreSymbols ==
    ASSUME StageInv, SliceInv, NEW new \in Seq(Symbol), WebSocketSymbols(new)
    PROVE  SliceInv'
<1>1. /\ symbols' \in Seq(Symbol)
      /\ Len(symbols') >= Len(symbols) /\ Len(symbols) \in Nat /\ Len(symbols') \in Nat
      /\ UNCHANGED <<ws_ready, served>>
  BY DEF WebSocketSymbols, SliceInv
<1>2. \A i \in Index : has_slice(i, symbols) => has_slice(i, symbols')
  BY <1>1 DEF has_slice, Index
<1>3. ASSUME NEW i \in Index
      PROVE  /\ ws_queue'[i] \in Seq(Subscription)
             /\ ws_asked'[i] \in Nat
             /\ StreamOK(ws_queue'[i], served[i], ws_ready[i],
                         has_slice(i, symbols'))
             /\ ws_asked'[i] =
                   IF ws_ready[i] /\ has_slice(i, symbols') THEN 1 ELSE 0
  <2>1. /\ StreamOK(ws_queue[i], served[i], ws_ready[i], has_slice(i, symbols))
        /\ ws_asked[i] = IF ws_ready[i] /\ has_slice(i, symbols) THEN 1 ELSE 0
        /\ ws_ready[i] \in BOOLEAN
    BY DEF SliceInv, StageInv
  <2>2. CASE ws_ready[i] /\ SubscribeFrom(i, symbols)
    <3>1. /\ ws_queue'[i] = ws_queue[i] \o subscribe
          /\ ws_asked'[i] = ws_asked[i] + 1
      BY <2>2 DEF WebSocketSymbols
    <3>2. has_slice(i, symbols') /\ ~has_slice(i, symbols)
      BY <2>2 DEF SubscribeFrom
    <3>3. StreamOK(ws_queue[i], served[i], TRUE, FALSE)
      BY <2>1, <2>2, <3>2 DEF StreamOK
    <3>4. PICK queue : queue = ws_queue[i] \o subscribe
      OBVIOUS
    <3>5. StreamOK(queue, served[i], TRUE, TRUE)
      BY <3>3, <3>4, SliceComes
    <3>6. queue \in Seq(Subscription)
      BY <3>5 DEF StreamOK, Fresh
    <3>7. StreamOK(queue, served[i], ws_ready[i], has_slice(i, symbols'))
      BY <2>2, <3>2, <3>5 DEF StreamOK
    <3>8. ws_asked'[i] = 1
      BY <2>1, <3>1, <3>2
    <3>9. ws_queue'[i] = queue
      BY <3>1, <3>4
    <3>10. StreamOK(ws_queue'[i], served[i], ws_ready[i], has_slice(i, symbols'))
      BY <3>7, <3>9
    <3>11. ws_asked'[i] = IF ws_ready[i] /\ has_slice(i, symbols') THEN 1 ELSE 0
      BY <2>2, <3>2, <3>8
    <3>12. QED
      BY <3>6, <3>8, <3>9, <3>10, <3>11
  <2>3. CASE ~(ws_ready[i] /\ SubscribeFrom(i, symbols))
    <3>1. ws_queue'[i] = ws_queue[i] /\ ws_asked'[i] = ws_asked[i]
      BY <2>3 DEF WebSocketSymbols
    <3>2. ws_ready[i] => (has_slice(i, symbols) <=> has_slice(i, symbols'))
      BY <1>2, <2>3 DEF SubscribeFrom
    <3>3. QED
      BY <1>2, <2>1, <3>1, <3>2 DEF StreamOK, SliceInv
  <2>4. QED
    BY <2>2, <2>3
<1>4. /\ ws_queue' \in [Index -> Seq(Subscription)]
      /\ ws_asked' \in [Index -> Nat]
      /\ served' \in [Index -> SUBSET Subscription]
  <2>1. /\ ws_queue' = [i \in Index |-> ws_queue'[i]]
        /\ ws_asked' = [i \in Index |-> ws_asked'[i]]
    BY DEF WebSocketSymbols
  <2>2. QED
    BY <1>1, <1>3, <2>1 DEF SliceInv
<1>5. QED
  BY <1>1, <1>3, <1>4
     DEF SliceInv, StreamOK, Fresh, Subscription, PerSymbol, has_slice

LEMMA NewSymbolsTyped ==
    ASSUME NEW S \in SUBSET Symbol
    PROVE  NewSymbols(S) \in Seq(Symbol)
<1>1. PICK T \in SUBSET Symbol : T = S \ SymbolsKnown
  OBVIOUS
<1>2. IsFiniteSet(T)
  BY <1>1, RestAssumption, FS_Subset
<1>3. Cardinality(T) \in Nat /\ SetToSeq(T) \in [1..Cardinality(T) -> T]
  BY <1>2, SetToSeqLists
<1>4. SetToSeq(T) \in Seq(T)
  BY <1>3
<1>5. QED
  BY <1>1, <1>4 DEF NewSymbols

LEMMA SliceInvStep ==
    StageInv /\ SliceInv /\ [GatewayNext]_gatewayVars => SliceInv'
<1> SUFFICES ASSUME StageInv, SliceInv, [GatewayNext]_gatewayVars
             PROVE  SliceInv'
  OBVIOUS
<1>1. CASE UNCHANGED <<ws_ready, ws_queue, symbols, served, ws_asked>>
  BY <1>1 DEF SliceInv, StreamOK, Fresh, Subscription, PerSymbol, has_slice
<1>2. ASSUME NEW i \in Index, WebSocketDisconnected(i)
      PROVE  SliceInv'
  <2>1. StreamOK(<<>>, {}, FALSE, has_slice(i, symbols))
    BY DEF StreamOK, Fresh
  <2>2. 0 = IF FALSE /\ has_slice(i, symbols) THEN 1 ELSE 0
    OBVIOUS
  <2>3. QED
    BY <1>2, <2>1, <2>2, OneStreamChanges
       DEF WebSocketDisconnected, WebSocketQueueCleared, StageInv
<1>3. ASSUME NEW i \in Index, NEW n \in 1..Len(ws_queue[i]), WebSocketTimer(i, n)
      PROVE  SliceInv'
  <2>1. PICK has \in BOOLEAN : has <=> has_slice(i, symbols)
    <3>1. CASE has_slice(i, symbols)
      BY <3>1
    <3>2. CASE ~has_slice(i, symbols)
      BY <3>2
    <3>3. QED
      BY <3>1, <3>2
  <2>2. PICK queue, done :
            /\ queue = SubSeq(ws_queue[i], n + 1, Len(ws_queue[i]))
            /\ done = served[i] \cup Range(SubSeq(ws_queue[i], 1, n))
    OBVIOUS
  <2>3. /\ ws_ready[i] /\ UNCHANGED <<symbols, ws_asked, ws_ready>>
        /\ ws_queue' = [ws_queue EXCEPT ![i] = queue]
        /\ served' = [served EXCEPT ![i] = done]
    BY <1>3, <2>2 DEF WebSocketTimer
  <2>4. StreamOK(ws_queue[i], served[i], TRUE, has)
    BY <2>1, <2>3 DEF SliceInv, StreamOK
  <2>5. StreamOK(queue, done, TRUE, has)
    BY <2>2, <2>4, SomeAreSent
  <2>6. StreamOK(queue, done, TRUE, has_slice(i, symbols))
    BY <2>1, <2>5 DEF StreamOK
  <2>7. /\ ws_asked' = [ws_asked EXCEPT ![i] = ws_asked[i]]
        /\ ws_asked[i] \in Nat
        /\ ws_ready' = [ws_ready EXCEPT ![i] = TRUE]
        /\ ws_ready \in [Index -> BOOLEAN]
    BY <2>3 DEF SliceInv, StageInv
  <2>8. ws_asked[i] = IF TRUE /\ has_slice(i, symbols) THEN 1 ELSE 0
    BY <2>3 DEF SliceInv
  <2>9. QED
    BY <2>3, <2>6, <2>7, <2>8, OneStreamChanges
<1>4. ASSUME NEW S \in SUBSET Symbol, GetInstrumentsAck(S) \/ SymbolsElsewhere(S)
      PROVE  SliceInv'
  BY <1>4, NewSymbolsTyped, MoreSymbols
     DEF GetInstrumentsAck, SymbolsElsewhere, SymbolsUpdate
<1>5. CASE MasterInstruments
  <2>1. download_done(1) /\ ws_state[1] = "INSTRUMENTS"
    BY <1>5 DEF MasterInstruments, check_instruments
  <2>2. ~ws_ready[1]
    BY <2>1, MasterIndex DEF StageInv
  <2>3. QED
    BY <2>1, <2>2, MasterIndex, StreamDone
<1>6. ASSUME NEW i \in Index, SlaveAuth(i)
      PROVE  SliceInv'
  <2>1. download_done(i) /\ ws_session[i] = "none"
    BY <1>6 DEF SlaveAuth, AuthSlave, Answered
  <2>2. ~ws_ready[i]
    BY <2>1 DEF StageInv
  <2>3. QED
    BY <2>1, <2>2, StreamDone
<1>7. CASE WebSocketStep
  <2>1. ASSUME NEW i \in Index, WebSocketReady(i)
        PROVE  SliceInv'
    BY <1>1, <2>1 DEF WebSocketReady
  <2>2. QED
    BY <1>2, <1>3, <1>7, <2>1 DEF WebSocketStep
<1>8. CASE MasterAuth \/ MasterCurrencies
  BY <1>1, <1>8
     DEF MasterAuth, MasterCurrencies, AuthMaster, check_currencies,
         download_waits
<1>9. ASSUME NEW S, GetCurrenciesAck(S)
      PROVE  SliceInv'
  BY <1>1, <1>9 DEF GetCurrenciesAck, wsVars
<1>10. CASE \/ RestStep \/ DownloadFails \/ DropCopyOnly \/ Ended
            \/ UNCHANGED gatewayVars
  BY <1>1, <1>10 DEF RestStep, DownloadFails, DropCopyOnly, Ended, gatewayVars,
                     wsVars
<1>11. QED
  BY <1>4, <1>5, <1>6, <1>7, <1>8, <1>9, <1>10 DEF GatewayNext

(* However logins, downloads, reconnects and new symbols interleave, each  *)
(* stream that is ready has subscribed its slice exactly once, and sends   *)
(* nothing of another session and nothing twice.                           *)
THEOREM SlicesAreAskedOnce == GatewaySpec => []SliceAskedOnce
<1>1. ASSUME GatewayInit
      PROVE  SliceInv
  <2>1. /\ symbols = <<>> /\ Len(symbols) = 0
        /\ \A i \in Index : /\ ws_queue[i] = <<>> /\ served[i] = {}
                            /\ ws_asked[i] = 0 /\ ws_ready[i] = FALSE
    BY <1>1 DEF GatewayInit, WebSocketInit
  <2>2. /\ symbols \in Seq(Symbol)
        /\ ws_queue \in [Index -> Seq(Subscription)]
        /\ served \in [Index -> SUBSET Subscription]
        /\ ws_asked \in [Index -> Nat]
    BY <1>1 DEF GatewayInit, WebSocketInit
  <2>3. \A i \in Index : StreamOK(<<>>, {}, FALSE, has_slice(i, symbols))
    BY DEF StreamOK, Fresh
  <2>4. QED
    BY <2>1, <2>2, <2>3 DEF SliceInv
<1>2. SliceInv => SliceAskedOnce
  BY DEF SliceInv, SliceAskedOnce, StreamOK, Fresh
<1>3. QED
  BY <1>1, <1>2, StageInvariant, SliceInvStep, PTL DEF GatewaySpec

-----------------------------------------------------------------------------
(* What clients are shown *)

LEMMA StageStepIsStreamStep ==
    ASSUME StageInv, StageStep, NEW i \in Index
    PROVE  WebSocketStream(i)!Next \/ UNCHANGED WebSocketStream(i)!vars
<1> USE DEF WebSocketStream!vars
<1>1. ASSUME NEW j \in Index, WebSocketReady(j)
      PROVE  WebSocketStream(i)!Connect \/ UNCHANGED WebSocketStream(i)!vars
  BY <1>1
     DEF WebSocketReady, WebSocketLoginSent, StageInv, WebSocketStream!Connect
<1>2. ASSUME NEW j \in Index, WebSocketDisconnected(j)
      PROVE  WebSocketStream(i)!Disconnect \/ UNCHANGED WebSocketStream(i)!vars
  BY <1>2 DEF WebSocketDisconnected, StageInv, WebSocketStream!Disconnect
<1>3. ASSUME NEW j \in Index, AuthMaster(j)
      PROVE  WebSocketStream(i)!Answered \/ UNCHANGED WebSocketStream(i)!vars
  BY <1>3
     DEF AuthMaster, Answered, download_waits, StageInv, WebSocketStream!Answered
<1>4. ASSUME NEW j \in Index, AuthSlave(j)
      PROVE  WebSocketStream(i)!Answered \/ UNCHANGED WebSocketStream(i)!vars
  BY <1>4
     DEF AuthSlave, Answered, download_done, StageInv, WebSocketStream!Answered
<1>5. ASSUME NEW j \in Index, check_currencies(j)
      PROVE  WebSocketStream(i)!Advance \/ UNCHANGED WebSocketStream(i)!vars
  BY <1>5
     DEF check_currencies, download_waits, StageInv, WebSocketStream!Advance
<1>6. ASSUME NEW j \in Index, check_instruments(j)
      PROVE  WebSocketStream(i)!Advance \/ UNCHANGED WebSocketStream(i)!vars
  BY <1>6
     DEF check_instruments, download_done, StageInv, WebSocketStream!Advance
<1>7. QED
  BY <1>1, <1>2, <1>3, <1>4, <1>5, <1>6 DEF StageStep, WebSocketStream!Next

(* Every WebSocket stream of the gateway implements the abstract stream:   *)
(* what clients are shown of it is never ahead of its own login, whatever  *)
(* the other streams do.                                                   *)
THEOREM WebSocketsImplementStream == GatewaySpec => WebSocketIsStream
<1>1. GatewayInit => \A i \in Index : WebSocketStream(i)!Init
  BY DEF GatewayInit, WebSocketInit, WebSocketStream!Init
<1>2. StageInv /\ [GatewayNext]_gatewayVars =>
          [\A i \in Index : WebSocketStream(i)!Next
              \/ UNCHANGED WebSocketStream(i)!vars]_wsVars
  BY NextIsStageStep, StageStepIsStreamStep
<1>3. QED
  BY <1>1, <1>2, StageInvariant, PTL DEF GatewaySpec, WebSocketIsStream

=============================================================================
