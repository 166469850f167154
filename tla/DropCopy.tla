------------------------------ MODULE DropCopy ------------------------------
(***************************************************************************)
(* The drop-copy stream of an account (gateway/drop_copy.cpp): log in,     *)
(* queue the subscriptions and downloads, let the timer send them as the   *)
(* rate limiter allows, publish the account's trades.                      *)
(*                                                                         *)
(* What is asked for per currency waits for three things that come in any  *)
(* order and from different places: the login, the latch (a WebSocket      *)
(* stream finished its own download) and the currencies (REST).            *)
(*                                                                         *)
(* web::socket::Client, core::limit::Queue and the exchange are external.  *)
(* The lookback of the trade download, and download_trades_is_first_ which *)
(* selects it, are left out: the answer is not used.                       *)
(***************************************************************************)
EXTENDS Integers, FiniteSets, Sequences, SequencesExt

CONSTANTS
    Currency,    \* the currencies of the exchange
    Traded,      \* the instruments the account trades, each once
    RetryLogon,  \* the values of experimental.retry_logon considered
    Partial      \* the rate limiter may let a part of a queue through

ASSUME DropCopyAssumption ==
    /\ IsFiniteSet(Currency)
    /\ IsFiniteSet(Traded)
    /\ RetryLogon \subseteq BOOLEAN /\ RetryLogon # {}
    /\ Partial \in BOOLEAN

VARIABLES
    dc_conn,          \* the web socket
    dc_status,        \* connection_status_
    dc_ready,         \* ready_
    can_download,     \* can_download_
    currencies,       \* currencies_
    dc_queue,         \* subscribe_queue_
    dc_session,       \* what the exchange said of the login
    channels,         \* account channels the exchange serves
    portfolios,       \* currencies whose portfolio channel it serves
    feed,             \* trade messages in flight
    acks,             \* answers of the trade download in flight
    executed,         \* trades the exchange executed
    published,        \* trades published, with the type of the update
    dc_asked          \* history: requests queued this session, per currency

dcVars == <<dc_conn, dc_status, dc_ready, can_download, currencies, dc_queue,
            dc_session, channels, portfolios, feed, acks,
            executed, published, dc_asked>>

PerCurrency == {"USER_PORTFOLIO", "ACCOUNT_SUMMARY", "USER_TRADES_BY_CURRENCY"}
AccountChannel     == {"USER_CHANGES", "USER_ORDERS", "USER_TRADES"}
DropCopyRequest     == [type : PerCurrency \cup AccountChannel, of : SUBSET Currency]

DropCopyTypeOK ==
    /\ dc_conn \in {"down", "up", "closing", "terminated"}
    /\ dc_status \in {"UNDEFINED", "DISCONNECTED", "LOGIN_SENT", "READY"}
    /\ dc_ready \in BOOLEAN /\ can_download \in BOOLEAN
    /\ currencies \subseteq Currency
    /\ dc_queue \in Seq(DropCopyRequest)
    /\ dc_session \in {"none", "open"}
    /\ channels \subseteq AccountChannel
    /\ portfolios \subseteq Currency
    /\ feed \subseteq ({"USER_CHANGES", "USER_TRADES"} \X Traded)
    /\ acks \subseteq SUBSET Traded
    /\ executed \subseteq Traded
    /\ published \subseteq (Traded \X {"INCREMENTAL", "SNAPSHOT"})
    /\ dc_asked \in [PerCurrency -> [Currency -> Nat]]

NothingAsked == [type \in PerCurrency |-> [c \in Currency |-> 0]]

DropCopyInit ==
    /\ dc_conn = "down"
    /\ dc_status = "UNDEFINED"
    /\ dc_ready = FALSE
    /\ can_download = FALSE
    /\ currencies = {}
    /\ dc_queue = <<>>
    /\ dc_session = "none"
    /\ channels = {}
    /\ portfolios = {}
    /\ feed = {}
    /\ acks = {}
    /\ executed = {}
    /\ published = {}
    /\ dc_asked = NothingAsked

-----------------------------------------------------------------------------
(* The requests.  The portfolio channels of all currencies are subscribed  *)
(* in one request; the others are one request per currency.                *)

subscribe_user_portfolio(S) == << [type |-> "USER_PORTFOLIO", of |-> S] >>

each(type, S) ==
    LET order == SetToSeq(S)
    IN  [i \in 1..Cardinality(S) |-> [type |-> type, of |-> {order[i]}]]

get_account_summary(S) == each("ACCOUNT_SUMMARY", S)
get_user_trades_by_currency(S) == each("USER_TRADES_BY_CURRENCY", S)

subscribe_channel(channel) == << [type |-> channel, of |-> {}] >>

per_currency(S) ==
    subscribe_user_portfolio(S) \o get_account_summary(S)
        \o get_user_trades_by_currency(S)

AskedAlso(S) ==
    [type \in PerCurrency |-> [c \in Currency |->
        IF c \in S THEN dc_asked[type][c] + 1 ELSE dc_asked[type][c]]]

emplace_back(requests, S) ==
    /\ dc_queue' = dc_queue \o requests
    /\ dc_asked' = AskedAlso(S)

-----------------------------------------------------------------------------
(* Events from the other streams *)

UpdateNever(new) == {}  \* mutant: new currencies wait for the next login
UpdateNow(new) == IF dc_ready /\ can_download THEN new ELSE {}

(* Rest: new is never empty and holds no currency seen before. *)
CurrenciesUpdate(new) ==
    /\ dc_conn # "terminated"
    /\ currencies' = currencies \cup new
    /\ emplace_back(IF UpdateNow(new) = {} THEN <<>>
                    ELSE per_currency(UpdateNow(new)), UpdateNow(new))
    /\ UNCHANGED <<dc_conn, dc_status, dc_ready, can_download, dc_session, channels, portfolios, feed, acks, executed,
                   published>>

LatchQueuesAgain == dc_ready  \* mutant: no return if the latch is set
LatchQueues == dc_ready /\ ~can_download

(* WebSocket: any of the streams, every time one is ready.  With no        *)
(* currency known the portfolio request has an empty list.                 *)
Latch ==
    /\ dc_conn # "terminated"
    /\ can_download' = TRUE
    /\ IF LatchQueues THEN emplace_back(per_currency(currencies), currencies)
                      ELSE UNCHANGED <<dc_queue, dc_asked>>
    /\ UNCHANGED <<dc_conn, dc_status, dc_ready, currencies, dc_session, channels, portfolios, feed, acks, executed,
                   published>>

-----------------------------------------------------------------------------
(* web::socket::Client *)

DropCopyLoginSent == dc_status' = "LOGIN_SENT"

(* Ready: the connection was upgraded *)
DropCopyReady ==
    /\ dc_conn = "down"
    /\ dc_conn' = "up"
    /\ DropCopyLoginSent
    /\ UNCHANGED <<dc_ready, can_download, currencies, dc_queue, dc_session, channels, portfolios, feed, acks, executed,
                   published, dc_asked>>

DropCopyQueueKept == dc_queue  \* mutant
DropCopyQueueCleared == <<>>

(* can_download_ and currencies_ survive. *)
DropCopyDisconnected ==
    /\ dc_conn \in {"up", "closing"}
    /\ dc_conn' = "down"
    /\ dc_ready' = FALSE
    /\ dc_status' = "DISCONNECTED"
    /\ dc_queue' = DropCopyQueueCleared
    /\ dc_session' = "none"
    /\ channels' = {}
    /\ portfolios' = {}
    /\ feed' = {}
    /\ acks' = {}
    /\ dc_asked' = NothingAsked
    /\ UNCHANGED <<can_download, currencies, executed, published>>

(* Timer: the queue sends as many requests as the rate limiter allows. *)
DropCopyTimer(n) ==
    /\ dc_conn = "up"
    /\ dc_ready
    /\ n \in 1..Len(dc_queue)
    /\ n = Len(dc_queue) \/ Partial
    /\ LET sent == Range(SubSeq(dc_queue, 1, n))
           downloads == \E r \in sent : r.type = "USER_TRADES_BY_CURRENCY"
       IN  /\ portfolios' = portfolios \cup
                 UNION {r.of : r \in {q \in sent : q.type = "USER_PORTFOLIO"}}
           /\ channels' = channels \cup ({r.type : r \in sent} \cap AccountChannel)
           /\ acks' = IF downloads THEN acks \cup {executed} ELSE acks
    /\ dc_queue' = SubSeq(dc_queue, n + 1, Len(dc_queue))
    /\ UNCHANGED <<dc_conn, dc_status, dc_ready, can_download, currencies,
                   dc_session, feed, executed, published, dc_asked>>

-----------------------------------------------------------------------------
(* Inbound messages.  Those that are only logged (SubscribeAck, UserOrders, *)
(* GetAccountSummaryAck) and those that are only passed on (PlatformState,  *)
(* UserPortfolio) change no state.                                          *)

DropCopyReceiving == dc_conn \in {"up", "closing"}

(* download_.begin: every state of the download returns 0, so all are      *)
(* entered in one step.  Entered before the latch, the states that are per *)
(* currency do nothing.                                                    *)
Auth ==
    /\ DropCopyReceiving
    /\ dc_session = "none"
    /\ dc_status = "LOGIN_SENT"
    /\ dc_session' = "open"
    /\ LET S == IF can_download THEN currencies ELSE {}
           portfolio == IF can_download THEN subscribe_user_portfolio(S)
                                        ELSE <<>>
       IN  emplace_back(portfolio
                \o subscribe_channel("USER_CHANGES") \o subscribe_channel("USER_ORDERS")
                \o subscribe_channel("USER_TRADES")
                \o get_account_summary(S) \o get_user_trades_by_currency(S), S)
    /\ dc_status' = "READY"
    /\ dc_ready' = TRUE
    /\ UNCHANGED <<dc_conn, can_download, currencies, channels,
                   portfolios, feed, acks, executed, published>>

AuthError ==
    /\ DropCopyReceiving
    /\ dc_session = "none"
    /\ dc_status = "LOGIN_SENT"
    /\ \E retry_logon \in RetryLogon :
          dc_conn' = IF retry_logon THEN "closing" ELSE "terminated"
    /\ UNCHANGED <<dc_status, dc_ready, can_download, currencies, dc_queue,
                   dc_session, channels, portfolios, feed, acks,
                   executed, published, dc_asked>>

(* Trade: what is published of it, scaled by the multiplier or, if that is *)
(* not known, as it is, makes no difference here.                          *)
publish(trade, update_type) ==
    published' = published \cup {<<trade, update_type>>}

UserChanges(trade) ==
    /\ DropCopyReceiving
    /\ <<"USER_CHANGES", trade>> \in feed
    /\ feed' = feed \ {<<"USER_CHANGES", trade>>}
    /\ publish(trade, "INCREMENTAL")
    /\ UNCHANGED <<dc_conn, dc_status, dc_ready, can_download, currencies,
                   dc_queue, dc_session, channels, portfolios,
                   acks, executed, dc_asked>>

UserTrades(trade) ==
    /\ DropCopyReceiving
    /\ <<"USER_TRADES", trade>> \in feed
    /\ feed' = feed \ {<<"USER_TRADES", trade>>}
    /\ publish(trade, "SNAPSHOT")
    /\ UNCHANGED <<dc_conn, dc_status, dc_ready, can_download, currencies,
                   dc_queue, dc_session, channels, portfolios,
                   acks, executed, dc_asked>>

(* The answer of the trade download is only logged. *)
GetUserTradesByCurrencyAck(trades) ==
    /\ DropCopyReceiving
    /\ trades \in acks
    /\ acks' = acks \ {trades}
    /\ UNCHANGED <<dc_conn, dc_status, dc_ready, can_download, currencies,
                   dc_queue, dc_session, channels, portfolios,
                   feed, executed, published, dc_asked>>

-----------------------------------------------------------------------------
(* The exchange executes a trade and reports it on the channels it serves. *)
ExchangeTrade(trade) ==
    /\ dc_conn # "terminated"
    /\ trade \notin executed
    /\ executed' = executed \cup {trade}
    /\ feed' = feed \cup
          ((channels \cap {"USER_CHANGES", "USER_TRADES"}) \X {trade})
    /\ UNCHANGED <<dc_conn, dc_status, dc_ready, can_download, currencies,
                   dc_queue, dc_session, channels, portfolios,
                   acks, published, dc_asked>>

DropCopyTerminated ==
    /\ dc_conn = "terminated"
    /\ UNCHANGED dcVars

(* Everything the stream and the exchange do by themselves. *)
DropCopyStep ==
    \/ DropCopyReady \/ DropCopyDisconnected
    \/ \E n \in 1..Len(dc_queue) : DropCopyTimer(n)
    \/ Auth \/ AuthError
    \/ \E t \in Traded : UserChanges(t) \/ UserTrades(t) \/ ExchangeTrade(t)
    \/ \E trades \in acks : GetUserTradesByCurrencyAck(trades)
    \/ DropCopyTerminated

(* The other streams, free to act at any time (Gateway has the real ones). *)
DropCopyNext ==
    \/ DropCopyStep
    \/ \E new \in (SUBSET (Currency \ currencies)) \ {{}} : CurrenciesUpdate(new)
    \/ Latch

DropCopySpec == DropCopyInit /\ [][DropCopyNext]_dcVars

(* The timer runs and the rate limiter does not refuse for ever, close()   *)
(* takes effect, and the exchange answers the login.                       *)
DropCopyFairness ==
    /\ WF_dcVars(\E n \in 1..Len(dc_queue) : DropCopyTimer(n))
    /\ WF_dcVars(dc_conn = "closing" /\ DropCopyDisconnected)
    /\ WF_dcVars(Auth \/ AuthError)

DropCopyLiveSpec == DropCopySpec /\ DropCopyFairness

-----------------------------------------------------------------------------
(* Whatever the order in which login, latch and currencies come, and       *)
(* however often the connection is lost in between: a ready stream that    *)
(* was latched has queued every request for every currency exactly once in *)
(* this session, and any other stream has queued none.                     *)
CurrenciesAskedOnce ==
    \A type \in PerCurrency, c \in Currency :
        dc_asked[type][c] =
            IF dc_ready /\ can_download /\ c \in currencies THEN 1 ELSE 0

(* Nothing queued in one session is sent in another: no channel is         *)
(* subscribed a second time, and only a ready stream has anything queued.  *)
NothingSentTwice ==
    /\ dc_queue # <<>> => dc_ready
    /\ \A i \in 1..Len(dc_queue) :
          /\ dc_queue[i].type \notin channels
          /\ \A j \in 1..Len(dc_queue) : i # j => dc_queue[i] # dc_queue[j]
          /\ dc_queue[i].type = "USER_PORTFOLIO" =>
                dc_queue[i].of \cap portfolios = {}

(* While the connection lasts, a latched stream ends up following the      *)
(* portfolio of every currency, also of one that is announced later.       *)
PortfolioFollowed ==
    \A c \in Currency :
        (dc_conn = "up" /\ can_download /\ c \in currencies)
            ~> (c \in portfolios \/ dc_conn # "up")

(* The answer of the trade download is not used because its trades are     *)
(* "already managed by user-changes" (the comment on the handler): each    *)
(* trade in it has been published or is on its way.                        *)
DownloadedTradesManaged ==
    \A trades \in acks : \A t \in trades :
        \/ <<t, "INCREMENTAL">> \in published
        \/ <<"USER_CHANGES", t>> \in feed

(* What clients are shown of the stream is what every stream promises. *)
DropCopyStream == INSTANCE Stream WITH
    link    <- IF dc_conn = "down" THEN "down" ELSE "up",
    status  <- dc_status,
    session <- dc_session

DropCopyIsStream == DropCopyStream!Spec

=============================================================================
