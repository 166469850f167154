---------------------------- MODULE MarketData ------------------------------
(***************************************************************************)
(* A market data stream (gateway/market_data.cpp): the FIX session, the    *)
(* download of the securities (master stream only), the subscription of    *)
(* the symbols of its slice in requests of limited size, the books built   *)
(* from snapshots and increments, and the latch that keeps increments off  *)
(* a book while it is subscribed again.                                    *)
(*                                                                         *)
(* As in OrderEntrySession a step is one whole handler, time points are    *)
(* ages and countdowns in timer events, and sequence numbers are           *)
(* abstracted to gap.  The exchange is external.  Books are abstracted to  *)
(* what is known of their content: see book.                               *)
(***************************************************************************)
EXTENDS Integers, FiniteSets, Sequences, SequencesExt

CONSTANTS
    Symbol,                    \* the symbols of this stream's slice
    MaxSize,                   \* fix.market_data_request_max_size, 0 = all
    RequestTimeout,            \* fix.request_timeout in timer events, 0 = never
    PingFreq,                  \* fix.ping_freq in timer events
    TestMarketDataDisconnect,  \* the values of fix.test_market_data_disconnect
                               \* that are considered, 0 = off
    PublishMarketByPrice,      \* publish_market_by_price_
    TerminateOnReject,         \* fix.terminate_on_market_data_request_reject
    SendMayFail,               \* ConnectionManager::send may return false
    MaxWire                    \* bound: book messages in flight

ASSUME MarketDataAssumption ==
    /\ IsFiniteSet(Symbol)
    /\ MaxSize \in Nat
    /\ RequestTimeout \in Nat
    /\ PingFreq \in Nat \ {0}
    /\ TestMarketDataDisconnect \subseteq Nat
    /\ TestMarketDataDisconnect # {}
    /\ PublishMarketByPrice \in BOOLEAN
    /\ TerminateOnReject \in BOOLEAN
    /\ SendMayFail \in BOOLEAN
    /\ MaxWire \in Nat

VARIABLES
    master,                   \* master_, fixed when the stream is created
    conn,                     \* the connection manager
    connection_status,        \* connection_status_, what the timer reads
    ready,                    \* ready_, what ready() returns
    next_heartbeat,           \* countdown to next_heartbeat_
    download_state,           \* download_.state()
    last_logon_or_heartbeat,  \* age of the oldest unanswered probe
    test_disconnect_time,     \* countdown to the test disconnect
    latch,                    \* latch_
    symbols,                  \* shared_.symbols.get_slice(index_)
    book,                     \* the book clients were given, per symbol
    withheld,                 \* history: symbols whose last snapshot had no
                              \* levels and so was not published over the
                              \* levels that clients hold
    session,                  \* the exchange's view of the session
    owed,                     \* answers the exchange has yet to send
    requests,                 \* market data requests yet to be answered
    live,                     \* symbols the exchange sends updates of
    wire,                     \* snapshots and increments in flight
    gap,                      \* a message of this session was not sent
    silent,                   \* history: timer events since a heartbeat was
                              \* received or a logon sent
    asked,                    \* history: subscriptions less cancellations of
                              \* this session, per symbol
    refused                   \* history: what the exchange refused this session

clocks   == <<next_heartbeat, last_logon_or_heartbeat, test_disconnect_time>>
exchange == <<session, owed, requests, live, wire, gap>>
history  == <<silent, asked, refused>>
books    == <<book, withheld>>
mdVars   == <<master, conn, connection_status, ready, download_state, clocks,
              latch, symbols, books, exchange, history>>

Unset == -1

(* What is known of the book the clients hold:                             *)
(*   none     nothing was ever sent of it                                  *)
(*   current  it is the exchange's book as of the last message received    *)
(*   missed   an update was lost on it (connection, latch, bad state)      *)
(*   emptied  a snapshot without levels said it is empty, but levels that  *)
(*            were published before are still there                        *)
(*   wrong    an increment was published on top of any but current         *)
Content == {"none", "current", "missed", "emptied", "wrong"}

Message == [type : {"SNAPSHOT", "EMPTY", "INCREMENT"}, symbol : Symbol]
Order   == [type : {"SUBSCRIBE", "UNSUBSCRIBE"}, symbol : Symbol]

MarketDataTypeOK ==
    /\ master \in BOOLEAN /\ ready \in BOOLEAN /\ gap \in BOOLEAN
    /\ conn \in {"down", "up", "closing", "terminated"}
    /\ connection_status \in {"UNDEFINED", "DISCONNECTED", "LOGIN_SENT",
                              "DOWNLOADING", "READY", "LOGGED_OUT"}
    /\ next_heartbeat \in 0..PingFreq
    /\ download_state \in {"UNDEFINED", "SECURITIES", "DONE"}
    /\ last_logon_or_heartbeat \in {Unset} \cup (0..(RequestTimeout + 1))
    /\ test_disconnect_time \in {Unset} \cup Nat
    /\ latch \subseteq symbols /\ symbols \subseteq Symbol
    /\ book \in [Symbol -> Content] /\ withheld \subseteq Symbol
    /\ session \in {"none", "open", "ended"}
    /\ owed \subseteq {"LOGON", "SECURITY_LIST", "HEARTBEAT", "RESEND_REQUEST"}
    /\ requests \in Seq(Order)
    /\ live \subseteq symbols
    /\ wire \in Seq(Message)
    /\ silent \in 0..(RequestTimeout + 1)
    /\ asked \in [Symbol -> Int]
    /\ refused \subseteq (Symbol \cup {"SECURITY_LIST"})

MarketDataInit ==
    /\ master \in BOOLEAN
    /\ conn = "down"
    /\ connection_status = "UNDEFINED"
    /\ ready = FALSE
    /\ next_heartbeat = 0
    /\ download_state = "UNDEFINED"
    /\ last_logon_or_heartbeat = Unset
    /\ test_disconnect_time = Unset
    /\ latch = {}
    /\ symbols = {}
    /\ book = [s \in Symbol |-> "none"]
    /\ withheld = {}
    /\ session = "none"
    /\ owed = {}
    /\ requests = <<>>
    /\ live = {}
    /\ wire = <<>>
    /\ gap = FALSE
    /\ silent = 0
    /\ asked = [s \in Symbol |-> 0]
    /\ refused = {}

-----------------------------------------------------------------------------
(* Time: see OrderEntrySession *)

Older(age)   == IF age = Unset \/ age > RequestTimeout THEN age ELSE age + 1
Closer(left) == IF left > 0 THEN left - 1 ELSE left

TimedOut ==
    /\ RequestTimeout # 0
    /\ last_logon_or_heartbeat # Unset
    /\ Older(last_logon_or_heartbeat) > RequestTimeout

-----------------------------------------------------------------------------
(* send().  A message goes out unless the connection is closing or the     *)
(* manager refuses it; its sequence number is used up either way, so that  *)
(* whatever follows it makes the exchange ask for a resend.  o is what the *)
(* exchange owes besides.                                                  *)

(* One message that is not a market data request; answers is what the      *)
(* exchange owes for it.                                                   *)
send(answers, o) ==
    /\ \/ /\ conn = "up" /\ ~gap
          /\ gap' = gap
          /\ owed' = o \cup answers
       \/ /\ conn # "up" \/ gap \/ SendMayFail
          /\ gap' = TRUE
          /\ \/ owed' = o
             \/ conn = "up" /\ gap /\ owed' = o \cup {"RESEND_REQUEST"}
    /\ UNCHANGED requests

(* Market data requests, one after the other, of size orders each but for  *)
(* the last.  The first one that does not go out is where orders is cut.   *)
send_orders(orders, size, o) ==
    \/ /\ orders = <<>> \/ (conn = "up" /\ ~gap)
       /\ gap' = gap
       /\ owed' = o
       /\ requests' = requests \o orders
    \/ /\ conn # "up" \/ gap \/ SendMayFail
       /\ gap' = TRUE
       /\ \E n \in 0..(Len(orders) - 1) :
             /\ n % size = 0
             /\ (conn # "up" \/ gap) => n = 0
             /\ requests' = requests \o SubSeq(orders, 1, n)
             /\ \/ owed' = o
                \/ /\ conn = "up"
                   /\ gap \/ n + size < Len(orders)
                   /\ owed' = o \cup {"RESEND_REQUEST"}

Orders(type, S) ==
    [i \in 1..Cardinality(S) |-> [type |-> type, symbol |-> SetToSeq(S)[i]]]

subscribe_but_last(S, o) ==  \* mutant: the loop ends one symbol too early
    LET orders == Orders("SUBSCRIBE", S)
    IN  send_orders(IF S = {} THEN orders
                    ELSE SubSeq(orders, 1, Len(orders) - 1),
                    IF MaxSize # 0 THEN MaxSize ELSE Cardinality(S), o)

(* subscribe(symbols): requests of at most MaxSize symbols, none if there  *)
(* is no symbol.                                                           *)
subscribe(S, o) ==
    send_orders(Orders("SUBSCRIBE", S),
                IF MaxSize # 0 THEN MaxSize ELSE Cardinality(S), o)

(* unsubscribe(symbols) and subscribe(symbols) of a single symbol, from    *)
(* resubscribe: a request each.                                            *)
unsubscribe_subscribe(s, o) ==
    send_orders(<<[type |-> "UNSUBSCRIBE", symbol |-> s],
                  [type |-> "SUBSCRIBE", symbol |-> s]>>, 1, o)

(* Calls of subscribe, whether or not the requests go out. *)
Asking(S) == [s \in Symbol |-> IF s \in S THEN asked[s] + 1 ELSE asked[s]]

-----------------------------------------------------------------------------
(* download(), from SUBSCRIBE on: SUBSCRIBE and DONE await nothing, so     *)
(* both are entered in the step that leaves SECURITIES.  S is the slice.   *)
download_subscribe(S, o) ==
    /\ ready' = TRUE
    /\ subscribe(S, o)
    /\ asked' = Asking(S)
    /\ download_state' = "DONE"
    /\ connection_status' = "READY"
    /\ \E disconnect \in TestMarketDataDisconnect :
          test_disconnect_time' = IF disconnect # 0 THEN disconnect
                                  ELSE test_disconnect_time

download_waits(o) ==  \* mutant: a stream that asked for nothing waits too
    /\ download_state' = "SECURITIES"
    /\ connection_status' = "DOWNLOADING"
    /\ IF master THEN send({"SECURITY_LIST"}, o)
                 ELSE owed' = o /\ UNCHANGED <<gap, requests>>
    /\ UNCHANGED <<ready, asked, test_disconnect_time>>

download_securities(o) == send({"SECURITY_LIST"}, o)

(* The master asks for the list of securities first. *)
download_begin(o) ==
    \/ /\ master
       /\ download_state' = "SECURITIES"
       /\ connection_status' = "DOWNLOADING"
       /\ download_securities(o)
       /\ UNCHANGED <<ready, asked, test_disconnect_time>>
    \/ /\ ~master
       /\ download_subscribe(symbols, o)

-----------------------------------------------------------------------------
(* What becomes of a book when an increment is published, when one is not, *)
(* and by a snapshot with and one without levels.                          *)

Applied(content)  == IF content = "current" THEN "current" ELSE "wrong"
Lost(content)     == IF content = "none" THEN "none" ELSE "missed"
Replaced(content) == IF PublishMarketByPrice THEN "current" ELSE content
Emptied(content)  == IF content = "none" THEN Replaced("none") ELSE "emptied"

-----------------------------------------------------------------------------
(* io::net::ConnectionManager *)

LogonAgeKept(age) == IF age = Unset THEN 0 ELSE age  \* mutant
LogonAge(age) == 0

LoginNotPublished == UNCHANGED connection_status  \* mutant
PublishLoginSent == connection_status' = "LOGIN_SENT"

(* send_logon: the age of a probe of the last connection is overwritten. *)
Connected ==
    /\ conn = "down"
    /\ conn' = "up"
    /\ \/ owed' = owed \cup {"LOGON"} /\ gap' = gap
       \/ SendMayFail /\ owed' = owed /\ gap' = TRUE
    /\ last_logon_or_heartbeat' = LogonAge(last_logon_or_heartbeat)
    /\ PublishLoginSent
    /\ silent' = 0
    /\ UNCHANGED <<master, ready, download_state, next_heartbeat,
                   test_disconnect_time, latch, symbols, books, session,
                   requests, live, wire, asked, refused>>

(* Neither the age of the probe nor the latch is reset. *)
Disconnected ==
    /\ conn \in {"up", "closing"}
    /\ conn' = "down"
    /\ ready' = FALSE
    /\ next_heartbeat' = 0
    /\ connection_status' = "DISCONNECTED"
    /\ download_state' = "UNDEFINED"
    /\ test_disconnect_time' = Unset
    /\ book' = [s \in Symbol |-> Lost(book[s])]
    /\ withheld' = {}
    /\ session' = "none"
    /\ owed' = {}
    /\ requests' = <<>>
    /\ live' = {}
    /\ wire' = <<>>
    /\ gap' = FALSE
    /\ asked' = [s \in Symbol |-> 0]
    /\ refused' = {}
    /\ silent' = 0
    /\ UNCHANGED <<master, last_logon_or_heartbeat, latch, symbols>>

-----------------------------------------------------------------------------
(* Trace<Timer>, one action per path through the handler *)

Elapse ==
    /\ conn = "up"
    /\ silent' = Older(silent)
    /\ test_disconnect_time' = Closer(test_disconnect_time)
    /\ UNCHANGED <<master, connection_status, ready, download_state, latch,
                   symbols, books, session, live, wire, asked, refused>>

Close ==
    /\ conn' = "closing"
    /\ last_logon_or_heartbeat' = Older(last_logon_or_heartbeat)
    /\ next_heartbeat' = Closer(next_heartbeat)
    /\ UNCHANGED <<owed, requests, gap>>

TimerTimeout ==
    /\ Elapse
    /\ TimedOut
    /\ Close

TimerTestDisconnect ==
    /\ Elapse
    /\ ~TimedOut
    /\ connection_status = "READY"
    /\ test_disconnect_time = 0
    /\ Close

(* send_test_request keeps the age of an unanswered probe *)
ProbeAgeRestarted(age) == 0  \* mutant
ProbeAge(age) == IF age = Unset THEN 0 ELSE Older(age)

TimerHeartbeat ==
    /\ Elapse
    /\ ~TimedOut
    /\ connection_status = "READY"
    /\ test_disconnect_time # 0
    /\ Closer(next_heartbeat) = 0
    /\ next_heartbeat' = PingFreq
    /\ send({"HEARTBEAT"}, owed)
    /\ last_logon_or_heartbeat' = ProbeAge(last_logon_or_heartbeat)
    /\ UNCHANGED conn

TimerIdle ==
    /\ Elapse
    /\ ~TimedOut
    /\ connection_status = "READY" =>
          test_disconnect_time # 0 /\ Closer(next_heartbeat) # 0
    /\ last_logon_or_heartbeat' = Older(last_logon_or_heartbeat)
    /\ next_heartbeat' = Closer(next_heartbeat)
    /\ UNCHANGED <<conn, owed, requests, gap>>

Timer == TimerTimeout \/ TimerTestDisconnect \/ TimerHeartbeat \/ TimerIdle

-----------------------------------------------------------------------------
(* Inbound session messages.  The read buffer is dispatched to its end     *)
(* even if a handler calls close(); the exchange sends nothing after its   *)
(* logout.                                                                 *)

Receiving == conn \in {"up", "closing"} /\ session # "ended"

Heartbeat ==
    /\ Receiving
    /\ session = "open"
    /\ last_logon_or_heartbeat' = Unset
    /\ silent' = 0
    /\ owed' = owed \ {"HEARTBEAT"}
    /\ UNCHANGED <<master, conn, connection_status, ready, download_state,
                   next_heartbeat, test_disconnect_time, latch, symbols, books,
                   session, requests, live, wire, gap, asked, refused>>

(* last_logon_or_heartbeat is left alone: it is the first heartbeat, not   *)
(* the logon, that ends the wait.                                          *)
Logon ==
    /\ Receiving
    /\ "LOGON" \in owed
    /\ session' = "open"
    /\ download_begin(owed \ {"LOGON"})
    /\ UNCHANGED <<master, conn, next_heartbeat, last_logon_or_heartbeat, latch,
                   symbols, books, live, wire, silent, refused>>

(* The answer goes out before close(). *)
Logout ==
    /\ Receiving
    /\ session = "open" \/ "LOGON" \in owed
    /\ connection_status' = "LOGGED_OUT"
    /\ ready' = FALSE
    /\ conn' = "closing"
    /\ session' = "ended"
    /\ owed' = {}
    /\ requests' = <<>>
    /\ live' = {}
    /\ wire' = <<>>
    /\ asked' = [s \in Symbol |-> 0]
    /\ UNCHANGED <<master, download_state, clocks, latch, symbols, books, gap,
                   silent, refused>>

ResendRequestIgnored ==  \* mutant
    /\ Receiving
    /\ "RESEND_REQUEST" \in owed
    /\ owed' = owed \ {"RESEND_REQUEST"}
    /\ UNCHANGED <<master, conn, connection_status, ready, download_state,
                   clocks, latch, symbols, books, session, requests, live, wire,
                   gap, history>>

ResendRequest ==
    /\ Receiving
    /\ "RESEND_REQUEST" \in owed
    /\ conn' = "closing"
    /\ owed' = owed \ {"RESEND_REQUEST"}
    /\ UNCHANGED <<master, connection_status, ready, download_state, clocks,
                   latch, symbols, books, session, requests, live, wire, gap,
                   history>>

TestRequest ==
    /\ Receiving
    /\ session = "open"
    /\ send({}, owed)
    /\ UNCHANGED <<master, conn, connection_status, ready, download_state,
                   clocks, latch, symbols, books, session, live, wire, history>>

(* A reject of the security list request is logged and nothing else. *)
Reject ==
    /\ Receiving
    /\ "SECURITY_LIST" \in owed
    /\ owed' = owed \ {"SECURITY_LIST"}
    /\ refused' = refused \cup {"SECURITY_LIST"}
    /\ UNCHANGED <<master, conn, connection_status, ready, download_state,
                   clocks, latch, symbols, books, session, requests, live, wire,
                   gap, silent, asked>>

-----------------------------------------------------------------------------
(* Symbols.  Controller(SymbolsUpdate) appends the new symbols to the      *)
(* slice and calls subscribe(start_from): a ready stream asks for them, a  *)
(* stream that is not will ask for the whole slice when it is.             *)

SubscribeAll(new) == symbols \cup new  \* mutant
SubscribeFrom(new) == new

(* From the REST instruments, a client, or another stream. *)
SymbolsUpdate(new) ==
    /\ conn # "terminated"
    /\ symbols' = symbols \cup new
    /\ \/ /\ ready
          /\ subscribe(SubscribeFrom(new), owed)
          /\ asked' = Asking(SubscribeFrom(new))
       \/ /\ ~ready
          /\ UNCHANGED <<owed, requests, gap, asked>>
    /\ UNCHANGED <<master, conn, connection_status, ready, download_state,
                   clocks, latch, books, session, live, wire, silent, refused>>

(* The first list, then updates.  The new symbols reach the slice before   *)
(* the download moves on, so the subscription of SUBSCRIBE includes them.  *)
SecurityList(new) ==
    /\ Receiving
    /\ session = "open"
    /\ master
    /\ "SECURITY_LIST" \in owed \/ download_state = "DONE"
    /\ symbols' = symbols \cup new
    /\ \/ /\ download_state = "SECURITIES"
          /\ download_subscribe(symbols \cup new, owed \ {"SECURITY_LIST"})
       \/ /\ download_state # "SECURITIES"
          /\ ready
          /\ subscribe(SubscribeFrom(new), owed)
          /\ asked' = Asking(SubscribeFrom(new))
          /\ UNCHANGED <<ready, download_state, connection_status,
                         test_disconnect_time>>
    /\ UNCHANGED <<master, conn, next_heartbeat, last_logon_or_heartbeat, latch,
                   books, session, live, wire, silent, refused>>

-----------------------------------------------------------------------------
(* The exchange's side of market data (external): requests are served in   *)
(* order, a subscription with a snapshot and updates behind it.            *)

ExchangeServes ==
    /\ Receiving
    /\ requests # <<>>
    /\ requests' = Tail(requests)
    /\ \/ /\ Head(requests).type = "SUBSCRIBE"
          /\ Len(wire) < MaxWire
          /\ live' = live \cup {Head(requests).symbol}
          /\ \E type \in {"SNAPSHOT", "EMPTY"} :
                wire' = Append(wire, [type |-> type,
                                      symbol |-> Head(requests).symbol])
       \/ /\ Head(requests).type = "UNSUBSCRIBE"
          /\ live' = live \ {Head(requests).symbol}
          /\ wire' = wire
    /\ UNCHANGED <<master, conn, connection_status, ready, download_state,
                   clocks, latch, symbols, books, session, owed, gap, history>>

ExchangeUpdates(s) ==
    /\ Receiving
    /\ s \in live
    /\ Len(wire) < MaxWire
    /\ wire' = Append(wire, [type |-> "INCREMENT", symbol |-> s])
    /\ UNCHANGED <<master, conn, connection_status, ready, download_state,
                   clocks, latch, symbols, books, session, owed, requests, live,
                   gap, history>>

-----------------------------------------------------------------------------
(* Inbound market data *)

Arrives(type) == Receiving /\ wire # <<>> /\ Head(wire).type = type

latching_dropped(s) == latch' = latch  \* mutant

(* resubscribe(): the latch keeps increments away until the new snapshot *)
latching(s) == latch' = latch \cup {s}

(* Levels of a latched symbol are not published; trades and statistics     *)
(* are (not modelled: no state depends on them).  The dispatcher may find  *)
(* that the levels do not fit the book (BadState).                         *)
MarketDataIncrementalRefresh ==
    /\ Arrives("INCREMENT")
    /\ wire' = Tail(wire)
    /\ LET s == Head(wire).symbol IN
       \/ /\ s \in latch \/ ~PublishMarketByPrice
          /\ book' = [book EXCEPT ![s] = Lost(@)]
          /\ UNCHANGED <<withheld, latch, owed, requests, gap>>
       \/ /\ s \notin latch /\ PublishMarketByPrice
          /\ book' = [book EXCEPT ![s] = Applied(@)]
          /\ UNCHANGED <<withheld, latch, owed, requests, gap>>
       \/ /\ s \notin latch /\ PublishMarketByPrice
          /\ book' = [book EXCEPT ![s] = "missed"]
          /\ withheld' = withheld \ {s}
          /\ latching(s)
          /\ unsubscribe_subscribe(s, owed)
    /\ UNCHANGED <<master, conn, connection_status, ready, download_state,
                   clocks, symbols, session, live, history>>

(* A snapshot ends the latch even if it has no levels, and then nothing is *)
(* published: clients keep the levels they have, and the increments that   *)
(* follow are published on top of those.  A snapshot the dispatcher cannot *)
(* use ends the process.                                                   *)
MarketDataSnapshotFullRefresh ==
    /\ wire # <<>> /\ wire' = Tail(wire)
    /\ LET s == Head(wire).symbol IN
       /\ \/ /\ Arrives("SNAPSHOT")
             /\ book' = [book EXCEPT ![s] = Replaced(@)]
             /\ withheld' = withheld \ {s}
             /\ \/ UNCHANGED conn
                \/ PublishMarketByPrice /\ conn' = "terminated"
          \/ /\ Arrives("EMPTY")
             /\ book' = [book EXCEPT ![s] = Emptied(@)]
             /\ withheld' = IF book[s] = "none" THEN withheld
                                                ELSE withheld \cup {s}
             /\ UNCHANGED conn
       /\ latch' = latch \ {s}
    /\ UNCHANGED <<master, connection_status, ready, download_state, clocks,
                   symbols, session, owed, requests, live, gap, history>>

(* Only logged, unless the process is to end. *)
MarketDataRequestReject ==
    /\ Receiving
    /\ requests # <<>>
    /\ Head(requests).type = "SUBSCRIBE"
    /\ requests' = Tail(requests)
    /\ refused' = refused \cup {Head(requests).symbol}
    /\ conn' = IF TerminateOnReject THEN "terminated" ELSE conn
    /\ UNCHANGED <<master, connection_status, ready, download_state, clocks,
                   latch, symbols, books, session, owed, live, wire, gap, silent,
                   asked>>

Terminated ==
    /\ conn = "terminated"
    /\ UNCHANGED mdVars

-----------------------------------------------------------------------------
MarketDataNext ==
    \/ Connected \/ Disconnected
    \/ Timer
    \/ Heartbeat \/ Logon \/ Logout \/ ResendRequest \/ TestRequest \/ Reject
    \/ \E new \in SUBSET (Symbol \ symbols) : SecurityList(new)
    \/ \E new \in SUBSET (Symbol \ symbols) : SymbolsUpdate(new)
    \/ ExchangeServes
    \/ \E s \in Symbol : ExchangeUpdates(s)
    \/ MarketDataIncrementalRefresh
    \/ MarketDataSnapshotFullRefresh
    \/ MarketDataRequestReject
    \/ Terminated

MarketDataSpec == MarketDataInit /\ [][MarketDataNext]_mdVars

(* The event loop keeps running the timer and close() takes effect. *)
GatewayFairness ==
    /\ WF_mdVars(Timer)
    /\ WF_mdVars(conn = "closing" /\ Disconnected)

(* The exchange answers, and what it sent arrives. *)
ExchangeFairness ==
    /\ WF_mdVars(Logon)
    /\ WF_mdVars(Reject \/ \E new \in SUBSET (Symbol \ symbols) :
                                 "SECURITY_LIST" \in owed /\ SecurityList(new))
    /\ WF_mdVars(ResendRequest)
    /\ WF_mdVars(ExchangeServes \/ MarketDataRequestReject)
    /\ WF_mdVars(MarketDataIncrementalRefresh \/ MarketDataSnapshotFullRefresh)

(* The connection manager does not refuse every probe for ever. *)
SendFairness == SF_mdVars(TimerHeartbeat /\ "RESEND_REQUEST" \in owed')

MarketDataLiveSpec == MarketDataSpec /\ GatewayFairness

-----------------------------------------------------------------------------
(* An increment is only published on top of the exchange's book, and a     *)
(* subscribed book with no snapshot under way is the exchange's, whatever  *)
(* the order of bad states, cancelled subscriptions, increments still in   *)
(* flight and reconnects: the latch and the order of the requests see to   *)
(* it.  There is one exception, and it is the code's: the snapshot that    *)
(* should have repaired the book had no levels.  It releases the latch and *)
(* is not published, so the levels of before stay, and increments are then *)
(* published on top of them (withheld), until a snapshot with levels, a    *)
(* bad state or a reconnect.                                               *)
BookInSync ==
    /\ \A s \in Symbol : book[s] = "wrong" => s \in withheld
    /\ \A s \in live \ latch :
          \/ book[s] = "current"
          \/ s \in withheld
          \/ \E i \in 1..Len(wire) :
                wire[i].symbol = s /\ wire[i].type # "INCREMENT"
          \/ ~PublishMarketByPrice

(* While the stream is ready subscribe() has been called for every symbol  *)
(* of its slice exactly once since the login, however the list of          *)
(* securities, updates from elsewhere and the login interleave, and one    *)
(* that is not ready has asked for none.  (Whether the requests went out   *)
(* is another matter: SliceReachesExchange.)                               *)
AskedOnce ==
    \A s \in Symbol : asked[s] = IF ready /\ s \in symbols THEN 1 ELSE 0

(* What a ready stream asked for reaches the exchange, as long as no send  *)
(* was refused (which leaves a gap, and the gap ends the session): every   *)
(* symbol of the slice is followed, its subscription is still to be served *)
(* or was rejected.  Cut into requests of limited size none is left out,   *)
(* and a cancelled subscription is always followed by a new one.           *)
SliceReachesExchange ==
    ready /\ ~gap =>
        \A s \in symbols :
            \/ s \in live \/ s \in refused
            \/ \E i \in 1..Len(requests) :
                  requests[i] = [type |-> "SUBSCRIBE", symbol |-> s]

(* The age the timeout is decided on never exceeds the time the exchange   *)
(* has been silent in this connection: neither Logon nor Disconnected      *)
(* resets it, but no connection is closed because of an earlier one.       *)
TimeoutOnlyAfterSilence ==
    conn = "up" /\ last_logon_or_heartbeat # Unset =>
        last_logon_or_heartbeat <= silent

(* A logon or test request that no heartbeat follows closes the            *)
(* connection: further probes do not restart its clock.                    *)
ProbeAnsweredOrClosed ==
    (conn = "up" /\ last_logon_or_heartbeat # Unset)
        ~> (last_logon_or_heartbeat = Unset \/ conn # "up")

(* With an exchange that answers and sends that are not refused, a         *)
(* connection becomes READY, is lost, or had its request for the list of   *)
(* securities rejected (which is only logged).                             *)
MarketDataComesUp ==
    ExchangeFairness /\ []~gap =>
        ((conn = "up") ~> \/ connection_status = "READY"
                          \/ conn # "up"
                          \/ "SECURITY_LIST" \in refused)

(* A latched book gets its snapshot, or the connection is lost, or the new *)
(* subscription was rejected (which is only logged, so the book stays      *)
(* without increments).  A request that send() could not write does not    *)
(* leave it latched: the gap is noticed and the session closed.            *)
LatchResolved ==
    ExchangeFairness /\ SendFairness =>
        \A s \in Symbol :
            (s \in latch /\ ready)
                ~> (s \notin latch \/ conn # "up" \/ s \in refused)

(* What clients are shown of the stream is what every stream promises. *)
AsStream == INSTANCE Stream WITH
    link   <- IF conn = "down" THEN "down" ELSE "up",
    status <- connection_status

ImplementsStream == AsStream!Spec

=============================================================================
