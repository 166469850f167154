# roq-deribit in TLA+

A specification of the Deribit gateway, its model checking with TLC
and proofs with TLAPS. Source paths below are relative to `src/roq/deribit/`.
`PROJECT.json` maps every definition to the lines it models.

## 1. The system

The gateway connects the roq trading server to the Deribit exchange. One thread
runs an event loop; every handler (`operator()(Trace<...>)`) runs to completion,
so a step of the models is one whole handler. The difficulty is not in threads
but in time and the network: what happens between two handlers.

| Component | State it keeps | Operations | Hard because |
|---|---|---|---|
| `gateway/order_entry.cpp`, session | connection status, `ready_`, `download_`, heartbeat and timeout clocks | Timer, Connected, Disconnected, Logon, Logout, Heartbeat, TestRequest, ResendRequest, PositionReport, mass status | two notions of ready, several clocks, reconnects, sends that fail, reports nobody asked for |
| `gateway/order_entry.cpp`, requests | outbound sequence number, `msg_seq_num_to_request_id_` | create, modify, cancel, cancel all; ExecutionReport, OrderCancelReject, Reject, OrderMassCancelReport | answers are matched by label, by request id or by sequence number; numbers start again after a reconnect |
| `gateway/channel.cpp` | last sequence number, `initialized_`, `ready_`, collected levels | frame check, reset, snapshot start and end | loss, repeats, reordering, wrap-around |
| `gateway/udp_events.cpp` | channels, `last_trades_`, `last_ticker_` | Frame, Instrument, Book, Trades, Ticker | an update spans datagrams; late datagrams move the channel back |
| `gateway/udp_snapshot.cpp` | channels | Frame, Instrument, SnapshotStart, Snapshot, SnapshotEnd | shares instruments and sequencers with the events stream |
| `gateway/market_data.cpp` | FIX session, slice of symbols, latched symbols | security list, subscribe, resubscribe, refreshes, rejects | snapshots against increments in flight, requests in batches, session clocks that are not reset |
| `gateway/web_socket.cpp` | login and download state, subscription queue, cached quotes | auth, downloads (master), subscribe, quotes | waits for another stream's downloads; symbols arrive during the login |
| `gateway/drop_copy.cpp` | login state, latch, currencies, request queue | auth, currencies, latch, trades | three events in any order decide what is asked for |
| `gateway/rest.cpp`, `gateway/request.cpp` | connection, two downloads, chart data requests | requests and answers | failures, answers that outlive the session that asked |
| `gateway/controller.cpp`, `gateway/shared.*` | streams, symbols and their slices, multipliers | routing, creation of streams | updates while streams come and go |
| `tools/throttle.cpp` | end of the back-off | response headers and status | a back-off that must neither be lost nor shortened |
| `strategy/`, `bridge/`, `fix_bridge/`, `dump/`, `filter/` | test programs and tools | | see section 6 |

Interaction: streams call the server's dispatcher (order management, market data)
and share `Shared`; the controller routes client requests to `OrderEntry` and
symbol updates to the market data streams; both UDP streams share
`Shared::instruments` and the sequencer of each instrument. REST downloads
currencies and instruments when the master WebSocket stream asks for them
through `Request`; new currencies go to the drop copy, new symbols (from REST, the
FIX security list or a client) to the market data and WebSocket streams of their
slice; a WebSocket stream that is ready releases ("latches") the drop copy.

What makes the parts correct: a stream is READY only when its download is
complete and stops being READY when its connection goes; a dead connection is
noticed and a live one is left alone; a response is given to the request it
answers; a book is built from whole updates in order, and never from increments
after one was missed; every symbol is subscribed once, on one stream of each kind;
downloads end, and what waits for them goes on.

External, modelled from how the code uses it: the exchange,
`io::net::ConnectionManager`, `web::socket::Client`, `web::rest::Client`,
`core::Download2`, `core::limit::Request` and `Queue` with the rate limiter,
`core::Symbols`, the order management and the books of the dispatcher,
`market::mbp::Sequencer`.

## 2. Modules

| Module | Models | Used by |
|---|---|---|
| `OrderEntrySession` | the FIX session of order entry | `OrderEntry`, `MCOrderEntrySession` |
| `OrderEntry` | requests, numbers, reject map and responses, on top of the session | `MCOrderEntry` |
| `OrderEntrySessionProofs`, `OrderEntryProofs`, `UDPEventsProofs`, `UDPSnapshotProofs`, `MarketDataProofs`, `DropCopyProofs`, `ControllerProofs` | theorems about the module of that name | |
| `GatewayProofs` | theorems about `Rest` and `Gateway` | |
| `Channel` | the value of one multicast channel | `Multicast` |
| `Multicast` | datagrams, the network, the dispatch of their messages | `UDPEvents`, `UDPSnapshot` |
| `UDPEvents` | the incremental stream of one channel | `MCUDPEvents` |
| `UDPSnapshot` | the snapshot stream of one channel | `MCUDPSnapshot` |
| `Stream` | abstract: the status a stream shows its clients | refined by `OrderEntrySession`, `MarketData`, `WebSocket` (in `Gateway`), `DropCopy` |
| `MarketData` | a FIX market data stream | `MCMarketData` |
| `DropCopy` | the drop copy of an account | `Gateway`, `MCDropCopy` |
| `Rest` | REST stream, downloads and throttle | `Gateway`, `MCRest` |
| `WebSocket` | the WebSocket streams, one per slice | `Gateway` |
| `Gateway` | composes `Rest`, `WebSocket` and `DropCopy` as the controller does | `MCGateway` |
| `Controller` | symbols, slices, streams, multipliers | `MCController` |

Definitions marked `\* mutant` are wrong on purpose: a property is only worth
something if replacing the definition after them by the mutant violates it.

### OrderEntrySession

Time points become ages and countdowns in timer events, so a run has no end of
time: `last_logon_or_heartbeat` is the age of the oldest unanswered probe,
`next_heartbeat`, `test_logon_time`, `test_disconnect_time` count down. The
handler of `Timer` is one action per path (`TimerTimeout`, `TimerTestDisconnect`,
`TimerHeartbeat`, `TimerLogon`, `TimerIdle`). `refresh()` is true exactly while
`conn = "up"`; `close()` makes it `"closing"` and `Disconnected` follows, with
whatever the read buffer still held dispatched in between.

`send` is the code's `send()`: it uses up a number even if nothing is written,
which is remembered as `gap`; an exchange that sees a later number asks for a
resend. `owed` and `reports` are what the exchange has yet to say. Whether an
answer is in flight or not sent yet makes no difference to the gateway, so there
is no network in between; FIX over TCP neither repeats nor reorders.

A reject of anything but an order request, the logon included, closes the
connection or ends the process (`RejectClose`, `RejectFatal`), and so does a mass
status report of an unknown type (`ReportFatal`).

`check` (the inbound sequence check) only logs and is left out, as are latency
measurements and the contents of reports.

### OrderEntry

Every action is a session action conjoined with the number of messages it sends
(`Sends(n)`), or leaves the session alone, so the module implements
`OrderEntrySession` by construction (a lemma of the proofs, not a property: it says
nothing of the code). `sent` and `responses` are history. A response records the
request the exchange answered (`to`) and what the gateway matched it by: the label
(`client_order_id`) or the `request_id`. `emplace` keeps an existing entry, as the
C++ map does. Requests that the handlers refuse before `send` (not ready, stop
price, filter) change nothing and are not steps. On a disconnect the exchange may
cancel the working orders or not (`cancel_on_disconnect` is a setting).

### Channel, UDPEvents, UDPSnapshot

A datagram holds any number of messages of any kinds, and an update or snapshot
of several parts (`update`, `part`, `of`) is spread over datagrams in any way.
`Multicast` has what the two streams share: the exchange packs messages into
datagrams, `Skip` and `Receive` are the Frame handler, which refuses or accepts a
whole datagram, and the messages of an accepted one are then dispatched one by one,
as `Parser::dispatch` does, before another is delivered. Levels are named by the part
they came in, so the properties can say which parts were handed over. Loss is
non-delivery; `Late` bounds how far behind the newest a datagram may still arrive
(again). `channel.instrument_id` is only read by asserts; what they say follows from
`HandedFromOneUpdate` and `NoLeftOvers`. One channel is modelled: channels share
nothing but instruments.

In `UDPSnapshot` the events stream appears as `EventsUpdate` (a sequencer becomes
ready, or is cleared) and the creation of instruments. Both may happen at any time
between two datagrams, also amid a snapshot, which is the race the source marks FIXME
(`udp_snapshot.cpp:224`); `raced` remembers that it happened to the snapshot being
read. In `UDPEvents` the sequencer is where updates are `handed`.

### Stream

What a client can rely on who only follows `StreamStatus`: the status moves
forward through login, download and READY, READY only comes after the exchange
answered a login of the present connection, and the only ways back are a logout
and a disconnect. The refinement mappings are one line each: the connection is
the link, `connection_status_` the status, and the exchange's view of the login
the session.

### MarketData

The session is like `OrderEntrySession`'s, with the differences the code has: the
logon is sent in `Connected`, its answer does not stop the clock (the first
heartbeat does), a disconnect resets neither the clock nor the latch, and a stream
that is not the master has no download. `send` is one message; `send_orders` are
the requests of `subscribe` and `resubscribe`, since `subscribe` splits a slice into
requests of `MaxSize` symbols and each of them can be refused. The queue of requests
holds one order per symbol, so a refusal cuts it at a multiple of the request size.

A book is abstracted to what is known of it: `current` (the exchange's as of the
last message), `missed` (an update was lost), `emptied` (a snapshot without levels
said it is empty, but the levels of before were not taken back), `wrong` (an
increment was published on one of these), `none`. `withheld` remembers the symbols
whose last snapshot had no levels. The exchange serves requests in order,
sends a snapshot and then increments until it is told to stop, and `wire` holds
what is in flight, so that increments of a cancelled subscription still arrive.
A "bad state" of the dispatcher may happen at any increment; it makes the handler
latch the symbol, cancel and subscribe again.

### DropCopy, Rest, WebSocket, Gateway

`DropCopy` has the three conditions of `CurrenciesUpdate` and `Latch` as they are;
the queue is a sequence and the timer sends a prefix of it, as much as the rate
limiter allows. `Rest` has one response for each request, or a network error.
`request` is the state of `core::limit::Request` per download: idle, pending,
sent, done; a failure is committed like a success, and a redirection ends the
process. Time is a countdown, as elsewhere, and `Throttle` is the effect of headers
and status on it when `EnableRateLimit` (`experimental.enable_rate_limit`) says so.
Who reads `suspend_until_` is the rate limiter, which is external: in the model a
request may go out or not, and no property is about requests being held back.

`WebSocket` is indexed by stream; a slice has one symbol there. Actions leave out
what they call on other streams, and `Gateway` conjoins them with it: a login of
the master with the request for the currencies, their answer with
`CurrenciesUpdate` of the drop copy, the end of a download with `Latch`, new
symbols with the subscription on every stream that is ready. `DropCopyNext` and
`RestNext` let the other streams act at any time instead; `Gateway` has the real
ones, and each of its steps is one handler with everything it calls.

### Controller

`symbols` is the sequence of `core::Symbols`, cut into slices of `MaxSubscriptions`,
with a MarketData and a WebSocket stream each. The sources are a FIX security list,
the REST instruments and clients. A list matters only by the symbols in it that are
new and their order, so it is a set, and the new ones are taken in any order. The
first two sources also store multipliers, for every symbol they list. `Quote` is
what the multipliers are for: `get_top_of_book` drops a quote of a symbol without
one.

## 3. Runs

| Run | Expect | Shows |
|---|---|---|
| `session` | pass | order entry session: READY, reconnects, timeouts, liveness, refinement of `Stream` |
| `order_entry` | pass | no request disappears, the reject map covers the session, rejects attributed up to number reuse |
| `order_entry_reject` | violation | `RejectNamesItsRequest`: after a reconnect a reject goes to a request of the previous session |
| `events` | pass | no mixture of updates, trades once and in order, under loss, repeats and reordering |
| `events_complete` | violation | `HandedComplete`: after a packet drop on an initialized channel the rest of an update is handed over as the whole |
| `snapshot` | pass | snapshots are handed over whole or not at all but for the race of the FIXME, and never mixed |
| `market_data` | pass | books in sync but for withheld snapshots, subscriptions once and sent, justified timeouts, latches resolved, refinement of `Stream` |
| `controller` | pass | each symbol followed, once, on the stream of its slice; its quotes published |
| `drop_copy` | pass | each currency asked for once per session and followed, whatever comes first |
| `drop_copy_trades` | violation | `DownloadedTradesManaged`: trades of before `user.changes` is subscribed are dropped |
| `rest` | pass | downloads are answered, a block holds (with rate limiting enabled) |
| `gateway` | pass | the master waits for its own downloads, slices are subscribed once, symbols are followed |

The violations are real disagreements between the code and its comments;
`findings` in `PROJECT.json` quotes them. Five more are one constant away from a
passing run:

- `UnsolicitedReports = TRUE` in `session.cfg`: `DownloadComplete` fails, because
  `check_relaxed` counts every execution report in state ORDERS, also one that the
  mass status did not announce (`order_entry.cpp:795`, against the note at `:426`).
- `FirstSequence = 1` in `events.cfg`: `FirstFrameOnly` fails, with the assert at
  `channel.cpp:33`: number 1 is in sequence with the initial 0, so the channel is
  never marked initialized and the first loss is taken for the first frame.
- `FirstSequence = SequenceModulus - 2` in `events.cfg`: every property of the run
  fails. `PublishedOnceInOrder`, since a late datagram of before the wrap counts as
  newer; the others, since a gateway that joins at number 1 after the wrap is in the
  case before: its next gap is taken for the first frame, which is accepted and clears
  no levels.
- `FirstSequence = 14`, `Late = 4` and one instrument in `events.cfg`:
  `PublishedOnceInOrder` fails without any wrap-around. The midpoint is 16 there
  (2^31 in the code). Once 17 was dispatched, a late 14 is below the midpoint and
  the cache above it, so `test_sequence` takes 14 for a number after the wrap
  (`udp_events.cpp:98`) and sets the cache back; 15 and 16 are then dispatched after
  17. The proof of `DispatchedOnceInOrder` is where this was met.
- `SendMayFail = TRUE` and without the hypothesis `[]~gap`: `SessionComesUp` and
  `MarketDataComesUp` fail; no timer watches a download.

Three more are visible in the models without a property: a fill that answers no
request is dispatched as accepted (`compute_request_status`, against the table at
`order_entry.cpp:524`), the second trades or ticker message of an instrument in a
datagram is dropped as out of sequence (`udp_events.cpp:412`), and
`ws.market_data_max_subscriptions_per_stream` is not read: WebSocket slices are cut
by the flag for FIX (`shared.cpp:49`).

Properties of `session`: `ReadyAgrees` (what requests read and what the timer
reads differ only while a close is under way), `NothingSurvivesDisconnect`,
`DownloadComplete`, `TimeoutOnlyAfterSilence`, `SessionIsStream` (safety), and
`ProbeAnsweredOrClosed`, `SessionComesUp`, `GapClosesSession` (liveness).

Properties of `order_entry`: `RequestAccountedFor` is about requests that nobody
would answer: accepted between a `close()` and the Disconnected callback, sent with a
number that is lost or used twice, or rejected without an entry in the map. It holds
because a send that fails leaves a hole, for which the session ends.

Properties of `snapshot`: `HandedWhole` excepts the snapshots that were `raced`, and
says with this that the race is the only way to an incomplete one.
`HandedFromOneSnapshot` and `NoLeftOvers` have no exception: whatever the events
stream does in between, levels are never mixed, repeated or left over. That a raced
snapshot may be handed to a sequencer that has become ready is part of the FIXME; the
model has it, and no property denies it.

Properties of `market_data`: `BookInSync` is the heart of the module: an increment is
published on top of the exchange's book only, whatever bad states, cancelled
subscriptions, increments in flight and reconnects come together. It rests on the
latch being set in the handler that resubscribes and on the exchange serving
requests in order. Its exception is explicit, and is a weakness of the code: a
snapshot without levels releases the latch (`market_data.cpp:661`) but is not
published (`:710`), so the clients keep the levels of before, and the next increments
are published on top of them (`:595`). `AskedOnce` counts calls of `subscribe`;
`SliceReachesExchange` says that the requests they are cut into leave no symbol out,
as long as `send()` refuses none. `LatchResolved` says
that a latched book gets its snapshot even if the request for it was refused by
`send()`, because the gap in the numbers closes the session; a rejection by the
exchange is only logged and is the other way out.

Bounds. `session`: the timeout spans two ping periods and more, as the defaults do,
so several probes are outstanding at once; up to two announced reports so that the
count matters; each connection is made with the test disconnect on or off, so that
the liveness properties do not rest on it. `order_entry`: two requests and two
sessions are enough for a number to be reused, and six messages for a logon, a
download, a probe and the requests. `events`: two instruments, updates of up to
three parts, four messages in one to four datagrams, up to three late: enough for a
loss within an update followed by the rest of the next, and for a channel moved back
two. `events_complete`: three messages, one update of three parts. `snapshot`: five
messages, which is a cycle with a snapshot of three parts or with two snapshots and
their end; the race and the loss of any datagram fit in. `market_data`: two symbols,
one per request, so that a subscription is cut in two, and two book messages in
flight, so that an increment of a cancelled subscription and the snapshot of the
next are on their way together; requests have a queue of their own. The timeout and
the ping period are one timer event there; that several probes are outstanding at
once is in `session`. `controller`: three symbols in slices of two, so that a list
may complete a slice, begin one, or both. `drop_copy`: two currencies, so that one
is announced after the other was asked for. `rest`: a block of two timer events and
a back-off of one, with Retry-After in the past and longer than both. `gateway`: one
currency, two symbols, hence a master and one more stream; the back-off, chart data
and trades are switched off there and belong to the runs of their components.
`MaxEpoch`, `MaxSeqNum`, `MaxSent`, `MaxParts`, `MaxReports`, `MaxWire` are bounds
of the models, not of the code; the proofs hold for every value of them. Request ids
and instruments are symmetric; the runs with liveness use no symmetry.

Fairness. The event loop keeps running the timer and a `close()` takes effect
(`GatewayFairness` in `OrderEntrySession` and `MarketData`): this is all that
`ProbeAnsweredOrClosed` uses, the exchange may fall silent. The properties about
coming up assume in addition, as a hypothesis in the formula, that the exchange
answers what it was asked (`ExchangeFairness`); `SessionComesUp` and
`MarketDataComesUp` also that no send fails, `GapClosesSession` and `LatchResolved`
that not every probe for ever does (`SendFairness`). `DropCopyFairness`: the timer
runs and the rate limiter does not refuse for ever. `RestFairness`: HTTP requests
are answered (a network error is an answer), and a connection that keeps being lost
gets a waiting request out in the end, which is why it is strong fairness: the
request is enabled again and again, but not continuously. `ControllerFairness`: a
stream that was started comes up in the end, which `MarketData` and `Gateway` are
about. `Gateway` has the same assumptions for the composition.

## 4. Proofs

All proofs are checked by tlapm with SMT, Zenon and LS4, for every value of the
constants that satisfies the named assumptions of the modules (`SessionAssumption`,
`OrderEntryAssumption`, `ChannelAssumption`, `MulticastAssumption`,
`UDPEventsAssumption`, `UDPSnapshotAssumption`, `MarketDataAssumption`,
`RestAssumption`, `DropCopyAssumption`, `WebSocketAssumption`,
`ControllerAssumption`). These give types, positive periods and sizes, and that sets
of symbols are finite. Where a theorem needs more, it says so as a hypothesis, and
section 3 shows that it is false without:

| Hypothesis | Says | Needed by |
|---|---|---|
| `~UnsolicitedReports` | no report arrives that the mass status did not announce | `DownloadsAreComplete` |
| `NoWrap` | the numbers start above 1 and do not reach the modulus | everything about the UDP streams |
| `OneSide` | the numbers stay on one side of the midpoint | `DispatchedOnceInOrder` |

With these, every safety property of a passing run is a theorem.

`OrderEntrySessionProofs`. The inductive invariant `SessionInv` is the types, and
`SessionStages`: which connection, download and status values go together, what
is true when the connection is down, and what the exchange can owe in each. It
is needed because `ReadyAgrees` alone is not inductive: that a download cannot
be finished twice, for example, rests on the stage of the session.
`SessionTypeCorrect`, `ReadyAgreesAlways` and `SessionsAreIndependent` follow;
`TimeoutsAreJustified` is inductive relative to it. `DownloadsAreComplete` adds
`DownloadInv`: the answers awaited are exactly those outstanding.
`SessionImplementsStream` is the refinement of `Stream`; it adds
`LoginInv`, which ties the status to the login (a logon is outstanding only in
LOGIN_SENT, and due only in a connection that sent none), without which a second
logon could not be excluded.

`OrderEntryProofs`. The lemma `OrderEntryImplementsSession` carries the theorems above
over to `OrderEntry`; it holds by the way the actions are written. `NumbersInv` says
that the numbers of this session's requests are used up and that what may still be
answered is of this session; it gives `MapAnswersRejects` and, with the lemma that
numbers name requests, `RejectsAreAttributed`: the reuse of a number after a reconnect
is the *only* way to a wrong attribution. `RequestsAreAccountedFor` goes through the
life of a request: it is sent or leaves a hole (`SentOrHole`), a hole stays until the
session is over (`HoleStays`), and whatever takes a request from those unanswered
dispatches a response to it (`AnswersRespond`). `OrderEntryTypeCorrect` completes the
types.

`UDPEventsProofs`. The invariant `BookInv` says where the channel is: at the
datagram it read last (`PositionInv`), with no levels or with levels of the update
that datagram is a part of, up to this part (`CollectedInv`). `HandedFromOneUpdate`
is not inductive without it, because what is handed over was collected several
datagrams earlier. A late datagram moves the channel back, which is why the position
is the message dispatched last and not the newest one. `UpdatesAreNotMixed`,
`FirstFrameIsFirst` and `EventsTypeCorrect` follow. `CacheInv` says that nothing was
dispatched that is newer than its cache; with `NewerIsLarger`, which is what
`OneSide` is for, it gives `DispatchedOnceInOrder`.

`UDPSnapshotProofs`. `SnapshotInv` is the same kind of invariant in two strengths.
Always, the levels are parts of the snapshot that is being read, in order and none
twice, and there are none outside a cycle (`CollectedInv`): this is
`SnapshotsAreNotMixed` and `NothingIsLeftOver`. Of a snapshot that was not raced it is
exact: the levels are all its parts so far if its instrument waits for one and the
start of the cycle was read, and none otherwise, which makes
`SnapshotsAreHandedWhole` inductive. No hypothesis about the events stream is needed.

`MarketDataProofs`. `Stages` is the counterpart of `SessionStages`; it gives
`MarketDataImplementsStream`, and with `AskedInv` `SymbolsAreAskedOnce`.
`TimeoutsAreJustified` is inductive with the types of the clocks (`ClocksInv`): a
disconnect leaves the age as it was, but it also leaves the silence, and a
connection made after it sends a logon. `BooksAreInSync` rests on `BookInv`: a
subscribed symbol that is not latched has a book that is current or withheld, or its
snapshot is in flight, and if its book is not current the snapshot comes *before*
every increment in flight. The second half is what `BookInSync` lacks to be
inductive. It holds because requests are served in order and a latched symbol is
released only by a snapshot. `SlicesReachExchange` needs `SliceInv`, which adds that
every cancellation in the queue is followed by a subscription of its symbol
(`Renewed`): serving it would otherwise leave the symbol to nobody. `QueuesInv`
(only symbols of the slice are in a queue) completes `MarketDataTypeCorrect`.

`GatewayProofs`. First `Rest` on its own: `RestTypeCorrect`, and `BlocksHold` for
all periods and headers: every operator of the throttle returns a time no earlier
than the one it was given, a 403 one no earlier than the end of the block, and the
timer takes one off both. Then the composition. `StageInv` says which of the states
of a WebSocket stream go together; `WebSocketsImplementStream` follows. `MasterInv`
says that a response the master finds in its stage came in since it logged in,
because the login resets the downloads: this is `MasterWaits`. (The request it
answers may be older: what `core::limit::Request` does with a late answer is
external.) `SliceInv` ties what a stream has queued and sent to whether it is ready
and has a slice, and gives `SlicesAreAskedOnce`. `GatewayImplementsDropCopy` needs
only that the drop copy was told of exactly the currencies known (`ToldInv`); with
it `GatewayAsksOnce` is `CurrenciesAreAskedOnce` in the composition.

`DropCopyProofs`. `CurrenciesAreAskedOnce` for any set of currencies. The property
is inductive once it is known that a stream that is ready has had its login
answered (`AskedInv`): an answer to the login finds nothing asked yet, new
currencies are new, and the latch is only set once. `RequestsAreSentOnce` needs
`QueueInv`: no two requests that wait overlap, none overlaps with what was sent, and
what waits is of currencies known, and per currency only once latched.
`DropCopyImplementsStream` needs no invariant: every step that changes the status
says what the one before was.

`ControllerProofs`. `EachSymbolIsAskedOnce` for every slice size: `SliceInv` says
that no symbol was taken twice and that what a stream asked for is, as a list, its
slice so far. The work is in lemmas about slices: a slice is an interval of the list
(`SliceOfIsInterval`), two intervals do not meet (`PartsMeet`), and when the list
grows a slice grows by exactly what `get_slice` returns from the old length on
(`SliceGrows`). `QuotesOfListedArePublished` is inductive with `MultiplierInv`: who
lists a symbol stores its multiplier, also of symbols taken before.

Only model-checked: the liveness properties `ProbeAnsweredOrClosed`,
`SessionComesUp`, `GapClosesSession`, `MarketDataComesUp`, `LatchResolved`,
`EverySymbolFollowed`, `PortfolioFollowed`, `DownloadAnswered` and `SymbolsFollowed`
(fairness is out of reach of the prover), and the three violations, which are
counterexamples and need no proof.

## 5. Hazards

`hazards` in `PROJECT.json` lists what is hard to test, at its line, with the
properties that would catch it. Where no property does, the note says why: either
the decision is with a library the gateway calls (order management, sequencer,
server), or the code behaves as its comments say and nothing forbids it.

## 6. Not modelled

Message encoding (`protocol/`) is generated or a table of enums. Flags, settings,
account and crypto are configuration and pure functions. `dump` and `filter` are
command line tools without state. `strategy`, `bridge` and `fix_bridge` are test
programs that place and cancel one hard-coded order; they do not take part in the
gateway. Their state machine has one race, listed as a hazard: an answer that
arrives after its timeout enters DONE a second time, against the assert at
`strategy/controller.cpp:74`, or goes back from DONE to WORKING.

Inside the modelled parts: logging, metrics, latencies, prices and quantities; the
stream status messages of the UDP streams and their timeout warning; what is
published straight from a message without touching state (reference data,
statistics, market trades, platform state, portfolios, bars); the caches that
suppress an equal quote or trading status; order requests and enable/disable in the
controller, which are passed on. The wrap-around of sequence numbers is in
`Channel` and `test_sequence` (numbers are taken modulo `SequenceModulus`), but the
numbers of the runs do not wrap.

## 7. Plan

Done: all streams of the gateway, the controller, the throttle, the abstract
stream and its refinements, the composition of REST, WebSocket and drop copy; the
safety properties of all runs proved.

Next:

1. The types of `Controller`, `DropCopy` and `Gateway` as theorems of their own; so
   far they are parts of the inductive invariants.
2. `Gateway` as a refinement of `Rest`, which `GatewayImplementsDropCopy` is for the
   drop copy; `BlockHolds` would then hold in the composition.
3. `DispatchedOnceInOrder` across the wrap-around and the midpoint, for the part that
   is true: without late datagrams, or with late ones that do not cross it.
