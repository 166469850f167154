-------------------------- MODULE MarketDataProofs --------------------------
(***************************************************************************)
(* The safety properties of MarketData for every set of symbols, request   *)
(* size, timeout and number of messages in flight.                         *)
(***************************************************************************)
EXTENDS MarketData, FiniteSetTheorems, SequenceTheorems, TLAPS

-----------------------------------------------------------------------------
(* Stages of a session: what the stream may believe and what it may be     *)
(* owed before the exchange answered the login, during the session and     *)
(* after the exchange ended it.                                            *)

Answers == {"LOGON", "SECURITY_LIST", "HEARTBEAT", "RESEND_REQUEST"}

Stages ==
    /\ conn \in {"down", "up", "closing", "terminated"}
    /\ session \in {"none", "open", "ended"}
    /\ owed \subseteq Answers
    /\ conn = "down" =>
          session = "none" /\ connection_status \in {"UNDEFINED", "DISCONNECTED"}
    /\ session = "none" =>
          /\ ~ready
          /\ download_state = "UNDEFINED"
          /\ owed \subseteq {"LOGON"}
          /\ conn # "down" => connection_status = "LOGIN_SENT"
    /\ session # "open" => requests = <<>> /\ wire = <<>> /\ live = {}
    /\ session = "open" =>
          /\ "LOGON" \notin owed
          /\ download_state \in {"SECURITIES", "DONE"}
          /\ download_state = "SECURITIES" =>
                ~ready /\ connection_status = "DOWNLOADING"
          /\ download_state = "DONE" => ready /\ connection_status = "READY"
    /\ session = "ended" =>
          /\ ~ready /\ conn = "closing"
          /\ connection_status = "LOGGED_OUT"
          /\ download_state \in {"UNDEFINED", "SECURITIES", "DONE"}

(* A message leaves the exchange owing its answers, or a resend request. *)
LEMMA SendOwes ==
    ASSUME NEW answers, NEW o, send(answers, o)
    PROVE  owed' \subseteq o \cup answers \cup {"RESEND_REQUEST"}
  BY DEF send

LEMMA OrdersOwe ==
    ASSUME NEW orders, NEW size, NEW o, send_orders(orders, size, o)
    PROVE  owed' \subseteq o \cup {"RESEND_REQUEST"}
  BY DEF send_orders

LEMMA StagesInit == MarketDataInit => Stages
  BY DEF MarketDataInit, Stages, Answers

LEMMA StagesStep == Stages /\ [MarketDataNext]_mdVars => Stages'
<1> SUFFICES ASSUME Stages, [MarketDataNext]_mdVars
             PROVE  Stages'
  OBVIOUS
<1> USE DEF Stages, Answers, Receiving
<1>1. CASE Connected
  BY <1>1 DEF Connected, PublishLoginSent
<1>2. CASE Disconnected
  BY <1>2 DEF Disconnected
<1>3. CASE TimerTimeout \/ TimerTestDisconnect \/ TimerIdle
  <2>1. /\ conn = "up" /\ conn' \in {"up", "closing"}
        /\ UNCHANGED <<session, owed, connection_status, ready, download_state,
                       requests, wire, live>>
    BY <1>3 DEF TimerTimeout, TimerTestDisconnect, TimerIdle, Elapse, Close
  <2>2. QED
    BY <2>1
<1>4. CASE TimerHeartbeat
  <2>1. owed' \subseteq owed \cup {"HEARTBEAT", "RESEND_REQUEST"}
    BY <1>4, SendOwes DEF TimerHeartbeat
  <2>2. QED
    BY <1>4, <2>1 DEF TimerHeartbeat, Elapse
<1>5. CASE Heartbeat
  BY <1>5 DEF Heartbeat
<1>6. CASE Logon
  <2>1. CASE master
    <3>1. owed' \subseteq (owed \ {"LOGON"}) \cup {"SECURITY_LIST", "RESEND_REQUEST"}
      BY <1>6, <2>1, SendOwes DEF Logon, download_begin, download_securities
    <3>2. QED
      BY <1>6, <2>1, <3>1 DEF Logon, download_begin
  <2>2. CASE ~master
    <3>1. owed' \subseteq (owed \ {"LOGON"}) \cup {"RESEND_REQUEST"}
      BY <1>6, <2>2, OrdersOwe
         DEF Logon, download_begin, download_subscribe, subscribe
    <3>2. QED
      BY <1>6, <2>2, <3>1 DEF Logon, download_begin, download_subscribe
  <2>3. QED
    BY <2>1, <2>2
<1>7. CASE Logout
  BY <1>7 DEF Logout
<1>8. CASE ResendRequest \/ Reject
  <2>1. CASE ResendRequest
    BY <2>1 DEF ResendRequest
  <2>2. CASE Reject
    BY <2>2 DEF Reject
  <2>3. QED
    BY <1>8, <2>1, <2>2
<1>9. CASE TestRequest
  <2>1. owed' \subseteq owed \cup {"RESEND_REQUEST"}
    BY <1>9, SendOwes DEF TestRequest
  <2>2. QED
    BY <1>9, <2>1 DEF TestRequest
<1>10. ASSUME NEW new \in SUBSET (Symbol \ symbols), SecurityList(new)
       PROVE  Stages'
  <2>1. owed' \subseteq owed \cup {"RESEND_REQUEST"}
    <3>1. CASE download_state = "SECURITIES"
      <4>1. owed' \subseteq (owed \ {"SECURITY_LIST"}) \cup {"RESEND_REQUEST"}
        BY <1>10, <3>1, OrdersOwe DEF SecurityList, download_subscribe, subscribe
      <4>2. QED
        BY <4>1
    <3>2. CASE download_state # "SECURITIES"
      BY <1>10, <3>2, OrdersOwe DEF SecurityList, subscribe
    <3>3. QED
      BY <3>1, <3>2
  <2>2. QED
    BY <1>10, <2>1 DEF SecurityList, download_subscribe
<1>11. ASSUME NEW new \in SUBSET (Symbol \ symbols), SymbolsUpdate(new)
       PROVE  Stages'
  <2>1. CASE ready
    <3>1. owed' \subseteq owed \cup {"RESEND_REQUEST"}
      BY <1>11, <2>1, OrdersOwe DEF SymbolsUpdate, subscribe
    <3>2. QED
      BY <1>11, <2>1, <3>1 DEF SymbolsUpdate
  <2>2. CASE ~ready
    BY <1>11, <2>2 DEF SymbolsUpdate
  <2>3. QED
    BY <2>1, <2>2
<1>12. CASE MarketDataIncrementalRefresh
  <2>1. owed' \subseteq owed \cup {"RESEND_REQUEST"}
    BY <1>12, OrdersOwe DEF MarketDataIncrementalRefresh, unsubscribe_subscribe
  <2>2. QED
    BY <1>12, <2>1 DEF MarketDataIncrementalRefresh, Arrives
<1>13. CASE MarketDataSnapshotFullRefresh
  BY <1>13 DEF MarketDataSnapshotFullRefresh, Arrives
<1>14. CASE MarketDataRequestReject
  BY <1>14 DEF MarketDataRequestReject
<1>15. CASE ExchangeServes \/ \E s \in Symbol : ExchangeUpdates(s)
  <2>1. /\ session = "open"
        /\ UNCHANGED <<conn, session, owed, connection_status, ready,
                       download_state>>
    BY <1>15 DEF ExchangeServes, ExchangeUpdates
  <2>2. QED
    BY <2>1
<1>16. CASE UNCHANGED mdVars
  BY <1>16 DEF mdVars, exchange
<1>17. QED
  BY <1>1, <1>2, <1>3, <1>4, <1>5, <1>6, <1>7, <1>8, <1>9, <1>10, <1>11,
     <1>12, <1>13, <1>14, <1>15, <1>16
     DEF MarketDataNext, Timer, Terminated

LEMMA StagesAlways == MarketDataSpec => []Stages
  BY StagesInit, StagesStep, PTL DEF MarketDataSpec

-----------------------------------------------------------------------------
(* What is asked for.  The stage tells that a login is answered before     *)
(* anything was asked for in its session.                                  *)
AskedInv ==
    /\ symbols \subseteq Symbol
    /\ asked \in [Symbol -> Int]
    /\ AskedOnce

LEMMA AskedInvStep == Stages /\ AskedInv /\ [MarketDataNext]_mdVars => AskedInv'
<1> SUFFICES ASSUME Stages, AskedInv, [MarketDataNext]_mdVars
             PROVE  AskedInv'
  OBVIOUS
<1> USE DEF AskedInv
<1>1. CASE UNCHANGED <<ready, symbols, asked>>
  BY <1>1 DEF AskedOnce
<1>2. CASE Disconnected \/ Logout
  <2>1. /\ ready' = FALSE /\ symbols' = symbols
        /\ asked' = [s \in Symbol |-> 0]
    BY <1>2 DEF Disconnected, Logout
  <2>2. QED
    BY <2>1 DEF AskedOnce
<1>3. CASE Logon
  <2>1. ~ready /\ symbols' = symbols
    BY <1>3 DEF Logon, Stages
  <2>2. CASE master
    BY <1>1, <1>3, <2>1, <2>2 DEF Logon, download_begin
  <2>3. CASE ~master
    <3>1. ready' = TRUE /\ asked' = Asking(symbols)
      BY <1>3, <2>3 DEF Logon, download_begin, download_subscribe
    <3>2. QED
      BY <2>1, <3>1 DEF AskedOnce, Asking
  <2>4. QED
    BY <2>2, <2>3
<1>4. ASSUME NEW new \in SUBSET (Symbol \ symbols), SecurityList(new)
      PROVE  AskedInv'
  <2>1. symbols' = symbols \cup new
    BY <1>4 DEF SecurityList
  <2>2. CASE download_state = "SECURITIES"
    <3>1. ~ready
      BY <1>4, <2>2 DEF SecurityList, Stages
    <3>2. ready' = TRUE /\ asked' = Asking(symbols \cup new)
      BY <1>4, <2>2 DEF SecurityList, download_subscribe
    <3>3. QED
      BY <2>1, <3>1, <3>2 DEF AskedOnce, Asking
  <2>3. CASE download_state # "SECURITIES"
    <3>1. ready /\ ready' = ready /\ asked' = Asking(new)
      BY <1>4, <2>3 DEF SecurityList, SubscribeFrom
    <3>2. QED
      BY <2>1, <3>1 DEF AskedOnce, Asking
  <2>4. QED
    BY <2>2, <2>3
<1>5. ASSUME NEW new \in SUBSET (Symbol \ symbols), SymbolsUpdate(new)
      PROVE  AskedInv'
  <2>1. symbols' = symbols \cup new /\ ready' = ready
    BY <1>5 DEF SymbolsUpdate
  <2>2. CASE ready
    <3>1. asked' = Asking(new)
      BY <1>5, <2>2 DEF SymbolsUpdate, SubscribeFrom
    <3>2. QED
      BY <2>1, <2>2, <3>1 DEF AskedOnce, Asking
  <2>3. CASE ~ready
    <3>1. asked' = asked
      BY <1>5, <2>3 DEF SymbolsUpdate
    <3>2. QED
      BY <2>1, <2>3, <3>1 DEF AskedOnce
  <2>4. QED
    BY <2>2, <2>3
<1>6. QED
  BY <1>1, <1>2, <1>3, <1>4, <1>5
     DEF MarketDataNext, Connected, Timer, TimerTimeout, TimerTestDisconnect,
         TimerHeartbeat, TimerIdle, Elapse, Heartbeat, ResendRequest,
         TestRequest, Reject, ExchangeServes, ExchangeUpdates,
         MarketDataIncrementalRefresh, MarketDataSnapshotFullRefresh,
         MarketDataRequestReject, Terminated, mdVars, history

LEMMA AskedInvAlways == MarketDataSpec => []AskedInv
<1>1. MarketDataInit => AskedInv
  BY DEF MarketDataInit, AskedInv, AskedOnce
<1>2. QED
  BY <1>1, AskedInvStep, StagesAlways, PTL DEF MarketDataSpec

(* While the stream is ready every symbol of its slice has been asked for  *)
(* exactly once in the session, and otherwise none has, in whatever order  *)
(* the login, the list of securities and updates of the slice come.        *)
THEOREM SymbolsAreAskedOnce == MarketDataSpec => []AskedOnce
<1>1. AskedInv => AskedOnce
  BY DEF AskedInv
<1>2. QED
  BY <1>1, AskedInvAlways, PTL

-----------------------------------------------------------------------------
(* What clients are shown *)

LEMMA StepIsStreamStep ==
    Stages /\ [MarketDataNext]_mdVars => [AsStream!Next]_(AsStream!vars)
<1> SUFFICES ASSUME Stages, [MarketDataNext]_mdVars
             PROVE  [AsStream!Next]_(AsStream!vars)
  OBVIOUS
<1> USE DEF Stages, Receiving
<1>1. CASE Connected
  BY <1>1 DEF Connected, PublishLoginSent, AsStream!Next, AsStream!Connect
<1>2. CASE Disconnected
  BY <1>2 DEF Disconnected, AsStream!Next, AsStream!Disconnect
<1>3. CASE Logon
  <2>1. connection_status' \in {"DOWNLOADING", "READY"}
    BY <1>3 DEF Logon, download_begin, download_subscribe
  <2>2. QED
    BY <1>3, <2>1 DEF Logon, AsStream!Next, AsStream!Answered
<1>4. CASE Logout
  BY <1>4 DEF Logout, AsStream!Next, AsStream!LogOut
<1>5. ASSUME NEW new \in SUBSET (Symbol \ symbols), SecurityList(new)
      PROVE  [AsStream!Next]_(AsStream!vars)
  <2>1. CASE download_state = "SECURITIES"
    BY <1>5, <2>1 DEF SecurityList, download_subscribe, AsStream!Next, AsStream!Advance
  <2>2. CASE download_state # "SECURITIES"
    BY <1>5, <2>2 DEF SecurityList, AsStream!vars
  <2>3. QED
    BY <2>1, <2>2
<1>6. CASE /\ UNCHANGED <<connection_status, session>>
           /\ conn # "down" /\ conn' # "down"
  BY <1>6 DEF AsStream!vars
<1>7. CASE UNCHANGED <<connection_status, session, conn>>
  BY <1>7 DEF AsStream!vars
<1>8. CASE Timer
  <2>1. /\ UNCHANGED <<connection_status, session>>
        /\ conn = "up" /\ conn' \in {"up", "closing"}
    BY <1>8 DEF Timer, TimerTimeout, TimerTestDisconnect, TimerHeartbeat,
                TimerIdle, Elapse, Close
  <2>2. QED
    BY <1>6, <2>1
<1>9. CASE MarketDataSnapshotFullRefresh \/ MarketDataRequestReject \/ ResendRequest
  <2>1. /\ UNCHANGED <<connection_status, session>>
        /\ conn \in {"up", "closing"}
        /\ conn' \in {conn, "closing", "terminated"}
    BY <1>9 DEF MarketDataSnapshotFullRefresh, Arrives, MarketDataRequestReject,
                ResendRequest
  <2>2. QED
    BY <1>6, <2>1
<1>10. QED
  BY <1>1, <1>2, <1>3, <1>4, <1>5, <1>7, <1>8, <1>9
     DEF MarketDataNext, Heartbeat, TestRequest, Reject, SymbolsUpdate,
         ExchangeServes, ExchangeUpdates, MarketDataIncrementalRefresh,
         Terminated, mdVars, exchange

(* The status clients follow moves through login, download and READY as    *)
(* Stream promises: READY only in a session the exchange opened, and back  *)
(* to the start when the connection is lost.                               *)
THEOREM MarketDataImplementsStream == MarketDataSpec => ImplementsStream
<1>1. MarketDataInit => AsStream!Init
  BY DEF MarketDataInit, AsStream!Init
<1>2. QED
  BY <1>1, StepIsStreamStep, StagesAlways, PTL
     DEF MarketDataSpec, ImplementsStream, AsStream!Spec

-----------------------------------------------------------------------------
(* Clocks *)

ClocksInv ==
    /\ next_heartbeat \in 0..PingFreq
    /\ last_logon_or_heartbeat \in {Unset} \cup (0..(RequestTimeout + 1))
    /\ test_disconnect_time \in {Unset} \cup Nat
    /\ silent \in 0..(RequestTimeout + 1)
    /\ TimeoutOnlyAfterSilence

LEMMA ClocksInvStep == ClocksInv /\ [MarketDataNext]_mdVars => ClocksInv'
<1> SUFFICES ASSUME ClocksInv, [MarketDataNext]_mdVars
             PROVE  ClocksInv'
  OBVIOUS
<1> USE MarketDataAssumption DEF ClocksInv, TimeoutOnlyAfterSilence, Unset
<1>1. CASE /\ UNCHANGED <<next_heartbeat, last_logon_or_heartbeat, silent>>
           /\ test_disconnect_time' \in {test_disconnect_time} \cup Nat
           /\ conn' = "up" => conn = "up"
  BY <1>1
<1>2. CASE Connected
  BY <1>2 DEF Connected, LogonAge
<1>3. CASE Disconnected
  BY <1>3 DEF Disconnected
<1>4. CASE Timer
  <2>1. /\ conn = "up" /\ silent' = Older(silent)
        /\ test_disconnect_time' = Closer(test_disconnect_time)
    BY <1>4 DEF Timer, TimerTimeout, TimerTestDisconnect, TimerHeartbeat,
                TimerIdle, Elapse
  <2>2. last_logon_or_heartbeat' \in {0, Older(last_logon_or_heartbeat)}
    BY <1>4 DEF Timer, TimerTimeout, TimerTestDisconnect, TimerHeartbeat,
                TimerIdle, Close, ProbeAge
  <2>3. next_heartbeat' \in {PingFreq, Closer(next_heartbeat)}
    BY <1>4 DEF Timer, TimerTimeout, TimerTestDisconnect, TimerHeartbeat,
                TimerIdle, Close
  <2>4. QED
    BY <2>1, <2>2, <2>3 DEF Older, Closer
<1>5. CASE Heartbeat
  BY <1>5 DEF Heartbeat
<1>6. CASE Logon
  <2>1. test_disconnect_time' \in {test_disconnect_time} \cup Nat
    BY <1>6 DEF Logon, download_begin, download_subscribe
  <2>2. QED
    BY <1>1, <1>6, <2>1 DEF Logon
<1>7. ASSUME NEW new \in SUBSET (Symbol \ symbols), SecurityList(new)
      PROVE  ClocksInv'
  <2>1. test_disconnect_time' \in {test_disconnect_time} \cup Nat
    BY <1>7 DEF SecurityList, download_subscribe
  <2>2. QED
    BY <1>1, <1>7, <2>1 DEF SecurityList
<1>8. CASE MarketDataSnapshotFullRefresh \/ MarketDataRequestReject
           \/ ResendRequest \/ Logout
  <2>1. /\ UNCHANGED <<next_heartbeat, last_logon_or_heartbeat, silent,
                       test_disconnect_time>>
        /\ conn' \in {conn, "closing", "terminated"}
    BY <1>8 DEF MarketDataSnapshotFullRefresh, MarketDataRequestReject,
                ResendRequest, Logout, clocks, history
  <2>2. QED
    BY <1>1, <2>1
<1>9. CASE UNCHANGED <<conn, clocks, silent>>
  BY <1>1, <1>9 DEF clocks
<1>10. QED
  BY <1>2, <1>3, <1>4, <1>5, <1>6, <1>7, <1>8, <1>9
     DEF MarketDataNext, TestRequest, Reject, SymbolsUpdate, ExchangeServes,
         ExchangeUpdates, MarketDataIncrementalRefresh, Terminated, mdVars,
         history

LEMMA ClocksInvAlways == MarketDataSpec => []ClocksInv
<1>1. MarketDataInit => ClocksInv
  BY MarketDataAssumption
     DEF MarketDataInit, ClocksInv, TimeoutOnlyAfterSilence, Unset
<1>2. QED
  BY <1>1, ClocksInvStep, PTL DEF MarketDataSpec

(* The age the timeout is decided on never exceeds the silence of the      *)
(* present connection, although a lost connection leaves it as it was.     *)
THEOREM TimeoutsAreJustified == MarketDataSpec => []TimeoutOnlyAfterSilence
<1>1. ClocksInv => TimeoutOnlyAfterSilence
  BY DEF ClocksInv
<1>2. QED
  BY <1>1, ClocksInvAlways, PTL

-----------------------------------------------------------------------------
(* Everything in a queue is about symbols of the slice. *)

OrderOf(S)   == [type : {"SUBSCRIBE", "UNSUBSCRIBE"}, symbol : S]
MessageOf(S) == [type : {"SNAPSHOT", "EMPTY", "INCREMENT"}, symbol : S]

QueuesInv ==
    /\ symbols \subseteq Symbol
    /\ latch \subseteq symbols
    /\ live \subseteq symbols
    /\ requests \in Seq(OrderOf(symbols))
    /\ wire \in Seq(MessageOf(symbols))

LEMMA LargerSlice ==
    ASSUME NEW S, NEW T, S \subseteq T
    PROVE  /\ Seq(OrderOf(S)) \subseteq Seq(OrderOf(T))
           /\ Seq(MessageOf(S)) \subseteq Seq(MessageOf(T))
<1>1. OrderOf(S) \subseteq OrderOf(T) /\ MessageOf(S) \subseteq MessageOf(T)
  BY DEF OrderOf, MessageOf
<1>2. QED
  BY <1>1

LEMMA SetToSeqLists ==
    ASSUME NEW S, IsFiniteSet(S)
    PROVE  Cardinality(S) \in Nat /\ SetToSeq(S) \in [1..Cardinality(S) -> S]
<1>1. Cardinality(S) \in Nat /\ ExistsBijection(1..Cardinality(S), S)
  BY FS_CardinalityType
<1>2. PICK f \in Bijection(1..Cardinality(S), S) : TRUE
  BY <1>1 DEF ExistsBijection
<1>3. f \in [1..Cardinality(S) -> S] /\ IsInjective(f)
  BY <1>2 DEF Bijection, Injection
<1>4. QED
  BY <1>1, <1>3 DEF SetToSeq

(* subscribe(S) asks for symbols of S. *)
LEMMA OrdersAreOf ==
    ASSUME NEW S \in SUBSET Symbol
    PROVE  Orders("SUBSCRIBE", S) \in Seq(OrderOf(S))
<1>1. IsFiniteSet(S)
  BY FS_Subset, MarketDataAssumption
<1>2. PICK n \in Nat : n = Cardinality(S)
  BY <1>1, SetToSeqLists
<1>3. PICK f \in [1..n -> S] : f = SetToSeq(S)
  BY <1>1, <1>2, SetToSeqLists
<1>4. Orders("SUBSCRIBE", S) = [i \in 1..n |-> [type |-> "SUBSCRIBE", symbol |-> f[i]]]
  BY <1>2, <1>3 DEF Orders
<1>5. \A i \in 1..n : [type |-> "SUBSCRIBE", symbol |-> f[i]] \in OrderOf(S)
  BY <1>3 DEF OrderOf
<1>6. QED
  BY <1>2, <1>4, <1>5

(* What is sent of a list of orders is a prefix of it. *)
LEMMA OrdersAreQueued ==
    ASSUME NEW T, requests \in Seq(T), NEW orders \in Seq(T), NEW size, NEW o,
           send_orders(orders, size, o)
    PROVE  requests' \in Seq(T)
<1>1. CASE requests' = requests \o orders
  BY <1>1, ConcatProperties
<1>2. ASSUME NEW n \in 0..(Len(orders) - 1),
             requests' = requests \o SubSeq(orders, 1, n)
      PROVE  requests' \in Seq(T)
  <2>1. SubSeq(orders, 1, n) \in Seq(T)
    BY <1>2, SubSeqProperties
  <2>2. QED
    BY <1>2, <2>1, ConcatProperties
<1>3. QED
  BY <1>1, <1>2 DEF send_orders

LEMMA QueuesInvStep == Stages /\ QueuesInv /\ [MarketDataNext]_mdVars => QueuesInv'
<1> SUFFICES ASSUME Stages, QueuesInv, [MarketDataNext]_mdVars
             PROVE  QueuesInv'
  OBVIOUS
<1> USE DEF QueuesInv
<1>1. CASE UNCHANGED <<symbols, latch, live, requests, wire>>
  BY <1>1
<1>2. CASE Disconnected \/ Logout
  <2>1. /\ UNCHANGED <<symbols, latch>>
        /\ requests' = <<>> /\ live' = {} /\ wire' = <<>>
    BY <1>2 DEF Disconnected, Logout
  <2>2. QED
    BY <2>1
<1>3. CASE Timer \/ TestRequest
  <2>1. requests' = requests
    BY <1>3 DEF Timer, TimerTimeout, TimerTestDisconnect, TimerHeartbeat,
                TimerIdle, TestRequest, Close, send
  <2>2. UNCHANGED <<symbols, latch, live, wire>>
    BY <1>3 DEF Timer, TimerTimeout, TimerTestDisconnect, TimerHeartbeat,
                TimerIdle, Elapse, TestRequest
  <2>3. QED
    BY <1>1, <2>1, <2>2
<1>4. CASE Logon
  <2>1. UNCHANGED <<symbols, latch, live, wire>>
    BY <1>4 DEF Logon
  <2>2. CASE master
    BY <1>1, <1>4, <2>1, <2>2 DEF Logon, download_begin, download_securities, send
  <2>3. CASE ~master
    <3>1. PICK size, o : send_orders(Orders("SUBSCRIBE", symbols), size, o)
      BY <1>4, <2>3 DEF Logon, download_begin, download_subscribe, subscribe
    <3>2. requests' \in Seq(OrderOf(symbols))
      BY <3>1, OrdersAreOf, OrdersAreQueued
    <3>3. QED
      BY <2>1, <3>2
  <2>4. QED
    BY <2>2, <2>3
<1>5. ASSUME NEW new \in SUBSET (Symbol \ symbols),
             symbols' = symbols \cup new, UNCHANGED <<latch, live, wire>>,
             NEW S \in SUBSET symbols', NEW o,
             subscribe(S, o)
      PROVE  QueuesInv'
  <2>1. /\ requests \in Seq(OrderOf(symbols'))
        /\ wire' \in Seq(MessageOf(symbols'))
    BY <1>5, LargerSlice
  <2>2. PICK size : send_orders(Orders("SUBSCRIBE", S), size, o)
    BY <1>5 DEF subscribe
  <2>3. Orders("SUBSCRIBE", S) \in Seq(OrderOf(S))
    BY <1>5, OrdersAreOf
  <2>4. Orders("SUBSCRIBE", S) \in Seq(OrderOf(symbols'))
    BY <1>5, <2>3, LargerSlice
  <2>5. requests' \in Seq(OrderOf(symbols'))
    BY <2>1, <2>2, <2>4, OrdersAreQueued
  <2>6. QED
    BY <1>5, <2>1, <2>5
<1>6. ASSUME NEW new \in SUBSET (Symbol \ symbols), SecurityList(new)
      PROVE  QueuesInv'
  <2>1. symbols' = symbols \cup new /\ UNCHANGED <<latch, live, wire>>
    BY <1>6 DEF SecurityList
  <2>2. CASE download_state = "SECURITIES"
    BY <1>5, <1>6, <2>1, <2>2 DEF SecurityList, download_subscribe
  <2>3. CASE download_state # "SECURITIES"
    BY <1>5, <1>6, <2>1, <2>3 DEF SecurityList, SubscribeFrom
  <2>4. QED
    BY <2>2, <2>3
<1>7. ASSUME NEW new \in SUBSET (Symbol \ symbols), SymbolsUpdate(new)
      PROVE  QueuesInv'
  <2>1. symbols' = symbols \cup new /\ UNCHANGED <<latch, live, wire>>
    BY <1>7 DEF SymbolsUpdate
  <2>2. CASE ready
    BY <1>5, <1>7, <2>1, <2>2 DEF SymbolsUpdate, SubscribeFrom
  <2>3. CASE ~ready
    <3>1. requests' = requests
      BY <1>7, <2>3 DEF SymbolsUpdate
    <3>2. QED
      BY <1>7, <2>1, <3>1, LargerSlice
  <2>4. QED
    BY <2>2, <2>3
<1>8. CASE ExchangeServes
  <2>1. PICK order \in OrderOf(symbols) : order = Head(requests)
    BY <1>8, HeadTailProperties DEF ExchangeServes
  <2>2. order.symbol \in symbols
    BY <2>1 DEF OrderOf
  <2>3. requests' \in Seq(OrderOf(symbols))
    BY <1>8, HeadTailProperties DEF ExchangeServes
  <2>4. live' \subseteq symbols
    BY <1>8, <2>1, <2>2 DEF ExchangeServes
  <2>5. \A type \in {"SNAPSHOT", "EMPTY"} :
            [type |-> type, symbol |-> order.symbol] \in MessageOf(symbols)
    BY <2>2 DEF MessageOf
  <2>6. wire' \in Seq(MessageOf(symbols))
    <3>1. CASE wire' = wire
      BY <3>1
    <3>2. ASSUME NEW m \in MessageOf(symbols), wire' = Append(wire, m)
          PROVE  wire' \in Seq(MessageOf(symbols))
      BY <3>2, AppendProperties
    <3>3. QED
      BY <1>8, <2>1, <2>5, <3>1, <3>2 DEF ExchangeServes
  <2>7. QED
    BY <1>8, <2>3, <2>4, <2>6 DEF ExchangeServes
<1>9. ASSUME NEW s \in Symbol, ExchangeUpdates(s)
      PROVE  QueuesInv'
  <2>1. [type |-> "INCREMENT", symbol |-> s] \in MessageOf(symbols)
    BY <1>9 DEF ExchangeUpdates, MessageOf
  <2>2. wire' \in Seq(MessageOf(symbols))
    BY <1>9, <2>1, AppendProperties DEF ExchangeUpdates
  <2>3. QED
    BY <1>9, <2>2 DEF ExchangeUpdates
<1>10. CASE MarketDataIncrementalRefresh
  <2>1. wire # <<>> /\ wire' = Tail(wire) /\ UNCHANGED <<symbols, live>>
    BY <1>10 DEF MarketDataIncrementalRefresh, Arrives
  <2>2. PICK s \in symbols : s = Head(wire).symbol
    <3>1. Head(wire) \in MessageOf(symbols)
      BY <2>1, HeadTailProperties
    <3>2. QED
      BY <3>1 DEF MessageOf
  <2>3. wire' \in Seq(MessageOf(symbols))
    BY <2>1, HeadTailProperties
  <2>4. CASE UNCHANGED <<latch, requests>>
    BY <2>1, <2>3, <2>4
  <2>5. CASE latch' = latch \cup {s} /\ unsubscribe_subscribe(s, owed)
    <3>1. PICK one \in OrderOf(symbols), two \in OrderOf(symbols) :
              /\ one = [type |-> "UNSUBSCRIBE", symbol |-> s]
              /\ two = [type |-> "SUBSCRIBE", symbol |-> s]
      BY <2>2 DEF OrderOf
    <3>2. <<one, two>> \in Seq(OrderOf(symbols))
      BY <3>1
    <3>3. send_orders(<<one, two>>, 1, owed)
      BY <2>5, <3>1 DEF unsubscribe_subscribe
    <3>4. requests' \in Seq(OrderOf(symbols))
      BY <3>2, <3>3, OrdersAreQueued
    <3>5. QED
      BY <2>1, <2>2, <2>3, <2>5, <3>4
  <2>6. QED
    BY <1>10, <2>2, <2>4, <2>5 DEF MarketDataIncrementalRefresh, latching
<1>11. CASE MarketDataSnapshotFullRefresh
  <2>1. /\ wire # <<>> /\ wire' = Tail(wire) /\ latch' \subseteq latch
        /\ UNCHANGED <<symbols, live, requests>>
    BY <1>11 DEF MarketDataSnapshotFullRefresh
  <2>2. QED
    BY <2>1, HeadTailProperties
<1>12. CASE MarketDataRequestReject
  <2>1. /\ requests # <<>> /\ requests' = Tail(requests)
        /\ UNCHANGED <<symbols, latch, live, wire>>
    BY <1>12 DEF MarketDataRequestReject
  <2>2. QED
    BY <2>1, HeadTailProperties
<1>13. QED
  BY <1>1, <1>2, <1>3, <1>4, <1>6, <1>7, <1>8, <1>9, <1>10, <1>11, <1>12
     DEF MarketDataNext, Connected, Heartbeat, ResendRequest, Reject,
         Terminated, mdVars, exchange

LEMMA QueuesInvAlways == MarketDataSpec => [](Stages /\ QueuesInv)
<1>1. MarketDataInit => QueuesInv
  BY DEF MarketDataInit, QueuesInv
<1>2. QED
  BY <1>1, QueuesInvStep, StagesAlways, PTL DEF MarketDataSpec

-----------------------------------------------------------------------------
(* What is asked for reaches the exchange.  The queue of requests is such  *)
(* that a cancelled subscription is always followed by a new one, so that  *)
(* serving a cancellation leaves the symbol with a request.                *)

Subscription(s) == [type |-> "SUBSCRIBE", symbol |-> s]
Cancellation(s) == [type |-> "UNSUBSCRIBE", symbol |-> s]

Awaited(q, s) == \E i \in 1..Len(q) : q[i] = Subscription(s)

Renewed(q, s) ==
    \A i \in 1..Len(q) :
        q[i] = Cancellation(s) =>
            \E j \in 1..Len(q) : j > i /\ q[j] = Subscription(s)

SliceInv ==
    ~gap =>
        \A s \in Symbol :
            /\ Renewed(requests, s)
            /\ ready /\ s \in symbols =>
                  s \in live \/ s \in refused \/ Awaited(requests, s)

(* subscribe(S) asks for every symbol of S, and cancels none. *)
LEMMA OrdersAreComplete ==
    ASSUME NEW S \in SUBSET Symbol
    PROVE  /\ \A s \in S : Awaited(Orders("SUBSCRIBE", S), s)
           /\ \A s : Renewed(Orders("SUBSCRIBE", S), s)
<1>1. IsFiniteSet(S)
  BY FS_Subset, MarketDataAssumption
<1>2. PICK n \in Nat : n = Cardinality(S) /\ ExistsBijection(1..n, S)
  BY <1>1, FS_CardinalityType
<1>3. PICK f : f = SetToSeq(S)
  OBVIOUS
<1>4. f \in [1..n -> S] /\ IsInjective(f)
  <2>1. PICK g \in Bijection(1..n, S) : TRUE
    BY <1>2 DEF ExistsBijection
  <2>2. g \in [1..n -> S] /\ IsInjective(g)
    BY <2>1 DEF Bijection, Injection
  <2>3. QED
    BY <1>2, <1>3, <2>2 DEF SetToSeq
<1>5. f \in Surjection(1..n, S)
  <2>1. f \in Injection(1..n, S)
    BY <1>4 DEF Injection
  <2>2. Cardinality(1..n) = n
    BY FS_Interval
  <2>3. QED
    BY <1>1, <1>2, <2>1, <2>2, FS_Injection
<1>6. \A s \in S : \E i \in 1..n : f[i] = s
  BY <1>5 DEF Surjection
<1>7. PICK q : q = Orders("SUBSCRIBE", S)
  OBVIOUS
<1>8. q = [i \in 1..n |-> Subscription(f[i])]
  BY <1>2, <1>3, <1>7 DEF Orders, Subscription
<1>9. Len(q) = n /\ \A i \in 1..n : q[i] = Subscription(f[i])
  BY <1>8
<1>10. \A s \in S : Awaited(q, s)
  BY <1>6, <1>9 DEF Awaited
<1>11. \A s : Renewed(q, s)
  BY <1>9 DEF Renewed, Subscription, Cancellation
<1>12. QED
  BY <1>7, <1>10, <1>11

(* More requests are queued. *)
LEMMA RequestsQueued ==
    ASSUME NEW T, NEW q \in Seq(T), NEW r \in Seq(T), NEW s
    PROVE  /\ Awaited(q, s) \/ Awaited(r, s) => Awaited(q \o r, s)
           /\ Renewed(q, s) /\ Renewed(r, s) => Renewed(q \o r, s)
<1>1. PICK m \in Nat, n \in Nat : m = Len(q) /\ n = Len(r)
  OBVIOUS
<1>2. PICK t \in Seq(T) : t = q \o r
  BY ConcatProperties
<1>3. /\ Len(t) = m + n
      /\ \A i \in 1..m : t[i] = q[i] /\ i \in 1..(m + n)
      /\ \A i \in 1..n : t[m + i] = r[i] /\ m + i \in 1..(m + n)
  BY <1>1, <1>2, ConcatProperties
<1>4. Awaited(q, s) \/ Awaited(r, s) => Awaited(t, s)
  BY <1>1, <1>3 DEF Awaited
<1>5. ASSUME Renewed(q, s), Renewed(r, s)
      PROVE  Renewed(t, s)
  <2>1. SUFFICES ASSUME NEW i \in 1..(m + n), t[i] = Cancellation(s)
                 PROVE  \E j \in 1..(m + n) : j > i /\ t[j] = Subscription(s)
    BY <1>3 DEF Renewed
  <2>2. CASE i \in 1..m
    <3>1. PICK j \in 1..m : j > i /\ q[j] = Subscription(s)
      BY <1>1, <1>3, <1>5, <2>1, <2>2 DEF Renewed
    <3>2. QED
      BY <1>3, <3>1
  <2>3. CASE i \notin 1..m
    <3>1. PICK k \in 1..n : i = m + k
      <4>1. i - m \in 1..n /\ i = m + (i - m)
        BY <2>3
      <4>2. QED
        BY <4>1
    <3>2. r[k] = Cancellation(s)
      BY <1>3, <2>1, <3>1
    <3>3. PICK j \in 1..n : j > k /\ r[j] = Subscription(s)
      BY <1>1, <1>5, <3>2 DEF Renewed
    <3>4. t[m + j] = Subscription(s) /\ m + j \in 1..(m + n) /\ m + j > i
      BY <1>3, <3>1, <3>3
    <3>5. QED
      BY <3>4
  <2>4. QED
    BY <2>2, <2>3
<1>6. QED
  BY <1>2, <1>4, <1>5

(* The first request is answered. *)
LEMMA RequestAnswered ==
    ASSUME NEW T, NEW q \in Seq(T), q # <<>>, NEW s
    PROVE  /\ Awaited(q, s) /\ Head(q) # Subscription(s) => Awaited(Tail(q), s)
           /\ Renewed(q, s) => Renewed(Tail(q), s)
           /\ Renewed(q, s) /\ Head(q) = Cancellation(s) => Awaited(Tail(q), s)
<1>1. PICK n \in Nat : n = Len(q) /\ n > 0
  OBVIOUS
<1>2. PICK t \in Seq(T) : t = Tail(q)
  BY HeadTailProperties
<1>3. /\ Len(t) = n - 1 /\ Head(q) = q[1]
      /\ \A i \in 1..(n - 1) : t[i] = q[i + 1] /\ i + 1 \in 1..n
      /\ \A i \in 1..n : i # 1 => i - 1 \in 1..(n - 1) /\ t[i - 1] = q[i]
  BY <1>1, <1>2
<1>4. Awaited(q, s) /\ Head(q) # Subscription(s) => Awaited(t, s)
  BY <1>1, <1>3 DEF Awaited
<1>5. ASSUME Renewed(q, s)
      PROVE  Renewed(t, s)
  <2>1. SUFFICES ASSUME NEW i \in 1..(n - 1), t[i] = Cancellation(s)
                 PROVE  \E j \in 1..(n - 1) : j > i /\ t[j] = Subscription(s)
    BY <1>3 DEF Renewed
  <2>2. PICK j \in 1..n : j > i + 1 /\ q[j] = Subscription(s)
    BY <1>1, <1>3, <1>5, <2>1 DEF Renewed
  <2>3. j # 1
    BY <2>2
  <2>4. j - 1 \in 1..(n - 1) /\ t[j - 1] = q[j] /\ j - 1 > i
    BY <1>3, <2>2, <2>3
  <2>5. QED
    BY <2>2, <2>4
<1>6. ASSUME Renewed(q, s), Head(q) = Cancellation(s)
      PROVE  Awaited(t, s)
  <2>1. PICK j \in 1..n : j > 1 /\ q[j] = Subscription(s)
    BY <1>1, <1>3, <1>6 DEF Renewed
  <2>2. j # 1
    BY <2>1
  <2>3. j - 1 \in 1..(n - 1) /\ t[j - 1] = q[j]
    BY <1>3, <2>2
  <2>4. QED
    BY <1>3, <2>1, <2>3 DEF Awaited
<1>7. QED
  BY <1>2, <1>4, <1>5, <1>6

(* Unless a send was refused, all of a list of orders is queued. *)
LEMMA OrdersGoOut ==
    ASSUME NEW T, requests \in Seq(T), NEW orders \in Seq(T), NEW size, NEW o,
           send_orders(orders, size, o), ~gap'
    PROVE  ~gap /\ requests' = requests \o orders
  BY DEF send_orders

(* A step that asks for nothing and loses nothing. *)
LEMMA SliceInvKept ==
    ASSUME SliceInv, ~gap' => ~gap, UNCHANGED <<requests, live>>,
           ready' => ready /\ symbols' = symbols, refused \subseteq refused'
    PROVE  SliceInv'
  BY DEF SliceInv

LEMMA SliceInvStep ==
    Stages /\ QueuesInv /\ SliceInv /\ [MarketDataNext]_mdVars => SliceInv'
<1> SUFFICES ASSUME Stages, QueuesInv, SliceInv, [MarketDataNext]_mdVars
             PROVE  SliceInv'
  OBVIOUS
<1>1. CASE /\ ~gap' => ~gap
           /\ UNCHANGED <<requests, live, symbols>>
           /\ ready' => ready
           /\ refused \subseteq refused'
  BY <1>1, SliceInvKept
<1>2. CASE Disconnected \/ Logout
  <2>1. ~ready' /\ requests' = <<>>
    BY <1>2 DEF Disconnected, Logout
  <2>2. 1..Len(requests') = {}
    BY <2>1
  <2>3. QED
    BY <2>1, <2>2 DEF SliceInv, Renewed
<1>3. CASE Timer
  <2>1. /\ UNCHANGED <<requests, live, symbols, ready, refused>>
    BY <1>3 DEF Timer, TimerTimeout, TimerTestDisconnect, TimerHeartbeat,
                TimerIdle, Elapse, Close, send
  <2>2. ~gap' => ~gap
    BY <1>3 DEF Timer, TimerTimeout, TimerTestDisconnect, TimerHeartbeat,
                TimerIdle, Close, send
  <2>3. QED
    BY <1>1, <2>1, <2>2
<1>4. ASSUME NEW new \in SUBSET (Symbol \ symbols), symbols' = symbols \cup new,
             NEW S \in SUBSET symbols', NEW o, subscribe(S, o),
             UNCHANGED <<live, refused>>,
             \A s \in symbols' \ S : ready /\ s \in symbols
      PROVE  SliceInv'
  <2>1. SUFFICES ASSUME ~gap'
                 PROVE  \A s \in Symbol :
                          /\ Renewed(requests', s)
                          /\ ready' /\ s \in symbols' =>
                                \/ s \in live' \/ s \in refused'
                                \/ Awaited(requests', s)
    BY DEF SliceInv
  <2>2. PICK orders, size : /\ orders = Orders("SUBSCRIBE", S)
                            /\ send_orders(orders, size, o)
    BY <1>4 DEF subscribe
  <2>3. S \in SUBSET Symbol
    BY <1>4 DEF QueuesInv
  <2>4. requests \in Seq(OrderOf(symbols')) /\ orders \in Seq(OrderOf(symbols'))
    <3>1. orders \in Seq(OrderOf(S))
      BY <2>2, <2>3, OrdersAreOf
    <3>2. QED
      BY <1>4, <3>1, LargerSlice DEF QueuesInv
  <2>5. ~gap /\ requests' = requests \o orders
    BY <2>1, <2>2, <2>4, OrdersGoOut
  <2>6. ASSUME NEW s \in Symbol
        PROVE  /\ Renewed(requests', s)
               /\ Awaited(requests, s) \/ s \in S => Awaited(requests', s)
    <3>1. Renewed(orders, s) /\ (s \in S => Awaited(orders, s))
      BY <2>2, <2>3, OrdersAreComplete
    <3>2. Renewed(requests, s)
      BY <2>5 DEF SliceInv
    <3>3. QED
      BY <2>4, <2>5, <3>1, <3>2, RequestsQueued
  <2>7. QED
    BY <1>4, <2>5, <2>6 DEF SliceInv
<1>5. CASE Logon
  <2>1. UNCHANGED <<live, refused, symbols>>
    BY <1>5 DEF Logon
  <2>2. CASE master
    BY <1>1, <1>5, <2>1, <2>2 DEF Logon, download_begin, download_securities, send
  <2>3. CASE ~master
    <3>1. PICK o : subscribe(symbols, o)
      BY <1>5, <2>3 DEF Logon, download_begin, download_subscribe
    <3>2. symbols' = symbols \cup {} /\ symbols \in SUBSET symbols'
      BY <2>1
    <3>3. QED
      BY <1>4, <2>1, <3>1, <3>2
  <2>4. QED
    BY <2>2, <2>3
<1>6. ASSUME NEW new \in SUBSET (Symbol \ symbols), SecurityList(new)
      PROVE  SliceInv'
  <2>1. symbols' = symbols \cup new /\ UNCHANGED <<live, refused>>
    BY <1>6 DEF SecurityList
  <2>2. CASE download_state = "SECURITIES"
    <3>1. PICK o : subscribe(symbols', o)
      BY <1>6, <2>1, <2>2 DEF SecurityList, download_subscribe
    <3>2. QED
      BY <1>4, <2>1, <3>1
  <2>3. CASE download_state # "SECURITIES"
    <3>1. ready /\ subscribe(new, owed)
      BY <1>6, <2>3 DEF SecurityList, SubscribeFrom
    <3>2. QED
      BY <1>4, <2>1, <3>1
  <2>4. QED
    BY <2>2, <2>3
<1>7. ASSUME NEW new \in SUBSET (Symbol \ symbols), SymbolsUpdate(new)
      PROVE  SliceInv'
  <2>1. symbols' = symbols \cup new /\ UNCHANGED <<live, refused, ready>>
    BY <1>7 DEF SymbolsUpdate
  <2>2. CASE ready
    <3>1. subscribe(new, owed)
      BY <1>7, <2>2 DEF SymbolsUpdate, SubscribeFrom
    <3>2. QED
      BY <1>4, <2>1, <2>2, <3>1
  <2>3. CASE ~ready
    <3>1. UNCHANGED <<requests, gap>>
      BY <1>7, <2>3 DEF SymbolsUpdate
    <3>2. QED
      BY <2>1, <2>3, <3>1, SliceInvKept
  <2>4. QED
    BY <2>2, <2>3
<1>8. CASE ExchangeServes \/ MarketDataRequestReject
  <2>1. /\ requests # <<>> /\ requests' = Tail(requests)
        /\ UNCHANGED <<symbols, ready, gap>>
    BY <1>8 DEF ExchangeServes, MarketDataRequestReject
  <2>2. PICK order \in OrderOf(symbols) : order = Head(requests)
    BY <2>1, HeadTailProperties DEF QueuesInv
  <2>3. PICK s \in Symbol : s = order.symbol
    BY <2>2 DEF OrderOf, QueuesInv
  <2>4. /\ order = Subscription(s) \/ order = Cancellation(s)
        /\ \A t : t # s => order # Subscription(t) /\ order # Cancellation(t)
    BY <2>2, <2>3 DEF OrderOf, Subscription, Cancellation
  <2>5. /\ live \ {s} \subseteq live' /\ refused \subseteq refused'
        /\ order = Subscription(s) => s \in live' \/ s \in refused'
    BY <1>8, <2>2, <2>3
       DEF ExchangeServes, MarketDataRequestReject, history, Subscription
  <2>6. ASSUME ~gap, NEW t \in Symbol
        PROVE  /\ Renewed(requests', t)
               /\ Awaited(requests, t) =>
                     \/ Awaited(requests', t)
                     \/ t = s /\ order = Subscription(s)
               /\ order = Cancellation(t) => Awaited(requests', t)
    BY <2>1, <2>2, <2>4, <2>6, RequestAnswered DEF SliceInv, QueuesInv
  <2>7. ASSUME ~gap', NEW t \in Symbol, ready', t \in symbols'
        PROVE  t \in live' \/ t \in refused' \/ Awaited(requests', t)
    <3>1. ~gap /\ ready /\ t \in symbols
      BY <2>1, <2>7
    <3>2. t \in live \/ t \in refused \/ Awaited(requests, t)
      BY <3>1 DEF SliceInv
    <3>3. QED
      BY <2>4, <2>5, <2>6, <3>1, <3>2
  <2>8. QED
    BY <2>1, <2>6, <2>7 DEF SliceInv
<1>9. CASE MarketDataIncrementalRefresh
  <2>1. UNCHANGED <<symbols, live, ready, refused>>
    BY <1>9 DEF MarketDataIncrementalRefresh, history
  <2>2. CASE UNCHANGED <<requests, gap>>
    BY <1>1, <2>1, <2>2
  <2>3. CASE unsubscribe_subscribe(Head(wire).symbol, owed)
    <3>1. PICK s \in symbols : s = Head(wire).symbol
      <4>1. Head(wire) \in MessageOf(symbols)
        BY <1>9, HeadTailProperties
           DEF MarketDataIncrementalRefresh, Arrives, QueuesInv
      <4>2. QED
        BY <4>1 DEF MessageOf
    <3>2. PICK orders \in Seq(OrderOf(symbols)) :
              orders = <<Cancellation(s), Subscription(s)>>
      <4>1. PICK one \in OrderOf(symbols), two \in OrderOf(symbols) :
                one = Cancellation(s) /\ two = Subscription(s)
        BY <3>1 DEF Cancellation, Subscription, OrderOf
      <4>2. <<one, two>> \in Seq(OrderOf(symbols))
        BY <4>1
      <4>3. QED
        BY <4>1, <4>2
    <3>3. PICK size, o : send_orders(orders, size, o)
      BY <2>3, <3>1, <3>2 DEF unsubscribe_subscribe, Cancellation, Subscription
    <3>4. \A t : Renewed(orders, t)
      <4>1. /\ Len(orders) = 2 /\ orders[1] = Cancellation(s)
            /\ orders[2] = Subscription(s)
        BY <3>2
      <4>2. QED
        BY <4>1 DEF Renewed, Cancellation, Subscription
    <3>5. requests \in Seq(OrderOf(symbols))
      BY DEF QueuesInv
    <3>6. ~gap' => ~gap /\ requests' = requests \o orders
      BY <3>2, <3>3, <3>5, OrdersGoOut
    <3>7. ASSUME ~gap', NEW t \in Symbol
          PROVE  /\ Renewed(requests', t)
                 /\ Awaited(requests, t) => Awaited(requests', t)
      <4>1. Renewed(requests, t)
        BY <3>6, <3>7 DEF SliceInv
      <4>2. Renewed(orders, t)
        BY <3>4
      <4>3. /\ Renewed(requests \o orders, t)
            /\ Awaited(requests, t) => Awaited(requests \o orders, t)
        BY <3>2, <3>5, <4>1, <4>2, RequestsQueued
      <4>4. QED
        BY <3>6, <3>7, <4>3
    <3>8. QED
      BY <2>1, <3>6, <3>7 DEF SliceInv
  <2>4. QED
    BY <1>9, <2>2, <2>3 DEF MarketDataIncrementalRefresh
<1>10. CASE \/ Connected \/ Heartbeat \/ ResendRequest \/ TestRequest \/ Reject
            \/ \E s \in Symbol : ExchangeUpdates(s)
            \/ MarketDataSnapshotFullRefresh \/ UNCHANGED mdVars
  <2>1. UNCHANGED <<requests, live, symbols, ready>>
    BY <1>10 DEF Connected, Heartbeat, ResendRequest, TestRequest, send, Reject,
                 ExchangeUpdates, MarketDataSnapshotFullRefresh, mdVars, exchange
  <2>2. refused \subseteq refused'
    BY <1>10 DEF Connected, Heartbeat, ResendRequest, TestRequest, Reject,
                 ExchangeUpdates, MarketDataSnapshotFullRefresh, mdVars, history
  <2>3. ~gap' => ~gap
    BY <1>10 DEF Connected, Heartbeat, ResendRequest, TestRequest, send, Reject,
                 ExchangeUpdates, MarketDataSnapshotFullRefresh, mdVars, exchange
  <2>4. QED
    BY <1>1, <2>1, <2>2, <2>3
<1>11. QED
  BY <1>2, <1>3, <1>5, <1>6, <1>7, <1>8, <1>9, <1>10
     DEF MarketDataNext, Terminated

LEMMA SliceInvAlways == MarketDataSpec => []SliceInv
<1>1. MarketDataInit => SliceInv
  <2> SUFFICES ASSUME MarketDataInit
               PROVE  SliceInv
    OBVIOUS
  <2>1. ready = FALSE /\ 1..Len(requests) = {}
    BY DEF MarketDataInit
  <2>2. QED
    BY <2>1 DEF SliceInv, Renewed
<1>2. QED
  BY <1>1, SliceInvStep, QueuesInvAlways, PTL DEF MarketDataSpec

(* Unless a send was refused, every symbol of a ready stream's slice is    *)
(* followed by the exchange, has a subscription on its way or was          *)
(* rejected: for every slice, request size and order of events no symbol   *)
(* is forgotten.                                                           *)
THEOREM SlicesReachExchange == MarketDataSpec => []SliceReachesExchange
<1>1. QueuesInv /\ SliceInv => SliceReachesExchange
  BY DEF QueuesInv, SliceInv, SliceReachesExchange, Awaited, Subscription
<1>2. QED
  BY <1>1, SliceInvAlways, QueuesInvAlways, PTL

-----------------------------------------------------------------------------
(* Books.  For BookInSync to be kept, an increment that arrives must not   *)
(* meet a book that missed an update: unless the symbol is latched, a      *)
(* snapshot of it arrives before every increment under way.  The withheld  *)
(* snapshots are exactly those over which levels of before are kept.       *)

About(messages, s, i) == i \in 1..Len(messages) /\ messages[i].symbol = s

Complete(messages, s, i) ==
    About(messages, s, i) /\ messages[i].type # "INCREMENT"

SnapshotFirst(messages, s) ==
    \A i \in 1..Len(messages) :
        messages[i].symbol = s /\ messages[i].type = "INCREMENT" =>
            \E j \in 1..Len(messages) : j < i /\ Complete(messages, s, j)

SnapshotComing(messages, s) ==
    \E i \in 1..Len(messages) : Complete(messages, s, i)

BookInv ==
    /\ book \in [Symbol -> Content]
    /\ wire \in Seq(Message)
    /\ withheld = {s \in Symbol : book[s] \in {"emptied", "wrong"}}
    /\ \A s \in latch : book[s] = "missed"
    /\ PublishMarketByPrice =>
          \A s \in Symbol \ latch :
             /\ s \in live =>
                   \/ book[s] = "current" \/ s \in withheld
                   \/ SnapshotComing(wire, s)
             /\ book[s] \in {"none", "missed"} => SnapshotFirst(wire, s)
    /\ ~PublishMarketByPrice => \A s \in Symbol : book[s] = "none"

(* The first message leaves the queue. *)
LEMMA TailOfWire ==
    ASSUME NEW w \in Seq(Message), w # <<>>, NEW s
    PROVE  /\ Tail(w) \in Seq(Message)
           /\ SnapshotFirst(w, s) /\ Head(w).symbol = s =>
                 Head(w).type # "INCREMENT"
           /\ ~(Complete(w, s, 1)) =>
                 /\ SnapshotComing(w, s) => SnapshotComing(Tail(w), s)
                 /\ SnapshotFirst(w, s) => SnapshotFirst(Tail(w), s)
<1>1. PICK n \in Nat : n = Len(w) /\ n > 0
  OBVIOUS
<1>2. PICK t \in Seq(Message) : t = Tail(w)
  BY HeadTailProperties
<1>3. /\ Len(t) = n - 1
      /\ \A i \in 1..(n - 1) : t[i] = w[i + 1] /\ i + 1 \in 1..n
      /\ Head(w) = w[1]
  BY <1>1, <1>2
<1>4. SnapshotFirst(w, s) /\ Head(w).symbol = s => Head(w).type # "INCREMENT"
  BY <1>1, <1>3 DEF SnapshotFirst
<1>5. ASSUME NEW i \in 1..n, Complete(w, s, i), ~Complete(w, s, 1)
      PROVE  i - 1 \in 1..(n - 1) /\ Complete(t, s, i - 1)
  <2>1. i # 1
    BY <1>5
  <2>2. i - 1 \in 1..(n - 1) /\ t[i - 1] = w[i]
    BY <1>3, <2>1
  <2>3. QED
    BY <1>3, <1>5, <2>2 DEF Complete, About
<1>6. ASSUME ~Complete(w, s, 1), SnapshotComing(w, s)
      PROVE  SnapshotComing(t, s)
  BY <1>1, <1>3, <1>5, <1>6 DEF SnapshotComing
<1>7. ASSUME ~Complete(w, s, 1), SnapshotFirst(w, s)
      PROVE  SnapshotFirst(t, s)
  <2>1. SUFFICES ASSUME NEW i \in 1..(n - 1), t[i].symbol = s,
                        t[i].type = "INCREMENT"
                 PROVE  \E j \in 1..(n - 1) : j < i /\ Complete(t, s, j)
    BY <1>3 DEF SnapshotFirst
  <2>2. PICK j \in 1..n : j < i + 1 /\ Complete(w, s, j)
    BY <1>1, <1>3, <1>7, <2>1 DEF SnapshotFirst
  <2>3. QED
    BY <1>5, <1>7, <2>2
<1>8. QED
  BY <1>2, <1>4, <1>6, <1>7

(* The exchange sends a message. *)
LEMMA AppendedToWire ==
    ASSUME NEW w \in Seq(Message), NEW m \in Message, NEW s
    PROVE  /\ Append(w, m) \in Seq(Message)
           /\ SnapshotComing(w, s) => SnapshotComing(Append(w, m), s)
           /\ m.symbol = s /\ m.type # "INCREMENT" => SnapshotComing(Append(w, m), s)
           /\ (/\ SnapshotFirst(w, s)
               /\ m.symbol = s /\ m.type = "INCREMENT" => SnapshotComing(w, s))
              => SnapshotFirst(Append(w, m), s)
<1>1. PICK n \in Nat : n = Len(w)
  OBVIOUS
<1>2. PICK t \in Seq(Message) : t = Append(w, m)
  BY AppendProperties
<1>3. /\ Len(t) = n + 1
      /\ \A i \in 1..n : t[i] = w[i] /\ i \in 1..(n + 1)
      /\ t[n + 1] = m /\ n + 1 \in 1..(n + 1)
  BY <1>1, <1>2
<1>4. \A i \in 1..n : Complete(w, s, i) => Complete(t, s, i)
  BY <1>1, <1>3 DEF Complete, About
<1>5. SnapshotComing(w, s) => SnapshotComing(t, s)
  BY <1>1, <1>3, <1>4 DEF SnapshotComing
<1>6. m.symbol = s /\ m.type # "INCREMENT" => SnapshotComing(t, s)
  BY <1>3 DEF SnapshotComing, Complete, About
<1>7. ASSUME SnapshotFirst(w, s),
             m.symbol = s /\ m.type = "INCREMENT" => SnapshotComing(w, s)
      PROVE  SnapshotFirst(t, s)
  <2>1. SUFFICES ASSUME NEW i \in 1..(n + 1), t[i].symbol = s,
                        t[i].type = "INCREMENT"
                 PROVE  \E j \in 1..(n + 1) : j < i /\ Complete(t, s, j)
    BY <1>3 DEF SnapshotFirst
  <2>2. CASE i \in 1..n
    <3>1. PICK j \in 1..n : j < i /\ Complete(w, s, j)
      BY <1>1, <1>3, <1>7, <2>1, <2>2 DEF SnapshotFirst
    <3>2. QED
      BY <1>3, <1>4, <3>1
  <2>3. CASE i = n + 1
    <3>1. PICK j \in 1..n : Complete(w, s, j)
      BY <1>1, <1>3, <1>7, <2>1, <2>3 DEF SnapshotComing
    <3>2. QED
      BY <1>3, <1>4, <2>3, <3>1
  <2>4. QED
    BY <2>2, <2>3
<1>8. QED
  BY <1>2, <1>5, <1>6, <1>7

LEMMA EmptyWire ==
    ASSUME NEW w, w = <<>>, NEW s
    PROVE  SnapshotFirst(w, s)
<1>1. 1..Len(w) = {}
  OBVIOUS
<1>2. QED
  BY <1>1 DEF SnapshotFirst

(* A step that at most takes symbols off live. *)
LEMMA BookInvKept ==
    ASSUME BookInv, UNCHANGED <<book, withheld, wire, latch>>,
           live' \subseteq live
    PROVE  BookInv'
  BY DEF BookInv

LEMMA BookInvStep ==
    QueuesInv /\ BookInv /\ [MarketDataNext]_mdVars => BookInv'
<1> SUFFICES ASSUME QueuesInv, BookInv, [MarketDataNext]_mdVars
             PROVE  BookInv'
  OBVIOUS
<1>1. /\ book \in [Symbol -> Content] /\ wire \in Seq(Message)
      /\ withheld = {s \in Symbol : book[s] \in {"emptied", "wrong"}}
      /\ latch \subseteq Symbol /\ \A s \in latch : book[s] = "missed"
  BY DEF BookInv, QueuesInv
<1>2. CASE UNCHANGED <<book, withheld, wire, live, latch>>
  BY <1>2, BookInvKept
<1>3. CASE Disconnected
  <2>1. /\ live' = {} /\ wire' = <<>> /\ latch' = latch
        /\ book' = [s \in Symbol |-> Lost(book[s])] /\ withheld' = {}
    BY <1>3 DEF Disconnected
  <2>2. /\ book' \in [Symbol -> Content]
        /\ \A s \in Symbol : book'[s] \in {"none", "missed"}
        /\ \A s \in latch : book'[s] = "missed"
    BY <1>1, <2>1 DEF Content, Lost
  <2>3. \A s : SnapshotFirst(wire', s)
    BY <2>1, EmptyWire
  <2>4. ~PublishMarketByPrice => \A s \in Symbol : book'[s] = "none"
    BY <2>1 DEF BookInv, Lost
  <2>5. wire' \in Seq(Message)
    BY <2>1
  <2>6. QED
    BY <2>1, <2>2, <2>3, <2>4, <2>5 DEF BookInv
<1>4. CASE Logout
  <2>1. /\ live' = {} /\ wire' = <<>> /\ UNCHANGED <<latch, book, withheld>>
    BY <1>4 DEF Logout, books
  <2>2. \A s : SnapshotFirst(wire', s)
    BY <2>1, EmptyWire
  <2>3. QED
    BY <2>1, <2>2 DEF BookInv
<1>5. CASE ExchangeServes
  <2>1. UNCHANGED <<book, withheld, latch>>
    BY <1>5 DEF ExchangeServes, books
  <2>2. CASE Head(requests).type = "UNSUBSCRIBE"
    <3>1. live' \subseteq live /\ wire' = wire
      BY <1>5, <2>2 DEF ExchangeServes
    <3>2. QED
      BY <2>1, <3>1, BookInvKept
  <2>3. CASE Head(requests).type # "UNSUBSCRIBE"
    <3>1. PICK m \in [type : {"SNAPSHOT", "EMPTY"}, symbol : {Head(requests).symbol}] :
              wire' = Append(wire, m) /\ live' = live \cup {m.symbol}
      BY <1>5, <2>3 DEF ExchangeServes
    <3>2. m \in Message
      <4>1. Head(requests) \in OrderOf(symbols)
        BY <1>5, HeadTailProperties DEF ExchangeServes, QueuesInv
      <4>2. QED
        BY <3>1, <4>1 DEF QueuesInv, OrderOf, Message
    <3>3. QED
      BY <1>1, <2>1, <3>1, <3>2, AppendedToWire DEF BookInv
  <2>4. QED
    BY <2>2, <2>3
<1>6. ASSUME NEW s \in Symbol, ExchangeUpdates(s)
      PROVE  BookInv'
  <2>1. PICK m \in Message : m = [type |-> "INCREMENT", symbol |-> s]
    BY DEF Message
  <2>2. /\ s \in live /\ wire' = Append(wire, m)
        /\ UNCHANGED <<book, withheld, latch, live>>
    BY <1>6, <2>1 DEF ExchangeUpdates, books
  <2>3. m.symbol = s
    BY <2>1
  <2>4. QED
    BY <1>1, <2>2, <2>3, AppendedToWire DEF BookInv
<1>7. CASE MarketDataIncrementalRefresh
  <2>1. PICK s \in Symbol : s = Head(wire).symbol
    <3>1. Head(wire) \in Message
      BY <1>1, <1>7, HeadTailProperties DEF MarketDataIncrementalRefresh, Arrives
    <3>2. QED
      BY <3>1 DEF Message
  <2>2. /\ wire # <<>> /\ Head(wire).type = "INCREMENT"
        /\ wire' = Tail(wire) /\ live' = live
    BY <1>7 DEF MarketDataIncrementalRefresh, Arrives
  <2>3. \A t : ~Complete(wire, t, 1)
    BY <1>1, <2>2 DEF Complete
  <2>4. /\ wire' \in Seq(Message)
        /\ \A t : /\ SnapshotComing(wire, t) => SnapshotComing(wire', t)
                  /\ SnapshotFirst(wire, t) => SnapshotFirst(wire', t)
    BY <1>1, <2>2, <2>3, TailOfWire
  <2>5. SnapshotFirst(wire, s) => FALSE
    BY <1>1, <2>1, <2>2, TailOfWire
  <2>6. CASE /\ s \in latch \/ ~PublishMarketByPrice
             /\ book' = [book EXCEPT ![s] = Lost(@)]
             /\ UNCHANGED <<withheld, latch>>
    <3>1. book[s] \in {"none", "missed"}
      BY <1>1, <2>6 DEF BookInv
    <3>2. book' = book
      BY <1>1, <2>6, <3>1 DEF Lost
    <3>3. QED
      BY <2>2, <2>4, <2>6, <3>2 DEF BookInv
  <2>7. CASE /\ s \notin latch /\ PublishMarketByPrice
             /\ book' = [book EXCEPT ![s] = Applied(@)]
             /\ UNCHANGED <<withheld, latch>>
    <3>1. book[s] \in {"current", "emptied", "wrong"}
      BY <1>1, <2>5, <2>7 DEF BookInv, Content
    <3>2. CASE book[s] = "current"
      <4>1. book' = book
        BY <1>1, <2>7, <3>2 DEF Applied
      <4>2. QED
        BY <2>2, <2>4, <2>7, <4>1 DEF BookInv
    <3>3. CASE book[s] \in {"emptied", "wrong"}
      <4>1. /\ book' \in [Symbol -> Content] /\ book'[s] = "wrong"
            /\ \A t \in Symbol : t # s => book'[t] = book[t]
        BY <1>1, <2>7, <3>3 DEF Applied, Content
      <4>2. withheld' = {t \in Symbol : book'[t] \in {"emptied", "wrong"}}
        BY <1>1, <2>7, <3>3, <4>1
      <4>3. \A t \in latch' : book'[t] = "missed"
        BY <1>1, <2>7, <4>1
      <4>4. QED
        BY <1>1, <2>2, <2>4, <2>7, <4>1, <4>2, <4>3 DEF BookInv
    <3>4. QED
      BY <3>1, <3>2, <3>3
  <2>8. CASE /\ s \notin latch /\ PublishMarketByPrice
             /\ book' = [book EXCEPT ![s] = "missed"]
             /\ withheld' = withheld \ {s}
             /\ latch' = latch \cup {s}
    <3>1. /\ book' \in [Symbol -> Content] /\ book'[s] = "missed"
          /\ \A t \in Symbol : t # s => book'[t] = book[t]
      BY <1>1, <2>8 DEF Content
    <3>2. withheld' = {t \in Symbol : book'[t] \in {"emptied", "wrong"}}
      BY <1>1, <2>8, <3>1
    <3>3. \A t \in latch' : book'[t] = "missed"
      BY <1>1, <2>8, <3>1
    <3>4. QED
      BY <1>1, <2>2, <2>4, <2>8, <3>1, <3>2, <3>3 DEF BookInv
  <2>9. QED
    BY <1>7, <2>1, <2>6, <2>7, <2>8 DEF MarketDataIncrementalRefresh, latching
<1>8. CASE MarketDataSnapshotFullRefresh
  <2>1. PICK s \in Symbol : s = Head(wire).symbol
    <3>1. Head(wire) \in Message
      BY <1>1, <1>8, HeadTailProperties DEF MarketDataSnapshotFullRefresh
    <3>2. QED
      BY <3>1 DEF Message
  <2>2. \/ /\ book' = [book EXCEPT ![s] = Replaced(@)]
           /\ withheld' = withheld \ {s}
        \/ /\ book' = [book EXCEPT ![s] = Emptied(@)]
           /\ withheld' = IF book[s] = "none" THEN withheld
                                              ELSE withheld \cup {s}
    BY <1>8, <2>1 DEF MarketDataSnapshotFullRefresh
  <2>3. /\ wire # <<>> /\ wire' = Tail(wire)
        /\ live' = live /\ latch' = latch \ {s}
    BY <1>8, <2>1 DEF MarketDataSnapshotFullRefresh
  <2>4. \A t : t # s => ~Complete(wire, t, 1)
    BY <1>1, <2>1, <2>3 DEF Complete, About
  <2>5. /\ wire' \in Seq(Message)
        /\ \A t : t # s =>
              /\ SnapshotComing(wire, t) => SnapshotComing(wire', t)
              /\ SnapshotFirst(wire, t) => SnapshotFirst(wire', t)
    BY <1>1, <2>3, <2>4, TailOfWire
  <2>6. /\ book' \in [Symbol -> Content]
        /\ \A t \in Symbol : t # s => book'[t] = book[t]
        /\ PublishMarketByPrice => book'[s] \in {"current", "emptied"}
        /\ ~PublishMarketByPrice => book'[s] = "none"
    <3>1. book[s] \in Content /\ (~PublishMarketByPrice => book[s] = "none")
      BY <1>1 DEF BookInv
    <3>2. QED
      BY <1>1, <2>2, <3>1 DEF Content, Replaced, Emptied
  <2>7. withheld' = {t \in Symbol : book'[t] \in {"emptied", "wrong"}}
    <3>1. ~PublishMarketByPrice => book[s] = "none" /\ s \notin withheld
      BY <1>1 DEF BookInv
    <3>2. book'[s] = "emptied" <=> s \in withheld'
      BY <1>1, <2>2, <3>1 DEF Content, Replaced, Emptied
    <3>3. \A t \in Symbol : t # s => (t \in withheld' <=> t \in withheld)
      BY <2>2
    <3>4. withheld' \subseteq Symbol
      BY <1>1, <2>2
    <3>5. QED
      BY <1>1, <2>6, <3>2, <3>3, <3>4
  <2>8. \A t \in latch' : book'[t] = "missed"
    BY <1>1, <2>3, <2>6
  <2>9. ASSUME PublishMarketByPrice, NEW t \in Symbol \ latch'
        PROVE  /\ t \in live' =>
                     \/ book'[t] = "current" \/ t \in withheld'
                     \/ SnapshotComing(wire', t)
               /\ book'[t] \in {"none", "missed"} => SnapshotFirst(wire', t)
    <3>1. CASE t = s
      BY <2>6, <2>7, <2>9, <3>1
    <3>2. CASE t # s
      <4>1. t \in Symbol \ latch /\ (t \in withheld => t \in withheld')
        BY <2>2, <2>3, <2>9, <3>2
      <4>2. QED
        BY <2>3, <2>5, <2>6, <2>9, <3>2, <4>1 DEF BookInv
    <3>3. QED
      BY <3>1, <3>2
  <2>10. ~PublishMarketByPrice => \A t \in Symbol : book'[t] = "none"
    BY <2>6 DEF BookInv
  <2>11. QED
    BY <2>5, <2>6, <2>7, <2>8, <2>9, <2>10 DEF BookInv
<1>9. QED
  BY <1>2, <1>3, <1>4, <1>5, <1>6, <1>7, <1>8
     DEF MarketDataNext, Connected, Timer, TimerTimeout, TimerTestDisconnect,
         TimerHeartbeat, TimerIdle, Elapse, Heartbeat, Logon, ResendRequest,
         TestRequest, Reject, SecurityList, SymbolsUpdate,
         MarketDataRequestReject, Terminated, mdVars, exchange, books

LEMMA BookInvAlways == MarketDataSpec => []BookInv
<1>1. MarketDataInit => BookInv
  <2> SUFFICES ASSUME MarketDataInit
               PROVE  BookInv
    OBVIOUS
  <2>1. /\ wire = <<>> /\ live = {} /\ book = [s \in Symbol |-> "none"]
        /\ withheld = {} /\ latch = {}
    BY DEF MarketDataInit
  <2>2. \A s : SnapshotFirst(wire, s)
    BY <2>1, EmptyWire
  <2>3. QED
    BY <2>1, <2>2 DEF BookInv, Content
<1>2. QED
  BY <1>1, BookInvStep, QueuesInvAlways, PTL DEF MarketDataSpec

(* Increments are only published on top of the exchange's book, and a      *)
(* subscribed book is the exchange's unless it is latched or its snapshot  *)
(* is under way.  The exception is stated: where the last snapshot had no  *)
(* levels and was withheld, increments are published on the old levels.    *)
THEOREM BooksAreInSync == MarketDataSpec => []BookInSync
<1>1. QueuesInv /\ BookInv => BookInSync
  BY DEF QueuesInv, BookInv, BookInSync, SnapshotComing, Complete, About
<1>2. QED
  BY <1>1, BookInvAlways, QueuesInvAlways, PTL

-----------------------------------------------------------------------------
(* Types *)

Flags == master \in BOOLEAN /\ ready \in BOOLEAN /\ gap \in BOOLEAN

LEMMA FlagsStep == Flags /\ [MarketDataNext]_mdVars => Flags'
  BY DEF Flags, MarketDataNext, Connected, Disconnected, Timer, TimerTimeout,
         TimerTestDisconnect, TimerHeartbeat, TimerIdle, Elapse, Close,
         Heartbeat, Logon, download_begin, download_securities,
         download_subscribe, subscribe, unsubscribe_subscribe, send,
         send_orders, Logout, ResendRequest, TestRequest, Reject, SecurityList,
         SymbolsUpdate, ExchangeServes, ExchangeUpdates,
         MarketDataIncrementalRefresh, MarketDataSnapshotFullRefresh,
         MarketDataRequestReject, Terminated, mdVars, exchange

RefusedOK == refused \subseteq Symbol \cup {"SECURITY_LIST"}

LEMMA RefusedStep ==
    QueuesInv /\ RefusedOK /\ [MarketDataNext]_mdVars => RefusedOK'
<1> SUFFICES ASSUME QueuesInv, RefusedOK, [MarketDataNext]_mdVars
             PROVE  RefusedOK'
  OBVIOUS
<1> USE DEF RefusedOK
<1>1. CASE refused' \in {{}, refused, refused \cup {"SECURITY_LIST"}}
  BY <1>1
<1>2. CASE MarketDataRequestReject
  <2>1. Head(requests) \in OrderOf(symbols)
    BY <1>2, HeadTailProperties DEF MarketDataRequestReject, QueuesInv
  <2>2. Head(requests).symbol \in Symbol
    BY <2>1 DEF OrderOf, QueuesInv
  <2>3. QED
    BY <1>2, <2>2 DEF MarketDataRequestReject
<1>3. QED
  BY <1>1, <1>2
     DEF MarketDataNext, Connected, Disconnected, Timer, TimerTimeout,
         TimerTestDisconnect, TimerHeartbeat, TimerIdle, Elapse, Heartbeat,
         Logon, Logout, ResendRequest, TestRequest, Reject, SecurityList,
         SymbolsUpdate, ExchangeServes, ExchangeUpdates,
         MarketDataIncrementalRefresh, MarketDataSnapshotFullRefresh,
         Terminated, mdVars, history

(* Type correctness; in particular the exchange sends, and the stream      *)
(* latches, symbols of the slice only.                                     *)
THEOREM MarketDataTypeCorrect == MarketDataSpec => []MarketDataTypeOK
<1>1. MarketDataInit => Flags /\ RefusedOK
  BY DEF MarketDataInit, Flags, RefusedOK
<1>2. /\ Stages /\ QueuesInv /\ ClocksInv /\ AskedInv /\ BookInv
      /\ Flags /\ RefusedOK
      => MarketDataTypeOK
  <2> SUFFICES ASSUME Stages, QueuesInv, ClocksInv, AskedInv, BookInv, Flags,
                      RefusedOK
               PROVE  MarketDataTypeOK
    OBVIOUS
  <2>1. /\ connection_status \in {"UNDEFINED", "DISCONNECTED", "LOGIN_SENT",
                                  "DOWNLOADING", "READY", "LOGGED_OUT"}
        /\ download_state \in {"UNDEFINED", "SECURITIES", "DONE"}
        /\ conn \in {"down", "up", "closing", "terminated"}
        /\ session \in {"none", "open", "ended"}
        /\ owed \subseteq Answers
    BY DEF Stages
  <2>2. /\ symbols \subseteq Symbol /\ latch \subseteq symbols
        /\ live \subseteq symbols
        /\ requests \in Seq(OrderOf(symbols))
    BY DEF QueuesInv
  <2>3. requests \in Seq(OrderOf(Symbol))
    BY <2>2, LargerSlice
  <2>4. OrderOf(Symbol) = Order
    BY DEF OrderOf, Order
  <2>5. /\ book \in [Symbol -> Content] /\ wire \in Seq(Message)
        /\ withheld \subseteq Symbol
    BY DEF BookInv
  <2>6. asked \in [Symbol -> Int]
    BY DEF AskedInv
  <2>7. /\ next_heartbeat \in 0..PingFreq
        /\ last_logon_or_heartbeat \in {Unset} \cup (0..(RequestTimeout + 1))
        /\ test_disconnect_time \in {Unset} \cup Nat
        /\ silent \in 0..(RequestTimeout + 1)
    BY DEF ClocksInv
  <2>8. master \in BOOLEAN /\ ready \in BOOLEAN /\ gap \in BOOLEAN
    BY DEF Flags
  <2>9. refused \subseteq Symbol \cup {"SECURITY_LIST"}
    BY DEF RefusedOK
  <2>10. QED
    BY <2>1, <2>2, <2>3, <2>4, <2>5, <2>6, <2>7, <2>8, <2>9, Zenon
       DEF MarketDataTypeOK, Answers
<1>3. QED
  BY <1>1, <1>2, FlagsStep, RefusedStep, AskedInvAlways, BookInvAlways,
     ClocksInvAlways, QueuesInvAlways, PTL DEF MarketDataSpec
=============================================================================
