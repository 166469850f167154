-------------------------- MODULE OrderEntrySession --------------------------
(***************************************************************************)
(* The FIX session of the order-entry stream (gateway/order_entry.cpp):    *)
(* connect, log on, download positions and orders, heartbeat, time out,    *)
(* log out, lose the connection and start again.                           *)
(*                                                                         *)
(* The gateway runs one event loop, so a step is one whole handler.  Time  *)
(* passes with Trace<Timer>; an absolute time point of the code is kept as *)
(* the number of timer events since it was taken (an age) or still to go   *)
(* (a countdown), so that time need not be bounded.                        *)
(*                                                                         *)
(* The exchange is external.  It is described by what it has yet to send:  *)
(* a message in flight and a message not yet sent look the same to the     *)
(* gateway, so owed and reports stand for the inbound queue.  Sequence     *)
(* numbers are abstracted to gap (OrderEntry has the numbers).             *)
(***************************************************************************)
EXTENDS Integers, FiniteSets

CONSTANTS
    RequestTimeout,       \* fix.request_timeout in timer events, 0 = never
    PingFreq,             \* fix.ping_freq in timer events
    TestOrderLogon,       \* fix.test_order_logon in timer events
    TestOrderDisconnect,  \* the values of fix.test_order_disconnect that are
                          \* considered, 0 = off
    MaxReports,           \* bound: order reports announced by a mass status
    UnsolicitedReports,   \* execution reports nobody asked for may arrive
    SendMayFail           \* ConnectionManager::send may return false

ASSUME SessionAssumption ==
    /\ RequestTimeout \in Nat
    /\ PingFreq \in Nat \ {0}
    /\ TestOrderLogon \in Nat
    /\ TestOrderDisconnect \subseteq Nat /\ TestOrderDisconnect # {}
    /\ MaxReports \in Nat
    /\ UnsolicitedReports \in BOOLEAN
    /\ SendMayFail \in BOOLEAN

VARIABLES
    conn,                     \* the connection manager
    connection_status,        \* connection_status_, what ready() reads
    ready,                    \* ready_, what the timer reads
    next_heartbeat,           \* countdown to next_heartbeat_
    download_state,           \* download_.state()
    expected,                 \* answers download_ still waits for
    last_logon_or_heartbeat,  \* age of the oldest unanswered probe
    test_logon_time,          \* countdown to the logon
    test_disconnect_time,     \* countdown to the test disconnect
    session,                  \* the exchange's view of the session
    owed,                     \* answers the exchange has yet to send
    reports,                  \* announced order reports yet to be sent
    gap,                      \* a message of this session was not sent
    silent                    \* history: timer events since a heartbeat
                              \* or a logon was last received

gateway  == <<connection_status, ready, next_heartbeat, download_state,
              expected, last_logon_or_heartbeat, test_logon_time,
              test_disconnect_time>>
exchange == <<session, owed, reports, gap>>
sessionVars == <<conn, gateway, exchange, silent>>

Unset == -1

Answers == {"LOGON", "POSITIONS", "MASS_STATUS", "HEARTBEAT", "RESEND_REQUEST"}

FlagsOK == ready \in BOOLEAN /\ gap \in BOOLEAN

ValuesOK ==
    /\ conn \in {"down", "up", "closing", "terminated"}
    /\ connection_status \in
          {"UNDEFINED", "DISCONNECTED", "LOGIN_SENT", "DOWNLOADING", "READY"}
    /\ next_heartbeat \in 0..PingFreq
    /\ download_state \in {"UNDEFINED", "POSITIONS", "ORDERS", "DONE"}
    /\ expected \in Nat
    /\ last_logon_or_heartbeat \in {Unset} \cup (0..(RequestTimeout + 1))
    /\ test_logon_time \in {Unset} \cup (0..TestOrderLogon)
    /\ test_disconnect_time \in {Unset} \cup Nat
    /\ session \in {"none", "open", "ended"}
    /\ owed \in SUBSET Answers
    /\ reports \in 0..MaxReports
    /\ silent \in 0..(RequestTimeout + 1)

SessionTypeOK == FlagsOK /\ ValuesOK

SessionInit ==
    /\ conn = "down"
    /\ connection_status = "UNDEFINED"
    /\ ready = FALSE
    /\ next_heartbeat = 0
    /\ download_state = "UNDEFINED"
    /\ expected = 0
    /\ last_logon_or_heartbeat = Unset
    /\ test_logon_time = Unset
    /\ test_disconnect_time = Unset
    /\ session = "none"
    /\ owed = {}
    /\ reports = 0
    /\ gap = FALSE
    /\ silent = 0

-----------------------------------------------------------------------------
(* Time: one timer event later, an age is one more (it saturates once it   *)
(* exceeds the timeout) and a countdown one less.                          *)

Older(age)  == IF age = Unset \/ age > RequestTimeout THEN age ELSE age + 1
Closer(left) == IF left > 0 THEN left - 1 ELSE left

TimedOut ==
    /\ RequestTimeout # 0
    /\ last_logon_or_heartbeat # Unset
    /\ Older(last_logon_or_heartbeat) > RequestTimeout

-----------------------------------------------------------------------------
(* send().  The message goes out unless the connection is closing or the   *)
(* manager refuses it; the sequence number is used up either way, so the   *)
(* exchange asks for a resend when the next message reaches it.  answers   *)
(* is what the message makes the exchange owe, o what it owes besides.     *)

send_reusing_number(answers, o) ==  \* mutant: a failed send leaves no hole
    \/ /\ conn = "up"
       /\ owed' = o \cup (IF gap THEN {"RESEND_REQUEST"} ELSE answers)
       /\ gap' = gap
    \/ /\ conn # "up" \/ SendMayFail
       /\ owed' = o
       /\ gap' = gap

send(answers, o) ==
    \/ /\ conn = "up" /\ ~gap
       /\ owed' = o \cup answers
       /\ gap' = gap
    \/ /\ conn = "up" /\ gap
       /\ owed' = o \cup {"RESEND_REQUEST"}
       /\ gap' = gap
    \/ /\ conn # "up" \/ SendMayFail
       /\ owed' = o
       /\ gap' = TRUE

(* download(): what entering a download state does. *)
download(state, o) ==
    /\ download_state' = state
    /\ \/ /\ state = "POSITIONS"
          /\ connection_status' = "DOWNLOADING"
          /\ send({"POSITIONS"}, o)
          /\ expected' = 1
          /\ ready' = ready
       \/ /\ state = "ORDERS"
          /\ connection_status' = "DOWNLOADING"
          /\ send({"MASS_STATUS"}, o)
          /\ expected' = 1
          /\ ready' = ready
       \/ /\ state = "DONE"
          /\ connection_status' = "READY"
          /\ expected' = 0
          /\ ready' = TRUE
          /\ owed' = o
          /\ gap' = gap

(* core::Download2: the states in order, and the number of answers awaited *)
(* in the current one.  check_relaxed ignores an answer to another state.  *)
NextState(state) == IF state = "POSITIONS" THEN "ORDERS" ELSE "DONE"

awaiting(state, n, o) ==
    \/ /\ download_state # state
       /\ UNCHANGED <<download_state, expected, connection_status, ready, gap>>
       /\ owed' = o
    \/ /\ download_state = state
       /\ n > 0
       /\ expected' = n
       /\ UNCHANGED <<download_state, connection_status, ready, gap>>
       /\ owed' = o
    \/ /\ download_state = state
       /\ n <= 0
       /\ download(NextState(state), o)

check_always(state, o) ==  \* mutant: an answer to another state counts
    \/ /\ download_state = state
       /\ awaiting(state, expected - 1, o)
    \/ /\ download_state # state
       /\ expected' = expected - 1
       /\ UNCHANGED <<download_state, connection_status, ready, gap>>
       /\ owed' = o

update_one_less(state, count, o) == awaiting(state, count - 1, o)  \* mutant
update_one_more(state, count, o) == awaiting(state, count + 1, o)  \* mutant

check_relaxed(state, o) == awaiting(state, expected - 1, o)
update(state, count, o) == awaiting(state, count, o)

-----------------------------------------------------------------------------
(* io::net::ConnectionManager *)

Connected ==
    /\ conn = "down"
    /\ conn' = "up"
    /\ test_logon_time' = TestOrderLogon
    /\ \E test_order_disconnect \in TestOrderDisconnect :
          test_disconnect_time' = IF test_order_disconnect # 0
                                  THEN test_order_disconnect
                                  ELSE test_disconnect_time
    /\ silent' = 0
    /\ UNCHANGED <<connection_status, ready, next_heartbeat, download_state,
                   expected, last_logon_or_heartbeat, exchange>>

ResetClocksButProbe ==  \* mutant
    /\ next_heartbeat' = 0
    /\ test_logon_time' = Unset
    /\ test_disconnect_time' = Unset
    /\ UNCHANGED last_logon_or_heartbeat

ResetClocks ==
    /\ next_heartbeat' = 0
    /\ last_logon_or_heartbeat' = Unset
    /\ test_logon_time' = Unset
    /\ test_disconnect_time' = Unset

(* The connection is lost, or close() has taken effect.  What the exchange *)
(* had in flight is lost with it.                                          *)
Disconnected ==
    /\ conn \in {"up", "closing"}
    /\ conn' = "down"
    /\ ready' = FALSE
    /\ connection_status' = "DISCONNECTED"
    /\ download_state' = "UNDEFINED"
    /\ expected' = 0
    /\ ResetClocks
    /\ session' = "none"
    /\ owed' = {}
    /\ reports' = 0
    /\ gap' = FALSE
    /\ UNCHANGED silent

-----------------------------------------------------------------------------
(* Trace<Timer>, one action per path through the handler *)

Elapse ==
    /\ conn = "up"
    /\ silent' = Older(silent)
    /\ test_disconnect_time' = Closer(test_disconnect_time)
    /\ UNCHANGED <<download_state, expected, ready, session, reports>>

TimerTimeout ==
    /\ Elapse
    /\ TimedOut
    /\ conn' = "closing"
    /\ last_logon_or_heartbeat' = Older(last_logon_or_heartbeat)
    /\ next_heartbeat' = Closer(next_heartbeat)
    /\ test_logon_time' = Closer(test_logon_time)
    /\ UNCHANGED <<connection_status, owed, gap>>

TimerTestDisconnect ==
    /\ Elapse
    /\ ~TimedOut
    /\ ready
    /\ test_disconnect_time = 0
    /\ conn' = "closing"
    /\ last_logon_or_heartbeat' = Older(last_logon_or_heartbeat)
    /\ next_heartbeat' = Closer(next_heartbeat)
    /\ test_logon_time' = Closer(test_logon_time)
    /\ UNCHANGED <<connection_status, owed, gap>>

(* send_test_request: the age of the oldest unanswered probe is kept when  *)
(* another is sent.                                                        *)
ProbeAgeRestarted(age) == 0           \* mutant
ProbeAge(age) == IF age = Unset THEN 0 ELSE Older(age)

TimerHeartbeat ==
    /\ Elapse
    /\ ~TimedOut
    /\ ready
    /\ test_disconnect_time # 0
    /\ Closer(next_heartbeat) = 0
    /\ next_heartbeat' = PingFreq
    /\ send({"HEARTBEAT"}, owed)
    /\ last_logon_or_heartbeat' = ProbeAge(last_logon_or_heartbeat)
    /\ test_logon_time' = Closer(test_logon_time)
    /\ UNCHANGED <<conn, connection_status>>

TimerLogonRepeats ==  \* mutant: test_logon_time_ is not cleared
    /\ Elapse
    /\ ~TimedOut
    /\ ~ready
    /\ test_logon_time = 0
    /\ send({"LOGON"}, owed)
    /\ last_logon_or_heartbeat' = 0
    /\ connection_status' = "LOGIN_SENT"
    /\ next_heartbeat' = Closer(next_heartbeat)
    /\ UNCHANGED <<conn, test_logon_time>>

TimerLogon ==
    /\ Elapse
    /\ ~TimedOut
    /\ ~ready
    /\ test_logon_time = 0
    /\ test_logon_time' = Unset
    /\ send({"LOGON"}, owed)
    /\ last_logon_or_heartbeat' = 0
    /\ connection_status' = "LOGIN_SENT"
    /\ next_heartbeat' = Closer(next_heartbeat)
    /\ UNCHANGED conn

TimerIdle ==
    /\ Elapse
    /\ ~TimedOut
    /\ IF ready THEN test_disconnect_time # 0 /\ Closer(next_heartbeat) # 0
                ELSE test_logon_time # 0
    /\ last_logon_or_heartbeat' = Older(last_logon_or_heartbeat)
    /\ next_heartbeat' = Closer(next_heartbeat)
    /\ test_logon_time' = Closer(test_logon_time)
    /\ UNCHANGED <<conn, connection_status, owed, gap>>

Timer ==
    \/ TimerTimeout
    \/ TimerTestDisconnect
    \/ TimerHeartbeat
    \/ TimerLogon
    \/ TimerIdle

-----------------------------------------------------------------------------
(* Inbound messages.  What the read buffer still holds when a handler      *)
(* calls close() is dispatched too, so a message is received while conn is *)
(* closing as well; the exchange sends nothing after its logout.           *)

Receiving == conn \in {"up", "closing"} /\ session # "ended"

clocks == <<next_heartbeat, test_logon_time, test_disconnect_time>>

(* The answer to a test request, or the exchange's own. *)
Heartbeat ==
    /\ Receiving
    /\ session = "open"
    /\ last_logon_or_heartbeat' = Unset
    /\ silent' = 0
    /\ owed' = owed \ {"HEARTBEAT"}
    /\ UNCHANGED <<conn, connection_status, ready, download_state, expected,
                   clocks, session, reports, gap>>

Logon ==
    /\ Receiving
    /\ "LOGON" \in owed
    /\ session' = "open"
    /\ last_logon_or_heartbeat' = Unset
    /\ silent' = 0
    /\ download("POSITIONS", owed \ {"LOGON"})
    /\ UNCHANGED <<conn, clocks, reports>>

LogoutWithoutClose ==  \* mutant
    /\ Receiving
    /\ session = "open" \/ "LOGON" \in owed
    /\ ready' = FALSE
    /\ session' = "ended"
    /\ owed' = {}
    /\ reports' = 0
    /\ UNCHANGED <<conn, connection_status, download_state, expected,
                   last_logon_or_heartbeat, clocks, gap, silent>>

(* connection_status_ is left alone: ready() may stay true until the       *)
(* connection manager reports the disconnect.                              *)
Logout ==
    /\ Receiving
    /\ session = "open" \/ "LOGON" \in owed
    /\ ready' = FALSE
    /\ conn' = "closing"
    /\ session' = "ended"
    /\ owed' = {}
    /\ reports' = 0
    /\ UNCHANGED <<connection_status, download_state, expected,
                   last_logon_or_heartbeat, clocks, gap, silent>>

ResendRequestIgnored ==  \* mutant
    /\ Receiving
    /\ "RESEND_REQUEST" \in owed
    /\ owed' = owed \ {"RESEND_REQUEST"}
    /\ UNCHANGED <<conn, gateway, session, reports, gap, silent>>

ResendRequest ==
    /\ Receiving
    /\ "RESEND_REQUEST" \in owed
    /\ conn' = "closing"
    /\ owed' = owed \ {"RESEND_REQUEST"}
    /\ UNCHANGED <<gateway, session, reports, gap, silent>>

TestRequest ==
    /\ Receiving
    /\ session = "open"
    /\ send({}, owed)
    /\ UNCHANGED <<conn, gateway, session, reports, silent>>

(* The answer to the subscription, then updates. *)
PositionReport ==
    /\ Receiving
    /\ session = "open"
    /\ "POSITIONS" \in owed \/ download_state \in {"ORDERS", "DONE"}
    /\ check_relaxed("POSITIONS", owed \ {"POSITIONS"})
    /\ UNCHANGED <<conn, last_logon_or_heartbeat, clocks, session, reports,
                   silent>>

(* mass_status_req_type = ORDERS: the number of reports that follow *)
MassStatusReport(count) ==
    /\ Receiving
    /\ session = "open"
    /\ "MASS_STATUS" \in owed
    /\ reports' = count
    /\ update("ORDERS", count, owed \ {"MASS_STATUS"})
    /\ UNCHANGED <<conn, last_logon_or_heartbeat, clocks, session, silent>>

(* One of the announced reports. *)
OrderReport ==
    /\ Receiving
    /\ session = "open"
    /\ reports > 0
    /\ reports' = reports - 1
    /\ check_relaxed("ORDERS", owed)
    /\ UNCHANGED <<conn, last_logon_or_heartbeat, clocks, session, silent>>

(* Any other report: the answer to a request, a fill, an order of another  *)
(* session of the account.  If it arrives during the order download the    *)
(* handler cannot tell it from an announced one.                           *)
OtherReport ==
    /\ Receiving
    /\ session = "open"
    /\ download_state = "ORDERS" => UnsolicitedReports
    /\ check_relaxed("ORDERS", owed)
    /\ UNCHANGED <<conn, last_logon_or_heartbeat, clocks, session, reports,
                   silent>>

(* A reject may answer the logon too. *)
Rejected == Receiving /\ (session = "open" \/ "LOGON" \in owed)

(* connection_too_slow, or rate_limit_exceeded for a mass cancel *)
RejectClose ==
    /\ Rejected
    /\ conn' = "closing"
    /\ UNCHANGED <<gateway, exchange, silent>>

(* A reject of anything but an order request: log::fatal ends the process. *)
RejectFatal ==
    /\ Rejected
    /\ conn' = "terminated"
    /\ UNCHANGED <<gateway, exchange, silent>>

(* A report with another mass_status_req_type: log::fatal. *)
ReportFatal ==
    /\ Receiving
    /\ session = "open"
    /\ conn' = "terminated"
    /\ UNCHANGED <<gateway, exchange, silent>>

-----------------------------------------------------------------------------
(* Any order request of a client: guarded by ready(), then one send(). *)
Request ==
    /\ conn # "terminated"
    /\ connection_status = "READY"
    /\ send({}, owed)
    /\ UNCHANGED <<conn, gateway, session, reports, silent>>

Terminated ==
    /\ conn = "terminated"
    /\ UNCHANGED sessionVars

SessionNext ==
    \/ Connected \/ Disconnected
    \/ Timer
    \/ Heartbeat \/ Logon \/ Logout \/ ResendRequest \/ TestRequest
    \/ PositionReport
    \/ \E count \in 0..MaxReports : MassStatusReport(count)
    \/ OrderReport \/ OtherReport
    \/ RejectClose \/ RejectFatal \/ ReportFatal
    \/ Request
    \/ Terminated

SessionSpec == SessionInit /\ [][SessionNext]_sessionVars

(* The event loop keeps running the timer and close() takes effect. *)
GatewayFairness ==
    /\ WF_sessionVars(Timer)
    /\ WF_sessionVars(conn = "closing" /\ Disconnected)

(* The exchange answers what it was asked. *)
ExchangeFairness ==
    /\ WF_sessionVars(Logon)
    /\ WF_sessionVars("POSITIONS" \in owed /\ PositionReport)
    /\ WF_sessionVars(\E count \in 0..MaxReports : MassStatusReport(count))
    /\ WF_sessionVars(OrderReport)
    /\ WF_sessionVars(ResendRequest)

(* The connection manager does not refuse every probe for ever. *)
SendFairness ==
    SF_sessionVars(TimerHeartbeat /\ "RESEND_REQUEST" \in owed')

SessionLiveSpec == SessionSpec /\ GatewayFairness

-----------------------------------------------------------------------------
(* The two notions of ready, connection_status_ (read by the order         *)
(* requests) and ready_ (read by the timer), may only differ in the window *)
(* between a close() and the Disconnected callback; and the download is    *)
(* over exactly when the stream is ready (the assert in download()).       *)
ReadyAgrees ==
    /\ conn \notin {"closing", "terminated"} =>
          /\ ready <=> connection_status = "READY"
          /\ ready <=> download_state = "DONE"
    /\ ready => connection_status = "READY"
    /\ download_state \in {"POSITIONS", "ORDERS"} => ~ready

(* Nothing of a session survives into the next: when the connection is     *)
(* down no clock runs, no download is under way, nothing is owed and       *)
(* requests are refused.  In particular the assert of Connected holds: a   *)
(* second logon is never scheduled on top of a first.                      *)
NothingSurvivesDisconnect ==
    conn = "down" =>
        /\ test_logon_time = Unset
        /\ test_disconnect_time = Unset
        /\ last_logon_or_heartbeat = Unset
        /\ next_heartbeat = 0
        /\ download_state = "UNDEFINED"
        /\ ~ready /\ connection_status # "READY"
        /\ owed = {} /\ reports = 0 /\ ~gap

(* The stream is only reported READY once everything the download asked    *)
(* for has arrived: no position snapshot, mass status or announced order   *)
(* report of this session is still on its way when clients may trade.      *)
DownloadComplete ==
    ready => /\ owed \cap {"LOGON", "POSITIONS", "MASS_STATUS"} = {}
             /\ reports = 0

(* The age the timeout is decided on never exceeds the time the exchange   *)
(* has really been silent: a connection on which heartbeats keep coming is *)
(* not closed, whatever was sent and received before.                      *)
TimeoutOnlyAfterSilence ==
    last_logon_or_heartbeat # Unset => last_logon_or_heartbeat <= silent

(* A logon or test request is answered or the connection goes down, even   *)
(* if the exchange never says anything again: sending further probes must  *)
(* not restart the clock of the one that was not answered.                 *)
ProbeAnsweredOrClosed ==
    (last_logon_or_heartbeat # Unset)
        ~> (last_logon_or_heartbeat = Unset \/ conn = "terminated")

(* With an exchange that answers and sends that are not refused, a         *)
(* connection becomes READY or is lost: no order of answers leaves the     *)
(* download waiting for ever.                                              *)
SessionComesUp ==
    ExchangeFairness /\ []~gap =>
        ((conn = "up") ~> (connection_status = "READY" \/ conn # "up"))

(* A message that send() could not write is not forgotten: on a ready      *)
(* stream the next probe reveals the gap, the exchange asks for a resend   *)
(* and the session is closed.                                              *)
GapClosesSession ==
    ExchangeFairness /\ SendFairness =>
        ((gap /\ ready) ~> (conn \in {"down", "terminated"}))

(* What clients are shown of the stream is what every stream promises:     *)
(* READY only after a logon of the present connection was answered and     *)
(* never back from there but through a disconnect.                         *)
SessionStream == INSTANCE Stream WITH
    link   <- IF conn = "down" THEN "down" ELSE "up",
    status <- connection_status

SessionIsStream == SessionStream!Spec

=============================================================================
