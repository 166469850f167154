-------------------------------- MODULE Rest --------------------------------
(***************************************************************************)
(* The REST stream (gateway/rest.cpp), the two downloads it shares with    *)
(* the master WebSocket stream (gateway/request.cpp) and the throttle that *)
(* reads its responses (tools/throttle.cpp).                               *)
(*                                                                         *)
(* The master asks for a download with request(); the REST stream sends    *)
(* the HTTP request when it is connected, the rate limiter allows it and   *)
(* no other download is under way, and commits it whatever the outcome.    *)
(*                                                                         *)
(* core::limit::Request, core::limit::Queue, the rate limiter and          *)
(* web::rest::Client are external: each HTTP request gets one response,    *)
(* which may be a network error.  Requests for chart data are a set: one   *)
(* that is asked for again while it waits is not told apart.  What chart   *)
(* data is published is left out.                                          *)
(***************************************************************************)
EXTENDS Integers, FiniteSets, FiniteSetsExt

CONSTANTS
    Symbol,           \* the instruments of the exchange
    EnableRateLimit,  \* experimental.enable_rate_limit, the throttle's enabled_
    DefaultBackoff,   \* DEFAULT_BACKOFF in timer events
    BlockedBackoff,   \* BLOCKED_BACKOFF in timer events
    RetryAfter        \* periods of a Retry-After header, 0 = in the past

ASSUME RestAssumption ==
    /\ IsFiniteSet(Symbol)
    /\ EnableRateLimit \in BOOLEAN
    /\ DefaultBackoff \in Nat
    /\ BlockedBackoff \in Nat
    /\ RetryAfter \subseteq Nat

VARIABLES
    rest_status,      \* connection_status_, TERMINATED: the process ended
    request,          \* request_.currencies, request_.instruments
    time_series,      \* shared_.time_series_request_queue
    charting,         \* symbols whose chart data is awaited
    suspend_until,    \* countdown to throttle.suspend_until_
    blocked           \* history: timer events to the end of the block
                      \* announced by the last 403

restVars == <<rest_status, request, time_series, charting, suspend_until,
              blocked>>

Downloads == {"currencies", "instruments"}

Never == -1   \* suspend_until_.count() == 0: no response suspended anything

RestTypeOK ==
    /\ rest_status \in {"UNDEFINED", "DISCONNECTED", "READY", "TERMINATED"}
    /\ request \in [Downloads -> {"idle", "pending", "sent", "done"}]
    /\ time_series \subseteq Symbol /\ charting \subseteq Symbol
    /\ suspend_until \in {Never} \cup Nat
    /\ blocked \in 0..BlockedBackoff

RestInit ==
    /\ rest_status = "UNDEFINED"
    /\ request = [x \in Downloads |-> "idle"]
    /\ time_series = {} /\ charting = {}
    /\ suspend_until = Never
    /\ blocked = 0

-----------------------------------------------------------------------------
(* core::limit::Request (external) *)

RequestKeepsResponse(r, x) ==  \* mutant: an old response is not forgotten
    [r EXCEPT ![x] = IF @ = "idle" THEN "pending" ELSE @]

(* request(): a response that is already there does not count; an HTTP     *)
(* request that is already out does.                                       *)
Requested(r, x) == [r EXCEPT ![x] = IF @ = "sent" THEN "sent" ELSE "pending"]

has_response(x) == request[x] = "done"

CommitIfSuccess(r, x, ok) == [r EXCEPT ![x] = IF ok THEN "done" ELSE "sent"]
                                                                    \* mutant
commit(r, x, ok) == [r EXCEPT ![x] = "done"]

(* Request::ready(): neither download is under way. *)
ready(r) == \A x \in Downloads : r[x] # "sent"

get_currencies(r) == [r EXCEPT !["currencies"] = "sent"]
get_instruments(r) == [r EXCEPT !["instruments"] = "sent"]

(* One download at a time, if the rate limiter (can_request) allows it. *)
check_download(r) ==
    {r} \cup (IF ready(r) /\ r["currencies"] = "pending"
              THEN {get_currencies(r)} ELSE {})
        \cup (IF ready(r) /\ r["instruments"] = "pending"
              THEN {get_instruments(r)} ELSE {})

get_chart_data(S) ==
    /\ time_series' = time_series \ S
    /\ charting' = charting \cup S

-----------------------------------------------------------------------------
(* web::rest::Client *)

RestConnected ==
    /\ rest_status \in {"UNDEFINED", "DISCONNECTED"}
    /\ rest_status' = "READY"
    /\ request' \in check_download(request)
    /\ UNCHANGED <<time_series, charting, suspend_until, blocked>>

RestDisconnected ==
    /\ rest_status = "READY"
    /\ rest_status' = "DISCONNECTED"
    /\ UNCHANGED <<request, time_series, charting, suspend_until, blocked>>

LessTime(left) == IF left > 0 THEN left - 1 ELSE left

(* Timer: downloads first, then chart data, as the rate limiter allows *)
RestTimer ==
    /\ rest_status = "READY"
    /\ request' \in check_download(request)
    /\ \E allowed \in SUBSET time_series : get_chart_data(allowed)
    /\ suspend_until' = LessTime(suspend_until)
    /\ blocked' = LessTime(blocked)
    /\ UNCHANGED rest_status

-----------------------------------------------------------------------------
(* tools::Throttle: what the headers and the status of a response do to    *)
(* suspend_until_, unless it is disabled.  retry is the period of a        *)
(* Retry-After header that differs from the last one, or Never.  Who reads *)
(* suspend_until_ is external: the throttle is handed to web::rest::Client *)
(* and web::socket::Client, and no code here asks it before a request.     *)

RetryHeader(until, retry) ==
    IF retry = Never THEN until
    ELSE Max({until, IF retry > 0 THEN retry ELSE DefaultBackoff})

ForbiddenIfFirst(until) ==  \* mutant: as for 429
    IF until = Never THEN BlockedBackoff ELSE until
Forbidden(until) == Max({until, BlockedBackoff})

(* A later 429 does not suspend: suspend_until_ is never reset. *)
TooManyRequests(until) == IF until = Never THEN DefaultBackoff ELSE until

Throttle(http, retry) ==
    LET until == RetryHeader(suspend_until, retry) IN
    /\ \/ /\ EnableRateLimit
          /\ suspend_until' =
                CASE http = "FORBIDDEN" -> Forbidden(until)
                  [] http = "TOO_MANY_REQUESTS" -> TooManyRequests(until)
                  [] OTHER -> until
       \/ ~EnableRateLimit /\ UNCHANGED suspend_until
    /\ blocked' = IF http = "FORBIDDEN" THEN BlockedBackoff ELSE blocked

-----------------------------------------------------------------------------
(* get_currencies_ack, get_instruments_ack: process_response, then commit. *)
(* What a success does besides, which may ask for chart data, is with the  *)
(* caller (Gateway).                                                       *)

Awaiting(x) == request[x] = "sent" /\ rest_status # "TERMINATED"

RestSuccess(x) ==
    /\ Awaiting(x)
    /\ \E retry \in RetryAfter \cup {Never} : Throttle("OK", retry)
    /\ request' = commit(request, x, TRUE)
    /\ UNCHANGED <<rest_status, charting>>

(* An error of the exchange: HTTP status or error code. *)
RestError(x) ==
    /\ Awaiting(x)
    /\ \E http \in {"FORBIDDEN", "TOO_MANY_REQUESTS", "OTHER"},
          retry \in RetryAfter \cup {Never} : Throttle(http, retry)
    /\ request' = commit(request, x, FALSE)
    /\ UNCHANGED <<rest_status, time_series, charting>>

RestNetworkError(x) ==
    /\ Awaiting(x)
    /\ request' = commit(request, x, FALSE)
    /\ UNCHANGED <<rest_status, time_series, charting, suspend_until, blocked>>

(* get_chart_data_ack: an error is only logged. *)
ChartDataAck(s) ==
    /\ s \in charting /\ rest_status # "TERMINATED"
    /\ charting' = charting \ {s}
    /\ \/ \E http \in {"OK", "FORBIDDEN", "TOO_MANY_REQUESTS", "OTHER"},
             retry \in RetryAfter \cup {Never} : Throttle(http, retry)
       \/ UNCHANGED <<suspend_until, blocked>>   \* network error
    /\ UNCHANGED <<rest_status, request, time_series>>

(* A redirection of any of them: log::fatal. *)
RestRedirected ==
    /\ charting # {} \/ \E x \in Downloads : request[x] = "sent"
    /\ rest_status # "TERMINATED"
    /\ rest_status' = "TERMINATED"
    /\ UNCHANGED <<request, time_series, charting, suspend_until, blocked>>

RestTerminated ==
    /\ rest_status = "TERMINATED"
    /\ UNCHANGED restVars

-----------------------------------------------------------------------------
(* The master WebSocket stream, any WebSocket stream, free to act at any   *)
(* time (Gateway has the real ones).                                       *)

AskDownload(x) ==
    /\ rest_status # "TERMINATED"
    /\ request' = Requested(request, x)
    /\ UNCHANGED <<rest_status, time_series, charting, suspend_until, blocked>>

AskChart(s) ==
    /\ rest_status # "TERMINATED"
    /\ time_series' = time_series \cup {s}
    /\ UNCHANGED <<rest_status, request, charting, suspend_until, blocked>>

RestNext ==
    \/ RestConnected \/ RestDisconnected \/ RestTimer
    \/ RestRedirected \/ RestTerminated
    \/ \E x \in Downloads : \/ RestSuccess(x) /\ UNCHANGED time_series
                            \/ RestError(x) \/ RestNetworkError(x)
                            \/ AskDownload(x)
    \/ \E s \in Symbol : ChartDataAck(s) \/ AskChart(s)

RestSpec == RestInit /\ [][RestNext]_restVars

(* Each HTTP request gets a response, and a connection that keeps being    *)
(* lost gets a request out in the end.                                     *)
RestFairness ==
    \A x \in Downloads :
        /\ WF_restVars(\/ RestSuccess(x) /\ UNCHANGED time_series
                       \/ RestError(x) \/ RestNetworkError(x))
        /\ SF_restVars(/\ RestConnected \/ RestTimer
                       /\ request[x] = "pending" /\ request'[x] = "sent")

RestLiveSpec == RestSpec /\ RestFairness

-----------------------------------------------------------------------------
(* With rate limiting enabled a 403 blocks for the whole of its period,    *)
(* whatever Retry-After headers and other responses come before and after  *)
(* it.                                                                     *)
BlockHolds == EnableRateLimit /\ blocked > 0 => suspend_until >= blocked

(* Whatever is asked for, in whatever order, and however often a request   *)
(* fails: a download that waits is answered in the end, since a failure is *)
(* committed like a success and the two downloads never block each other   *)
(* (unless a redirection ends the process).                                *)
DownloadAnswered ==
    \A x \in Downloads :
        request[x] = "pending" ~> has_response(x) \/ rest_status = "TERMINATED"

=============================================================================
