----------------------------- MODULE OrderEntry ------------------------------
(***************************************************************************)
(* The order-entry stream (gateway/order_entry.cpp) with its requests: the *)
(* session of OrderEntrySession, and on top of it MsgSeqNum, the map from  *)
(* MsgSeqNum to request id by which a session-level Reject is attributed,  *)
(* and the responses handed to the order management of the server.         *)
(*                                                                         *)
(* Every action is an action of the session conjoined with the number of   *)
(* messages it sends, so OrderEntry implements OrderEntrySession by        *)
(* construction.                                                           *)
(***************************************************************************)
EXTENDS OrderEntrySession

CONSTANTS
    RequestId,  \* the ids the server gives to requests, each used once
    MaxEpoch,   \* bound: number of sessions
    MaxSeqNum   \* bound: messages sent in a session

ASSUME OrderEntryAssumption == MaxEpoch \in Nat /\ MaxSeqNum \in Nat

VARIABLES
    outbound,                   \* outbound_.msg_seq_num
    msg_seq_num_to_request_id,  \* msg_seq_num_to_request_id_
    working,                    \* orders open at the exchange
    unanswered,                 \* requests the exchange has yet to answer
    epoch,                      \* history: the number of this session
    sent,                       \* history: the requests sent
    responses                   \* history: the responses dispatched

requestVars == <<outbound, msg_seq_num_to_request_id, working, unanswered,
                 epoch, sent, responses>>
vars == <<sessionVars, requestVars>>

Kinds == {"CREATE_ORDER", "MODIFY_ORDER", "CANCEL_ORDER", "CANCEL_ALL_ORDERS"}

(* A request on the wire; order is the client order id (the label), which  *)
(* is the id of the request that created the order.                        *)
Requests == [kind : Kinds, id : RequestId, order : RequestId,
             epoch : Nat, seq : Nat]

(* A response; to is the request the exchange answered, NoRequest when it  *)
(* reported something on its own.                                          *)
NoRequest == [kind |-> "NONE"]
Responses == [status : {"FORWARDED", "ACCEPTED", "REJECTED", "UNDEFINED"},
              matched_by : {"request_id", "client_order_id"},
              name : RequestId,
              to : Requests \cup {NoRequest}]

RequestsOK ==
    /\ outbound \in Nat
    /\ DOMAIN msg_seq_num_to_request_id \subseteq Nat
    /\ msg_seq_num_to_request_id
          \in [DOMAIN msg_seq_num_to_request_id -> RequestId]
    /\ working \subseteq RequestId
    /\ unanswered \subseteq sent
    /\ epoch \in Nat
    /\ sent \subseteq Requests
    /\ responses \subseteq Responses

TypeOK == SessionTypeOK /\ RequestsOK

Init ==
    /\ SessionInit
    /\ outbound = 0
    /\ msg_seq_num_to_request_id = [n \in {} |-> {}]
    /\ working = {}
    /\ unanswered = {}
    /\ epoch = 1
    /\ sent = {}
    /\ responses = {}

-----------------------------------------------------------------------------
(* The number of messages a handler sends; send() counts a message that    *)
(* could not be written too.                                               *)
Sends(n) ==
    /\ outbound + n <= MaxSeqNum
    /\ outbound' = outbound + n
    /\ UNCHANGED <<msg_seq_num_to_request_id, working, unanswered, epoch,
                   sent, responses>>

(* Did the message just sent reach the exchange in sequence? *)
Delivered == conn = "up" /\ ~gap /\ ~gap'

(* unordered_map::emplace: an entry that is already there stays. *)
emplace(map, key, value) ==
    [k \in DOMAIN map \cup {key} |->
        IF k \in DOMAIN map THEN map[k] ELSE value]

Respond(status, matched_by, name, to) ==
    responses' = responses \cup
        {[status |-> status, matched_by |-> matched_by, name |-> name,
          to |-> to]}

-----------------------------------------------------------------------------
(* server::OrderActionStream *)

Numbered(kind, id, order) ==
    [kind |-> kind, id |-> id, order |-> order, epoch |-> epoch,
     seq |-> outbound + 1]

MakeRequest(kind, id, order) ==
    /\ \A r \in sent : r.id # id
    /\ Request
    /\ outbound + 1 <= MaxSeqNum
    /\ outbound' = outbound + 1
    /\ sent' = sent \cup {Numbered(kind, id, order)}
    /\ unanswered' = IF Delivered
                     THEN unanswered \cup {Numbered(kind, id, order)}
                     ELSE unanswered
    /\ UNCHANGED <<working, epoch>>

RememberBefore(id) ==  \* mutant: the number before send()
    msg_seq_num_to_request_id' =
        emplace(msg_seq_num_to_request_id, outbound, id)

Remember(id) ==
    msg_seq_num_to_request_id' =
        emplace(msg_seq_num_to_request_id, outbound + 1, id)

CreateOrder(id) ==
    /\ MakeRequest("CREATE_ORDER", id, id)
    /\ Remember(id)
    /\ UNCHANGED responses

Known(order) == \E r \in sent : r.kind = "CREATE_ORDER" /\ r.id = order

ModifyOrder(id, order) ==
    /\ Known(order)
    /\ MakeRequest("MODIFY_ORDER", id, order)
    /\ Remember(id)
    /\ UNCHANGED responses

CancelOrder(id, order) ==
    /\ Known(order)
    /\ MakeRequest("CANCEL_ORDER", id, order)
    /\ Remember(id)
    /\ UNCHANGED responses

(* Not entered into the map, and acknowledged as forwarded at once. *)
CancelAllOrders(id) ==
    /\ MakeRequest("CANCEL_ALL_ORDERS", id, id)
    /\ Respond("FORWARDED", "request_id", id,
               Numbered("CANCEL_ALL_ORDERS", id, id))
    /\ UNCHANGED msg_seq_num_to_request_id

-----------------------------------------------------------------------------
(* Responses of the exchange *)

compute_request_status(exec_type, ord_status) ==
    IF exec_type = "REJECTED" THEN "REJECTED"
    ELSE IF \/ exec_type = "CANCELED"
            \/ /\ exec_type = "ORDER_STATUS"
               /\ ord_status \in {"NEW", "PARTIALLY_FILLED", "FILLED",
                                  "CANCELED"}
         THEN "ACCEPTED" ELSE "UNDEFINED"

(* disable_deribit_143 is off: this report is dropped. *)
Dropped(exec_type, ord_status) ==
    exec_type = "CANCELED" /\ ord_status = "CANCELED"

ExecutionReport(exec_type, ord_status, order, to) ==
    \/ /\ Dropped(exec_type, ord_status)
       /\ Receiving /\ session = "open"
       /\ UNCHANGED <<sessionVars, responses>>
    \/ /\ ~Dropped(exec_type, ord_status)
       /\ OtherReport
       /\ Respond(compute_request_status(exec_type, ord_status),
                  "client_order_id", order, to)

(* The report that answers a create, modify or cancel request. *)
AnswerReport(r) ==
    /\ r \in unanswered
    /\ unanswered' = unanswered \ {r}
    /\ \/ /\ r.kind \in {"CREATE_ORDER", "MODIFY_ORDER"}
          /\ ExecutionReport("ORDER_STATUS", "NEW", r.order, r)
          /\ working' = working \cup {r.order}
       \/ /\ r.kind = "CREATE_ORDER"
          /\ ExecutionReport("REJECTED", "REJECTED", r.order, r)
          /\ UNCHANGED working
       \/ /\ r.kind = "CANCEL_ORDER"
          /\ \E exec_type \in {"CANCELED", "ORDER_STATUS"} :
                ExecutionReport(exec_type, "CANCELED", r.order, r)
          /\ working' = working \ {r.order}
    /\ UNCHANGED <<outbound, msg_seq_num_to_request_id, epoch, sent>>

(* A fill of a working order. *)
FillReport(order, ord_status) ==
    /\ order \in working
    /\ ExecutionReport("ORDER_STATUS", ord_status, order, NoRequest)
    /\ working' = IF ord_status = "FILLED" THEN working \ {order} ELSE working
    /\ UNCHANGED <<outbound, msg_seq_num_to_request_id, unanswered, epoch,
                   sent>>

(* A report announced by the mass status: of an order of this gateway, or  *)
(* of another client of the account, which matches no order of the server. *)
DownloadReport ==
    /\ OrderReport
    /\ \/ \E order \in working :
             Respond(compute_request_status("ORDER_STATUS", "NEW"),
                     "client_order_id", order, NoRequest)
       \/ UNCHANGED responses
    /\ UNCHANGED <<outbound, msg_seq_num_to_request_id, working, unanswered,
                   epoch, sent>>

OrderCancelReject(r) ==
    /\ Receiving /\ session = "open"
    /\ r \in unanswered
    /\ r.kind \in {"MODIFY_ORDER", "CANCEL_ORDER"}
    /\ unanswered' = unanswered \ {r}
    /\ Respond("REJECTED", "client_order_id", r.order, r)
    /\ UNCHANGED <<sessionVars, outbound, msg_seq_num_to_request_id, working,
                   epoch, sent>>

(* Reject of an order request: RefSeqNum is looked up in the map. *)
Reject(r) ==
    /\ Receiving /\ session = "open"
    /\ r \in unanswered
    /\ r.kind # "CANCEL_ALL_ORDERS"
    /\ unanswered' = unanswered \ {r}
    /\ IF r.seq \in DOMAIN msg_seq_num_to_request_id
       THEN Respond("REJECTED", "request_id",
                    msg_seq_num_to_request_id[r.seq], r)
       ELSE UNCHANGED responses
    /\ UNCHANGED <<sessionVars, outbound, msg_seq_num_to_request_id, working,
                   epoch, sent>>

OrderMassCancelReport(r, status) ==
    /\ Receiving /\ session = "open"
    /\ r \in unanswered
    /\ r.kind = "CANCEL_ALL_ORDERS"
    /\ unanswered' = unanswered \ {r}
    /\ working' = IF status = "ACCEPTED" THEN {} ELSE working
    /\ Respond(status, "request_id", r.id, r)
    /\ UNCHANGED <<sessionVars, outbound, msg_seq_num_to_request_id, epoch,
                   sent>>

-----------------------------------------------------------------------------
(* The exchange closes the orders if the logon said cancel_on_disconnect.  *)
(* The map is not cleared.                                                 *)
SessionLost ==
    /\ Disconnected
    /\ outbound' = 0
    /\ epoch' = epoch + 1
    /\ unanswered' = {}
    /\ working' \in {{}, working}
    /\ UNCHANGED <<msg_seq_num_to_request_id, sent, responses>>

(* The model's bound on sessions, not the code's. *)
BoundReached ==
    /\ conn = "down"
    /\ epoch > MaxEpoch
    /\ UNCHANGED vars

SessionStep ==
    \/ Connected /\ epoch <= MaxEpoch /\ Sends(0)
    \/ (TimerTimeout \/ TimerTestDisconnect \/ TimerIdle) /\ Sends(0)
    \/ (TimerHeartbeat \/ TimerLogon) /\ Sends(1)
    \/ (Heartbeat \/ ResendRequest) /\ Sends(0)
    \/ (Logon \/ Logout \/ TestRequest) /\ Sends(1)
    \/ PositionReport /\ Sends(IF download_state = "POSITIONS" THEN 1 ELSE 0)
    \/ \E count \in 0..MaxReports : MassStatusReport(count) /\ Sends(0)
    \/ OtherReport /\ Sends(0)
    \/ (RejectClose \/ RejectFatal \/ ReportFatal) /\ Sends(0)
    \/ Terminated /\ Sends(0)
    \/ BoundReached

ClientStep ==
    \E id \in RequestId :
        \/ CreateOrder(id)
        \/ CancelAllOrders(id)
        \/ \E order \in RequestId : ModifyOrder(id, order) \/ CancelOrder(id, order)

ResponseStep ==
    \/ \E r \in unanswered :
          \/ AnswerReport(r)
          \/ OrderCancelReject(r)
          \/ Reject(r)
          \/ \E status \in {"ACCEPTED", "REJECTED"} :
                OrderMassCancelReport(r, status)
    \/ \E order \in working :
          \E ord_status \in {"PARTIALLY_FILLED", "FILLED"} :
             FillReport(order, ord_status)
    \/ DownloadReport

Next == SessionLost \/ SessionStep \/ ClientStep \/ ResponseStep

Spec == Init /\ [][Next]_vars

-----------------------------------------------------------------------------
(* A Reject always finds an entry: every order request of this session has *)
(* its number in the map, and what the map holds under a number is a       *)
(* request that was sent with that number.                                 *)
MapCoversSession ==
    /\ \A r \in sent :
          r.epoch = epoch /\ r.kind # "CANCEL_ALL_ORDERS"
              => r.seq \in DOMAIN msg_seq_num_to_request_id
    /\ \A n \in DOMAIN msg_seq_num_to_request_id :
          \E r \in sent : r.seq = n /\ r.id = msg_seq_num_to_request_id[n]

(* A Reject is attributed to the request it rejects, or to a request of an *)
(* earlier session that was sent with the same number: never to another    *)
(* request of this session.                                                *)
RejectOrReusedNumber ==
    \A x \in responses :
        x.matched_by = "request_id" =>
            \/ x.name = x.to.id
            \/ \E r \in sent : /\ r.epoch < x.to.epoch
                               /\ r.seq = x.to.seq
                               /\ r.id = x.name

(* No request of this session disappears: the exchange has yet to answer   *)
(* it, or its answer was dispatched, or send() has left a hole in the      *)
(* numbers, for which the session is going to be closed (GapClosesSession  *)
(* of the session).  That includes a request accepted between a close()    *)
(* and the Disconnected callback, and a reject that finds no entry.  The   *)
(* cancel requests are excepted: the report that answers one may be        *)
(* Dropped, and what the client is told then is left to a later report.    *)
RequestAccountedFor ==
    \A r \in sent :
        r.epoch = epoch /\ r.kind # "CANCEL_ORDER" =>
            \/ r \in unanswered
            \/ gap
            \/ \E x \in responses : x.to = r /\ x.status # "FORWARDED"

(* A Reject is attributed to the request it rejects. *)
RejectNamesItsRequest ==
    \A x \in responses : x.matched_by = "request_id" => x.name = x.to.id

=============================================================================
