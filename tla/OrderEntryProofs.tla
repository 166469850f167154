--------------------------- MODULE OrderEntryProofs --------------------------
(***************************************************************************)
(* The attribution of rejects is right up to the reuse of sequence numbers *)
(* across sessions, and no request disappears, for every set of requests   *)
(* and every bound.  OrderEntry implements OrderEntrySession by            *)
(* construction, so the theorems about the session hold of it too.         *)
(***************************************************************************)
EXTENDS OrderEntry, OrderEntrySessionProofs

LEMMA StepImplementsSession == [Next]_vars => [SessionNext]_sessionVars
<1> SUFFICES ASSUME Next PROVE [SessionNext]_sessionVars
  BY DEF vars
<1>1. CASE SessionLost
  BY <1>1 DEF SessionLost, SessionNext
<1>2. CASE SessionStep
  BY <1>2 DEF SessionStep, SessionNext, Timer, BoundReached, vars
<1>3. CASE ClientStep
  BY <1>3 DEF ClientStep, CreateOrder, CancelAllOrders, ModifyOrder,
              CancelOrder, MakeRequest, SessionNext
<1>4. CASE ResponseStep
  <2>1. ASSUME NEW r \in unanswered, AnswerReport(r)
        PROVE  [SessionNext]_sessionVars
    BY <2>1 DEF AnswerReport, ExecutionReport, SessionNext
  <2>2. ASSUME NEW r \in unanswered,
               \/ OrderCancelReject(r)
               \/ Reject(r)
               \/ \E status \in {"ACCEPTED", "REJECTED"} :
                     OrderMassCancelReport(r, status)
        PROVE  UNCHANGED sessionVars
    BY <2>2 DEF OrderCancelReject, Reject, OrderMassCancelReport
  <2>3. ASSUME NEW order \in working, NEW ord_status, FillReport(order, ord_status)
        PROVE  [SessionNext]_sessionVars
    BY <2>3 DEF FillReport, ExecutionReport, SessionNext
  <2>4. DownloadReport => SessionNext
    BY DEF DownloadReport, SessionNext
  <2>5. QED
    BY <1>4, <2>1, <2>2, <2>3, <2>4 DEF ResponseStep
<1>5. QED
  BY <1>1, <1>2, <1>3, <1>4 DEF Next

(* Every action is one of the session with conjuncts added; used for the   *)
(* types of the session's variables.                                       *)
LEMMA OrderEntryImplementsSession == Spec => SessionSpec
<1>1. Init => SessionInit
  BY DEF Init
<1>2. QED
  BY <1>1, StepImplementsSession, PTL DEF Spec, SessionSpec

-----------------------------------------------------------------------------
(* The numbers of this session's requests are all used up, and what the    *)
(* exchange may still answer belongs to this session.                      *)
NumbersInv ==
    /\ outbound \in Nat
    /\ epoch \in Nat
    /\ sent \subseteq Requests
    /\ unanswered \subseteq sent
    /\ \A r \in sent : /\ r.epoch <= epoch
                       /\ r.epoch = epoch => r.seq <= outbound
    /\ \A r \in unanswered : r.epoch = epoch

(* How a step changes the numbers and the requests: it sends no request,   *)
(* it sends one, or the session is lost.                                   *)
SendsNoRequest ==
    /\ outbound' \in Nat /\ outbound' >= outbound
    /\ unanswered' \subseteq unanswered
    /\ UNCHANGED <<sent, epoch, msg_seq_num_to_request_id>>

SendsRequest(kind, id, order) ==
    /\ outbound' = outbound + 1
    /\ sent' = sent \cup {Numbered(kind, id, order)}
    /\ unanswered' \subseteq unanswered \cup {Numbered(kind, id, order)}
    /\ \/ kind # "CANCEL_ALL_ORDERS" /\ Remember(id)
       \/ kind = "CANCEL_ALL_ORDERS" /\ UNCHANGED msg_seq_num_to_request_id
    /\ UNCHANGED epoch

LosesSession ==
    /\ outbound' = 0
    /\ epoch' = epoch + 1
    /\ unanswered' = {}
    /\ UNCHANGED <<sent, msg_seq_num_to_request_id>>

LEMMA StepKinds ==
    ASSUME outbound \in Nat, [Next]_vars
    PROVE  \/ SendsNoRequest
           \/ \E kind \in Kinds : \E id, order \in RequestId :
                 SendsRequest(kind, id, order)
           \/ LosesSession
<1>1. CASE SessionLost
  BY <1>1 DEF SessionLost, LosesSession
<1>2. CASE SessionStep
  <2>1. CASE BoundReached
    BY <2>1 DEF BoundReached, vars, requestVars, SendsNoRequest
  <2>2. CASE \E n \in Nat : Sends(n)
    BY <2>2 DEF Sends, SendsNoRequest
  <2>3. QED
    BY <1>2, <2>1, <2>2 DEF SessionStep
<1>3. CASE ClientStep
  <2>1. PICK id \in RequestId :
          \/ CreateOrder(id)
          \/ CancelAllOrders(id)
          \/ \E order \in RequestId :
                ModifyOrder(id, order) \/ CancelOrder(id, order)
    BY <1>3 DEF ClientStep
  <2>2. CASE CreateOrder(id)
    <3>1. SendsRequest("CREATE_ORDER", id, id)
      BY <2>2 DEF CreateOrder, MakeRequest, SendsRequest
    <3>2. QED
      BY <3>1 DEF Kinds
  <2>3. CASE CancelAllOrders(id)
    <3>1. SendsRequest("CANCEL_ALL_ORDERS", id, id)
      BY <2>3 DEF CancelAllOrders, MakeRequest, SendsRequest
    <3>2. QED
      BY <3>1 DEF Kinds
  <2>4. ASSUME NEW order \in RequestId, ModifyOrder(id, order)
        PROVE  SendsRequest("MODIFY_ORDER", id, order)
    BY <2>4 DEF ModifyOrder, MakeRequest, SendsRequest
  <2>5. ASSUME NEW order \in RequestId, CancelOrder(id, order)
        PROVE  SendsRequest("CANCEL_ORDER", id, order)
    BY <2>5 DEF CancelOrder, MakeRequest, SendsRequest
  <2>6. QED
    BY <2>1, <2>2, <2>3, <2>4, <2>5 DEF Kinds
<1>4. CASE ResponseStep
  BY <1>4 DEF ResponseStep, AnswerReport, FillReport, OrderCancelReject,
              Reject, OrderMassCancelReport, DownloadReport, SendsNoRequest
<1>5. CASE UNCHANGED vars
  BY <1>5 DEF vars, requestVars, SendsNoRequest
<1>6. QED
  BY <1>1, <1>2, <1>3, <1>4, <1>5 DEF Next

LEMMA NumberedRequest ==
    ASSUME NEW kind \in Kinds, NEW id \in RequestId, NEW order \in RequestId,
           outbound \in Nat, epoch \in Nat
    PROVE  /\ Numbered(kind, id, order) \in Requests
           /\ Numbered(kind, id, order).epoch = epoch
           /\ Numbered(kind, id, order).seq = outbound + 1
           /\ Numbered(kind, id, order).id = id
           /\ Numbered(kind, id, order).kind = kind
  BY DEF Numbered, Requests

LEMMA NumbersInvStep ==
    ASSUME NumbersInv, [Next]_vars
    PROVE  NumbersInv'
<1>1. CASE SendsNoRequest
  BY <1>1 DEF SendsNoRequest, NumbersInv, Requests
<1>2. ASSUME NEW kind \in Kinds, NEW id \in RequestId, NEW order \in RequestId,
             SendsRequest(kind, id, order)
      PROVE  NumbersInv'
  <2> DEFINE q == Numbered(kind, id, order)
  <2>1. /\ q \in Requests /\ q.epoch = epoch /\ q.seq = outbound + 1
    BY NumberedRequest DEF NumbersInv
  <2>2. sent' = sent \cup {q} /\ unanswered' \subseteq unanswered \cup {q}
    BY <1>2 DEF SendsRequest
  <2> HIDE DEF q
  <2>3. outbound' = outbound + 1 /\ epoch' = epoch
    BY <1>2 DEF SendsRequest
  <2>4. QED
    BY <2>1, <2>2, <2>3 DEF NumbersInv, Requests
<1>3. CASE LosesSession
  BY <1>3 DEF LosesSession, NumbersInv, Requests
<1>4. QED
  BY <1>1, <1>2, <1>3, StepKinds DEF NumbersInv

LEMMA NumbersInvariant == Spec => []NumbersInv
<1>1. Init => NumbersInv
  BY DEF Init, NumbersInv
<1>2. NumbersInv /\ [Next]_vars => NumbersInv'
  BY NumbersInvStep
<1>3. QED
  BY <1>1, <1>2, PTL DEF Spec

(* No two requests of a session carry the same MsgSeqNum: send() counts    *)
(* every message.                                                          *)
RequestNumbersUnique ==
    \A a, b \in sent : a.epoch = b.epoch /\ a.seq = b.seq => a = b

LEMMA NumbersNameRequests == Spec => []RequestNumbersUnique
<1>1. Init => RequestNumbersUnique
  BY DEF Init, RequestNumbersUnique
<1>2. ASSUME NumbersInv, RequestNumbersUnique, [Next]_vars
      PROVE  RequestNumbersUnique'
  <2>1. CASE sent' = sent
    BY <1>2, <2>1 DEF RequestNumbersUnique
  <2>2. ASSUME NEW kind \in Kinds, NEW id \in RequestId,
               NEW order \in RequestId, SendsRequest(kind, id, order)
        PROVE  RequestNumbersUnique'
    <3> DEFINE q == Numbered(kind, id, order)
    <3>1. q.epoch = epoch /\ q.seq = outbound + 1
      BY <1>2, NumberedRequest DEF NumbersInv
    <3>2. sent' = sent \cup {q}
      BY <2>2 DEF SendsRequest
    <3> HIDE DEF q
    <3>3. \A r \in sent : ~(r.epoch = q.epoch /\ r.seq = q.seq)
      BY <1>2, <3>1 DEF NumbersInv, Requests
    <3>4. QED
      BY <1>2, <3>2, <3>3 DEF RequestNumbersUnique
  <2>3. QED
    BY <1>2, <2>1, <2>2, StepKinds
       DEF NumbersInv, SendsNoRequest, LosesSession
<1>3. QED
  BY <1>1, <1>2, NumbersInvariant, PTL DEF Spec

(* The map always has an entry for a request of this session, and an entry *)
(* is always a request that was sent with that number.                     *)
THEOREM MapAnswersRejects == Spec => []MapCoversSession
<1>1. Init => MapCoversSession
  BY DEF Init, MapCoversSession
<1>2. ASSUME NumbersInv, MapCoversSession, [Next]_vars
      PROVE  MapCoversSession'
  <2>1. CASE SendsNoRequest
    BY <1>2, <2>1 DEF SendsNoRequest, MapCoversSession
  <2>2. ASSUME NEW kind \in Kinds, NEW id \in RequestId,
               NEW order \in RequestId, SendsRequest(kind, id, order)
        PROVE  MapCoversSession'
    <3> DEFINE q == Numbered(kind, id, order)
               m == msg_seq_num_to_request_id
    <3>1. q.seq = outbound + 1 /\ q.id = id /\ q.kind = kind
      BY <1>2, NumberedRequest DEF NumbersInv
    <3>2. sent' = sent \cup {q} /\ epoch' = epoch
      BY <2>2 DEF SendsRequest
    <3>3. \/ /\ kind # "CANCEL_ALL_ORDERS"
             /\ DOMAIN m' = DOMAIN m \cup {outbound + 1}
             /\ \A n \in DOMAIN m : m'[n] = m[n]
             /\ outbound + 1 \notin DOMAIN m => m'[outbound + 1] = id
          \/ kind = "CANCEL_ALL_ORDERS" /\ m' = m
      BY <2>2 DEF SendsRequest, Remember, emplace
    <3> HIDE DEF q, m
    <3>4. \A r \in sent' :
             r.epoch = epoch' /\ r.kind # "CANCEL_ALL_ORDERS"
                => r.seq \in DOMAIN m'
      BY <1>2, <3>1, <3>2, <3>3 DEF MapCoversSession, m
    <3>5. \A n \in DOMAIN m' : \E r \in sent' : r.seq = n /\ r.id = m'[n]
      BY <1>2, <3>1, <3>2, <3>3 DEF MapCoversSession, m
    <3>6. QED
      BY <3>4, <3>5 DEF MapCoversSession, m
  <2>3. CASE LosesSession
    BY <1>2, <2>3 DEF LosesSession, MapCoversSession, NumbersInv, Requests
  <2>4. QED
    BY <1>2, <2>1, <2>2, <2>3, StepKinds DEF NumbersInv
<1>3. QED
  BY <1>1, <1>2, NumbersInvariant, PTL DEF Spec

-----------------------------------------------------------------------------
(* The responses of a step: the old ones, and perhaps one more, matched by *)
(* the client order id, by the id of the request itself, or by the map.    *)
RespondsByLabel ==
    \A x \in responses' \ responses : x.matched_by = "client_order_id"

RespondsByOwnId ==
    \A x \in responses' \ responses : x.name = x.to.id

RespondsByMap ==
    \E r \in unanswered :
        /\ r.seq \in DOMAIN msg_seq_num_to_request_id
        /\ \A x \in responses' \ responses :
              /\ x.to = r
              /\ x.name = msg_seq_num_to_request_id[r.seq]

LEMMA ResponseKinds ==
    ASSUME [Next]_vars
    PROVE  RespondsByLabel \/ RespondsByOwnId \/ RespondsByMap
<1>1. CASE responses' = responses
  BY <1>1 DEF RespondsByLabel
<1>2. ASSUME NEW r \in unanswered, AnswerReport(r)
      PROVE  RespondsByLabel
  BY <1>2 DEF AnswerReport, ExecutionReport, Respond, RespondsByLabel
<1>3. ASSUME NEW r \in unanswered, OrderCancelReject(r)
      PROVE  RespondsByLabel
  BY <1>3 DEF OrderCancelReject, Respond, RespondsByLabel
<1>4. ASSUME NEW r \in unanswered, Reject(r)
      PROVE  RespondsByLabel \/ RespondsByMap
  BY <1>4 DEF Reject, Respond, RespondsByMap, RespondsByLabel
<1>5. ASSUME NEW r \in unanswered, NEW status,
             OrderMassCancelReport(r, status)
      PROVE  RespondsByOwnId
  BY <1>5 DEF OrderMassCancelReport, Respond, RespondsByOwnId
<1>6. ASSUME NEW order \in working, NEW ord_status,
             FillReport(order, ord_status)
      PROVE  RespondsByLabel
  BY <1>6 DEF FillReport, ExecutionReport, Respond, RespondsByLabel
<1>7. ASSUME NEW id \in RequestId, CancelAllOrders(id)
      PROVE  RespondsByOwnId
  BY <1>7 DEF CancelAllOrders, Respond, Numbered, RespondsByOwnId
<1>8. CASE ResponseStep
  <2>1. DownloadReport => RespondsByLabel
    BY DEF DownloadReport, Respond, RespondsByLabel
  <2>2. QED
    BY <1>8, <1>2, <1>3, <1>4, <1>5, <1>6, <2>1 DEF ResponseStep
<1>9. CASE ClientStep
  BY <1>9, <1>1, <1>7 DEF ClientStep, CreateOrder, ModifyOrder, CancelOrder
<1>10. CASE SessionStep
  <2>1. responses' = responses
    BY <1>10 DEF SessionStep, Sends, BoundReached, vars, requestVars
  <2>2. QED
    BY <1>1, <2>1
<1>11. CASE SessionLost
  BY <1>1, <1>11 DEF SessionLost
<1>12. CASE UNCHANGED vars
  BY <1>1, <1>12 DEF vars, requestVars
<1>13. QED
  BY <1>8, <1>9, <1>10, <1>11, <1>12 DEF Next

LEMMA SentGrows ==
    ASSUME NumbersInv, [Next]_vars
    PROVE  sent \subseteq sent'
  BY StepKinds
     DEF NumbersInv, SendsNoRequest, SendsRequest, LosesSession

(* A reject is attributed to the request it rejects, unless an earlier     *)
(* session sent a request with the same number: the reuse of numbers after *)
(* a reconnect is the only way to a wrong attribution.                     *)
THEOREM RejectsAreAttributed == Spec => []RejectOrReusedNumber
<1>1. Init => RejectOrReusedNumber
  BY DEF Init, RejectOrReusedNumber
<1>2. ASSUME NumbersInv, RequestNumbersUnique, MapCoversSession,
             RejectOrReusedNumber, [Next]_vars
      PROVE  RejectOrReusedNumber'
  <2> SUFFICES ASSUME NEW x \in responses', x.matched_by = "request_id"
               PROVE  \/ x.name = x.to.id
                      \/ \E r \in sent' : /\ r.epoch < x.to.epoch
                                          /\ r.seq = x.to.seq
                                          /\ r.id = x.name
    BY DEF RejectOrReusedNumber
  <2>1. CASE x \in responses
    BY <1>2, <2>1, SentGrows DEF RejectOrReusedNumber
  <2>2. CASE x \notin responses /\ (RespondsByLabel \/ RespondsByOwnId)
    BY <2>2 DEF RespondsByLabel, RespondsByOwnId
  <2>3. CASE x \notin responses /\ RespondsByMap
    <3>1. PICK r \in unanswered :
            /\ r.seq \in DOMAIN msg_seq_num_to_request_id
            /\ x.to = r
            /\ x.name = msg_seq_num_to_request_id[r.seq]
      BY <2>3 DEF RespondsByMap
    <3>2. PICK s \in sent : s.seq = r.seq /\ s.id = x.name
      BY <1>2, <3>1 DEF MapCoversSession
    <3>3. r \in sent /\ r.epoch = epoch /\ s.epoch <= epoch
      BY <1>2 DEF NumbersInv
    <3>4. CASE s.epoch = epoch
      BY <1>2, <3>1, <3>2, <3>3, <3>4 DEF RequestNumbersUnique
    <3>5. CASE s.epoch # epoch
      <4>1. s.epoch \in Nat /\ epoch \in Nat
        BY <1>2 DEF NumbersInv, Requests
      <4>2. s.epoch < x.to.epoch
        BY <3>1, <3>3, <3>5, <4>1
      <4>3. s \in sent'
        BY <1>2, SentGrows
      <4>4. QED
        BY <3>1, <3>2, <4>2, <4>3
    <3>6. QED
      BY <3>4, <3>5
  <2>4. QED
    BY <1>2, <2>1, <2>2, <2>3, ResponseKinds
<1>3. QED
  BY <1>1, <1>2, NumbersInvariant, NumbersNameRequests, MapAnswersRejects,
     PTL DEF Spec

-----------------------------------------------------------------------------
(* A hole in the numbers stays until the session is lost. *)
LEMMA HoleStays ==
    ASSUME gap, [Next]_vars
    PROVE  gap' \/ LosesSession
<1>1. CASE SessionLost
  BY <1>1 DEF SessionLost, LosesSession
<1>2. CASE UNCHANGED gap
  BY <1>2
<1>3. ASSUME NEW answers, NEW o, send(answers, o)
      PROVE  gap'
  BY <1>3 DEF send
<1>4. ASSUME NEW state, NEW o, download(state, o)
      PROVE  gap'
  BY <1>3, <1>4 DEF download
<1>5. ASSUME NEW state, NEW n, NEW o, awaiting(state, n, o)
      PROVE  gap'
  BY <1>4, <1>5 DEF awaiting
<1>6. ASSUME OrderReport \/ OtherReport \/ PositionReport
      PROVE  gap'
  BY <1>5, <1>6 DEF OrderReport, OtherReport, PositionReport, check_relaxed
<1>7. CASE ClientStep
  <2>1. Request
    BY <1>7 DEF ClientStep, CreateOrder, CancelAllOrders, ModifyOrder,
                CancelOrder, MakeRequest
  <2>2. QED
    BY <1>3, <2>1 DEF Request
<1>8. CASE ResponseStep
  <2>1. ASSUME NEW exec_type, NEW ord_status, NEW order, NEW to,
               ExecutionReport(exec_type, ord_status, order, to)
        PROVE  gap'
    BY <1>6, <2>1 DEF ExecutionReport, sessionVars, exchange
  <2>2. ASSUME NEW r, AnswerReport(r)
        PROVE  gap'
    BY <2>1, <2>2 DEF AnswerReport
  <2>3. ASSUME NEW order, NEW ord_status, FillReport(order, ord_status)
        PROVE  gap'
    BY <2>1, <2>3 DEF FillReport
  <2>4. CASE UNCHANGED sessionVars
    BY <2>4 DEF sessionVars, exchange
  <2>5. DownloadReport => gap'
    BY <1>6 DEF DownloadReport
  <2>6. QED
    BY <1>8, <2>2, <2>3, <2>4, <2>5
       DEF ResponseStep, OrderCancelReject, Reject, OrderMassCancelReport
<1>9. CASE SessionStep
  <2>1. CASE \/ Connected \/ TimerTimeout \/ TimerTestDisconnect \/ TimerIdle
             \/ Heartbeat \/ ResendRequest \/ Logout
             \/ RejectClose \/ RejectFatal \/ ReportFatal \/ Terminated
             \/ BoundReached
    BY <1>2, <2>1 DEF Connected, TimerTimeout, TimerTestDisconnect, TimerIdle,
                      Heartbeat, ResendRequest, Logout, RejectClose, RejectFatal,
                      ReportFatal, Terminated, BoundReached, vars, sessionVars,
                      exchange
  <2>2. CASE TimerHeartbeat \/ TimerLogon \/ TestRequest
    BY <1>3, <2>2 DEF TimerHeartbeat, TimerLogon, TestRequest
  <2>3. CASE Logon
    BY <1>4, <2>3 DEF Logon
  <2>4. ASSUME NEW count, MassStatusReport(count)
        PROVE  gap'
    BY <1>5, <2>4 DEF MassStatusReport, update
  <2>5. QED
    BY <1>6, <1>9, <2>1, <2>2, <2>3, <2>4 DEF SessionStep
<1>10. QED
  BY <1>1, <1>2, <1>7, <1>8, <1>9 DEF Next, vars, sessionVars, exchange

(* A request that is no longer unanswered within its session has a         *)
(* response, unless it is a cancel whose report was dropped.               *)
Answered(r) == \E x \in responses : x.to = r /\ x.status # "FORWARDED"

LEMMA AnswersRespond ==
    ASSUME RequestsOK, MapCoversSession, NumbersInv, ResponseStep,
           NEW r \in unanswered, r \notin unanswered', r.kind # "CANCEL_ORDER"
    PROVE  Answered(r)'
<1>1. ASSUME NEW status, NEW matched_by, NEW name, status # "FORWARDED",
             Respond(status, matched_by, name, r)
      PROVE  Answered(r)'
  <2> DEFINE x == [status |-> status, matched_by |-> matched_by,
                   name |-> name, to |-> r]
  <2>1. x \in responses' /\ x.to = r /\ x.status # "FORWARDED"
    BY <1>1 DEF Respond
  <2>2. QED
    BY <2>1 DEF Answered
<1>2. ASSUME NEW q \in unanswered, unanswered' = unanswered \ {q}
      PROVE  q = r
  BY <1>2
<1>3. CASE AnswerReport(r)
  <2>1. \E exec_type \in {"ORDER_STATUS", "REJECTED"},
           ord_status \in {"NEW", "REJECTED"} :
              ExecutionReport(exec_type, ord_status, r.order, r)
    BY <1>3 DEF AnswerReport
  <2>2. QED
    BY <1>1, <2>1 DEF ExecutionReport, Dropped, compute_request_status
<1>4. CASE OrderCancelReject(r)
  BY <1>1, <1>4 DEF OrderCancelReject
<1>5. CASE Reject(r)
  <2>1. r \in sent /\ r.epoch = epoch
    BY DEF NumbersInv
  <2>2. r.seq \in DOMAIN msg_seq_num_to_request_id
    BY <1>5, <2>1 DEF Reject, MapCoversSession
  <2>3. QED
    BY <1>1, <1>5, <2>2 DEF Reject
<1>6. ASSUME NEW status \in {"ACCEPTED", "REJECTED"},
             OrderMassCancelReport(r, status)
      PROVE  Answered(r)'
  BY <1>1, <1>6 DEF OrderMassCancelReport
<1>7. ASSUME NEW q \in unanswered,
             \/ AnswerReport(q) \/ OrderCancelReject(q) \/ Reject(q)
             \/ \E status \in {"ACCEPTED", "REJECTED"} :
                   OrderMassCancelReport(q, status)
      PROVE  Answered(r)'
  <2>1. q = r
    BY <1>2, <1>7 DEF AnswerReport, OrderCancelReject, Reject,
                      OrderMassCancelReport
  <2>2. QED
    BY <1>3, <1>4, <1>5, <1>6, <1>7, <2>1
<1>8. ~DownloadReport
  BY DEF DownloadReport
<1>9. \A order, ord_status : ~FillReport(order, ord_status)
  BY DEF FillReport
<1>10. QED
  BY <1>7, <1>8, <1>9 DEF ResponseStep

(* Responses are never taken back. *)
LEMMA ResponsesGrow ==
    ASSUME [Next]_vars
    PROVE  responses \subseteq responses'
<1>1. CASE ResponseStep
  BY <1>1 DEF ResponseStep, AnswerReport, ExecutionReport, FillReport,
              DownloadReport, OrderCancelReject, Reject, OrderMassCancelReport,
              Respond
<1>2. CASE ClientStep
  BY <1>2 DEF ClientStep, CreateOrder, ModifyOrder, CancelOrder,
              CancelAllOrders, Respond
<1>3. CASE SessionStep
  BY <1>3 DEF SessionStep, Sends, BoundReached, vars, requestVars
<1>4. CASE SessionLost
  BY <1>4 DEF SessionLost
<1>5. QED
  BY <1>1, <1>2, <1>3, <1>4 DEF Next, vars, requestVars

(* A request that was sent and not delivered leaves a hole. *)
LEMMA SentOrHole ==
    ASSUME [Next]_vars, gap \in BOOLEAN,
           NEW r \in sent', r \notin sent
    PROVE  r \in unanswered' \/ gap'
<1>1. ClientStep
  BY DEF Next, SessionLost, SessionStep, Sends, BoundReached, ResponseStep,
         AnswerReport, FillReport, DownloadReport, OrderCancelReject, Reject,
         OrderMassCancelReport, vars, requestVars
<1>2. PICK kind, id, order : MakeRequest(kind, id, order)
  BY <1>1 DEF ClientStep, CreateOrder, CancelAllOrders, ModifyOrder, CancelOrder
<1>3. r = Numbered(kind, id, order)
  BY <1>2 DEF MakeRequest
<1>4. Delivered \/ gap'
  BY <1>2 DEF MakeRequest, Request, send, Delivered
<1>5. QED
  BY <1>2, <1>3, <1>4 DEF MakeRequest

(* An answer is awaited no longer only by being given, or with the session. *)
LEMMA UnansweredUntilAnswered ==
    ASSUME [Next]_vars
    PROVE  unanswered \subseteq unanswered' \/ ResponseStep \/ LosesSession
<1>1. CASE SessionLost
  BY <1>1 DEF SessionLost, LosesSession
<1>2. CASE SessionStep
  BY <1>2 DEF SessionStep, Sends, BoundReached, vars, requestVars
<1>3. CASE ClientStep
  <2>1. \E kind, id, order : MakeRequest(kind, id, order)
    BY <1>3 DEF ClientStep, CreateOrder, CancelAllOrders, ModifyOrder, CancelOrder
  <2>2. QED
    BY <2>1 DEF MakeRequest
<1>4. QED
  BY <1>1, <1>2, <1>3 DEF Next, vars, requestVars

-----------------------------------------------------------------------------
LEMMA ResponsesTyped ==
    ASSUME NumbersInv, RequestsOK, [Next]_vars
    PROVE  responses' \subseteq Responses
<1>1. /\ sent \subseteq Requests /\ unanswered \subseteq sent
      /\ working \subseteq RequestId /\ responses \subseteq Responses
      /\ outbound \in Nat /\ epoch \in Nat
  BY DEF RequestsOK
<1>2. ASSUME NEW status \in {"FORWARDED", "ACCEPTED", "REJECTED", "UNDEFINED"},
             NEW matched_by \in {"request_id", "client_order_id"},
             NEW name \in RequestId, NEW to \in Requests \cup {NoRequest},
             Respond(status, matched_by, name, to)
      PROVE  responses' \subseteq Responses
  BY <1>1, <1>2 DEF Respond, Responses
<1>3. ASSUME NEW exec_type, NEW ord_status
      PROVE  compute_request_status(exec_type, ord_status)
                \in {"FORWARDED", "ACCEPTED", "REJECTED", "UNDEFINED"}
  BY DEF compute_request_status
<1>4. ASSUME NEW exec_type, NEW ord_status, NEW order \in RequestId,
             NEW to \in Requests \cup {NoRequest},
             ExecutionReport(exec_type, ord_status, order, to)
      PROVE  responses' \subseteq Responses
  BY <1>1, <1>2, <1>3, <1>4 DEF ExecutionReport
<1>5. ASSUME NEW r \in unanswered
      PROVE  r \in Requests /\ r.id \in RequestId /\ r.order \in RequestId
  BY <1>1 DEF Requests
<1>6. CASE responses' = responses
  BY <1>1, <1>6
<1>7. ASSUME NEW r \in unanswered, AnswerReport(r)
      PROVE  responses' \subseteq Responses
  <2>1. \E exec_type, ord_status : ExecutionReport(exec_type, ord_status, r.order, r)
    BY <1>7 DEF AnswerReport
  <2>2. QED
    BY <1>4, <1>5, <2>1
<1>8. ASSUME NEW r \in unanswered, OrderCancelReject(r)
      PROVE  responses' \subseteq Responses
  BY <1>2, <1>5, <1>8 DEF OrderCancelReject
<1>9. ASSUME NEW r \in unanswered, Reject(r)
      PROVE  responses' \subseteq Responses
  BY <1>2, <1>5, <1>6, <1>9 DEF Reject, RequestsOK
<1>10. ASSUME NEW r \in unanswered, NEW status \in {"ACCEPTED", "REJECTED"},
              OrderMassCancelReport(r, status)
       PROVE  responses' \subseteq Responses
  BY <1>2, <1>5, <1>10 DEF OrderMassCancelReport
<1>11. ASSUME NEW order \in working, NEW ord_status,
              FillReport(order, ord_status)
       PROVE  responses' \subseteq Responses
  BY <1>1, <1>4, <1>11 DEF FillReport
<1>12. ASSUME DownloadReport
       PROVE  responses' \subseteq Responses
  BY <1>1, <1>2, <1>3, <1>6, <1>12 DEF DownloadReport
<1>13. ASSUME NEW id \in RequestId, CancelAllOrders(id)
       PROVE  responses' \subseteq Responses
  <2>1. Numbered("CANCEL_ALL_ORDERS", id, id) \in Requests
    BY <1>1, NumberedRequest DEF Kinds
  <2>2. QED
    BY <1>2, <1>13, <2>1 DEF CancelAllOrders
<1>14. CASE ResponseStep
  BY <1>14, <1>7, <1>8, <1>9, <1>10, <1>11, <1>12 DEF ResponseStep
<1>15. CASE ClientStep
  BY <1>15, <1>6, <1>13 DEF ClientStep, CreateOrder, ModifyOrder, CancelOrder
<1>16. CASE SessionStep
  BY <1>6, <1>16 DEF SessionStep, Sends, BoundReached, vars, requestVars
<1>17. CASE SessionLost
  BY <1>6, <1>17 DEF SessionLost
<1>18. CASE UNCHANGED vars
  BY <1>6, <1>18 DEF vars, requestVars
<1>19. QED
  BY <1>14, <1>15, <1>16, <1>17, <1>18 DEF Next

LEMMA RequestsOKStep ==
    ASSUME NumbersInv, NumbersInv', RequestsOK, [Next]_vars
    PROVE  RequestsOK'
<1>1. responses' \subseteq Responses
  BY ResponsesTyped
<1>2. /\ DOMAIN msg_seq_num_to_request_id' \subseteq Nat
      /\ msg_seq_num_to_request_id'
            \in [DOMAIN msg_seq_num_to_request_id' -> RequestId]
  <2>1. CASE UNCHANGED msg_seq_num_to_request_id
    BY <2>1 DEF RequestsOK
  <2>2. ASSUME NEW id \in RequestId, Remember(id)
        PROVE  /\ DOMAIN msg_seq_num_to_request_id' \subseteq Nat
               /\ msg_seq_num_to_request_id'
                     \in [DOMAIN msg_seq_num_to_request_id' -> RequestId]
    BY <2>2 DEF Remember, emplace, RequestsOK
  <2>3. QED
    BY <2>1, <2>2, StepKinds
       DEF NumbersInv, SendsNoRequest, SendsRequest, LosesSession
<1>3. working' \subseteq RequestId
  <2>1. \A r \in unanswered : r.order \in RequestId
    BY DEF RequestsOK, Requests
  <2>2. CASE UNCHANGED working
    BY <2>2 DEF RequestsOK
  <2>3. CASE ResponseStep
    BY <2>1, <2>3 DEF ResponseStep, AnswerReport, FillReport, DownloadReport,
                      OrderCancelReject, Reject, OrderMassCancelReport,
                      RequestsOK
  <2>4. CASE ClientStep
    BY <2>2, <2>4 DEF ClientStep, CreateOrder, ModifyOrder, CancelOrder,
                      CancelAllOrders, MakeRequest
  <2>5. CASE SessionStep
    BY <2>2, <2>5 DEF SessionStep, Sends, BoundReached, vars, requestVars
  <2>6. CASE SessionLost
    BY <2>6 DEF SessionLost, RequestsOK
  <2>7. QED
    BY <2>2, <2>3, <2>4, <2>5, <2>6 DEF Next, vars, requestVars
<1>4. QED
  BY <1>1, <1>2, <1>3 DEF RequestsOK, NumbersInv

(* The stream keeps its types: the numbers, the map, the requests and the  *)
(* responses, besides those of the session.                                *)
THEOREM OrderEntryTypeCorrect == Spec => []TypeOK
<1>1. Init => RequestsOK
  BY DEF Init, RequestsOK
<1>2. NumbersInv /\ NumbersInv' /\ RequestsOK /\ [Next]_vars => RequestsOK'
  BY RequestsOKStep
<1>3. Spec => []RequestsOK
  BY <1>1, <1>2, NumbersInvariant, PTL DEF Spec
<1>4. QED
  BY <1>3, OrderEntryImplementsSession, SessionTypeCorrect, PTL DEF TypeOK

(* No request of the present session disappears: it waits for its answer,  *)
(* was answered, or is lost with a hole in the numbers.                    *)
THEOREM RequestsAreAccountedFor == Spec => []RequestAccountedFor
<1>1. Init => RequestAccountedFor
  BY DEF Init, RequestAccountedFor
<1>2. ASSUME NumbersInv, MapCoversSession, TypeOK, RequestAccountedFor,
             [Next]_vars
      PROVE  RequestAccountedFor'
  <2>1. CASE LosesSession
    <3>1. \A r \in sent' : r.epoch # epoch'
      BY <1>2, <2>1 DEF LosesSession, NumbersInv, Requests
    <3>2. QED
      BY <3>1 DEF RequestAccountedFor
  <2>2. CASE ~LosesSession
    <3>1. epoch' = epoch
      BY <1>2, <2>2, StepKinds DEF NumbersInv, SendsNoRequest, SendsRequest
    <3>2. SUFFICES ASSUME NEW r \in sent', r.epoch = epoch,
                          r.kind # "CANCEL_ORDER"
                   PROVE  r \in unanswered' \/ gap' \/ Answered(r)'
      BY <3>1, <3>2 DEF RequestAccountedFor, Answered
    <3>3. CASE r \notin sent
      BY <1>2, <3>3, SentOrHole DEF TypeOK, SessionTypeOK, FlagsOK
    <3>4. CASE r \in sent
      <4>1. r \in unanswered \/ gap \/ Answered(r)
        BY <1>2, <3>2, <3>4 DEF RequestAccountedFor, Answered
      <4>2. gap => gap'
        BY <1>2, <2>2, HoleStays
      <4>3. Answered(r) => Answered(r)'
        BY <1>2, ResponsesGrow DEF Answered
      <4>4. ASSUME r \in unanswered, r \notin unanswered'
            PROVE  Answered(r)'
        <5>1. ResponseStep
          BY <1>2, <2>2, <4>4, UnansweredUntilAnswered
        <5>2. QED
          BY <1>2, <3>2, <4>4, <5>1, AnswersRespond DEF TypeOK
      <4>5. QED
        BY <4>1, <4>2, <4>3, <4>4
    <3>5. QED
      BY <3>3, <3>4
  <2>3. QED
    BY <2>1, <2>2
<1>3. QED
  BY <1>1, <1>2, NumbersInvariant, MapAnswersRejects, OrderEntryTypeCorrect,
     PTL DEF Spec

=============================================================================
