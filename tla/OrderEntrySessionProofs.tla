----------------------- MODULE OrderEntrySessionProofs -----------------------
(***************************************************************************)
(* The safety properties of OrderEntrySession, for every value of its      *)
(* constants.  One inductive invariant, SessionInv, carries the type       *)
(* invariant, ReadyAgrees and NothingSurvivesDisconnect: it says what each *)
(* stage of the exchange's session (none, open, ended) allows the gateway  *)
(* to be in.                                                               *)
(***************************************************************************)
EXTENDS OrderEntrySession, TLAPS

SessionStages ==
    /\ ValuesOK
    /\ NothingSurvivesDisconnect
    /\ conn = "down" => session = "none"
    /\ session = "none" =>
          /\ owed \subseteq {"LOGON"}
          /\ reports = 0
          /\ download_state = "UNDEFINED"
          /\ ~ready
          /\ connection_status \notin {"READY", "DOWNLOADING"}
    /\ test_logon_time # Unset => session = "none" /\ owed = {} /\ ~gap
    /\ session = "open" =>
          /\ "LOGON" \notin owed
          /\ download_state # "UNDEFINED"
          /\ ready <=> download_state = "DONE"
          /\ ready <=> connection_status = "READY"
    /\ session = "ended" => conn = "closing" /\ ~ready

SessionInv == FlagsOK /\ SessionStages

LEMMA SessionInvInit == SessionInit => SessionInv
<1>1. SessionInit => FlagsOK
  BY DEF SessionInit, FlagsOK
<1>2. SessionInit => SessionStages
  BY SessionAssumption
     DEF SessionInit, SessionStages, ValuesOK, NothingSurvivesDisconnect,
         Unset, Answers
<1>3. QED
  BY <1>1, <1>2 DEF SessionInv

(* What an age and a countdown may become. *)
LEMMA Clocks ==
    /\ \A age \in {Unset} \cup (0..(RequestTimeout + 1)) :
          /\ Older(age) \in {Unset} \cup (0..(RequestTimeout + 1))
          /\ age # Unset => Older(age) \in 0..(RequestTimeout + 1)
    /\ \A n \in Nat : \A left \in {Unset} \cup (0..n) :
          /\ Closer(left) \in {Unset} \cup (0..n)
          /\ left # Unset => Closer(left) \in 0..n
          /\ left = Unset => Closer(left) = Unset
  BY SessionAssumption DEF Older, Closer, Unset

(* core::Download2 keeps its state or enters the next one, which may add   *)
(* what the exchange owes.                                                 *)
Advances(n, o) ==
    /\ owed' \in SUBSET Answers
    /\ owed' \subseteq o \cup {"MASS_STATUS", "RESEND_REQUEST"}
    /\ \/ /\ download_state' = download_state
          /\ connection_status' = connection_status
          /\ ready' = ready
          /\ expected' = expected \/ (expected' = n /\ n > 0)
       \/ /\ download_state = "POSITIONS" /\ download_state' = "ORDERS"
          /\ connection_status' = "DOWNLOADING"
          /\ ready' = ready
          /\ expected' = 1
       \/ /\ download_state = "ORDERS" /\ download_state' = "DONE"
          /\ connection_status' = "READY"
          /\ ready' = TRUE
          /\ expected' = 0

LEMMA AwaitingEffect ==
    ASSUME NEW state \in {"POSITIONS", "ORDERS"},
           NEW o \in SUBSET Answers, NEW n \in Int,
           awaiting(state, n, o)
    PROVE  Advances(n, o)
<1>1. CASE state = "POSITIONS" /\ download(NextState(state), o)
                               /\ download_state = state
  BY <1>1 DEF Advances, download, NextState, send, Answers
<1>2. CASE state = "ORDERS" /\ download(NextState(state), o)
                            /\ download_state = state
  BY <1>2 DEF Advances, download, NextState
<1>3. CASE ~(download(NextState(state), o) /\ download_state = state)
  BY <1>3 DEF Advances, awaiting
<1>4. QED
  BY <1>1, <1>2, <1>3 DEF awaiting

(* The flags stay flags: each step copies them or sets them. *)
LEMMA FlagsStep == FlagsOK /\ [SessionNext]_sessionVars => FlagsOK'
  BY DEF FlagsOK, SessionNext, Timer, Terminated, Connected, Disconnected,
         ResetClocks, Elapse, TimerTimeout, TimerTestDisconnect, TimerHeartbeat,
         TimerLogon, TimerIdle, Heartbeat, Logon, Logout, ResendRequest,
         TestRequest, PositionReport, MassStatusReport, OrderReport,
         OtherReport, RejectClose, RejectFatal, ReportFatal, Request, send,
         download, awaiting, check_relaxed, update, sessionVars, gateway, exchange

LEMMA StagesStep ==
    SessionInv /\ [SessionNext]_sessionVars => SessionStages'
<1> SUFFICES ASSUME SessionInv, [SessionNext]_sessionVars
             PROVE  SessionStages'
  OBVIOUS
<1> USE SessionAssumption, Clocks
    DEF SessionInv, SessionStages, ValuesOK, NothingSurvivesDisconnect, Receiving,
        Answers, gateway, exchange, clocks
<1>1. CASE Connected
  BY <1>1 DEF Connected, Unset
<1>2. CASE Disconnected
  BY <1>2 DEF Disconnected, ResetClocks, Unset
<1>3. CASE TimerTimeout
  BY <1>3 DEF TimerTimeout, Elapse, Unset
<1>4. CASE TimerTestDisconnect
  BY <1>4 DEF TimerTestDisconnect, Elapse, Unset
<1>5. CASE TimerHeartbeat
  <2>1. /\ owed' \in SUBSET Answers
        /\ owed' \subseteq owed \cup {"HEARTBEAT", "RESEND_REQUEST"}
    BY <1>5 DEF TimerHeartbeat, send
  <2>2. QED
    BY <1>5, <2>1 DEF TimerHeartbeat, ProbeAge, Elapse, Unset
<1>6. CASE TimerLogon
  <2>1. /\ owed' \in SUBSET Answers
        /\ owed' \subseteq {"LOGON"}
    <3>1. owed = {} /\ ~gap
      BY <1>6 DEF TimerLogon, Unset
    <3>2. QED
      BY <1>6, <3>1 DEF TimerLogon, send
  <2>2. QED
    BY <1>6, <2>1 DEF TimerLogon, Elapse, Unset
<1>7. CASE TimerIdle
  BY <1>7 DEF TimerIdle, Elapse, Unset
<1>8. CASE Heartbeat
  BY <1>8 DEF Heartbeat, Unset
<1>9. CASE Logon
  <2>1. /\ owed' \in SUBSET Answers
        /\ owed' \subseteq {"POSITIONS", "RESEND_REQUEST"}
    BY <1>9 DEF Logon, download, send
  <2>2. QED
    BY <1>9, <2>1 DEF Logon, download, Unset
<1>10. CASE Logout
  BY <1>10 DEF Logout, Unset
<1>11. CASE ResendRequest
  BY <1>11 DEF ResendRequest, Unset
<1>12. CASE TestRequest
  <2>1. /\ owed' \in SUBSET Answers
        /\ owed' \subseteq owed \cup {"RESEND_REQUEST"}
    BY <1>12 DEF TestRequest, send
  <2>2. QED
    BY <1>12, <2>1 DEF TestRequest, Unset
<1>13. CASE PositionReport
  <2>1. awaiting("POSITIONS", expected - 1, owed \ {"POSITIONS"})
    BY <1>13 DEF PositionReport, check_relaxed
  <2>2. Advances(expected - 1, owed \ {"POSITIONS"})
    BY <2>1, AwaitingEffect
  <2>3. QED
    BY <1>13, <2>2 DEF PositionReport, Advances, Unset
<1>14. ASSUME NEW count \in 0..MaxReports, MassStatusReport(count)
       PROVE  SessionStages'
  <2>1. awaiting("ORDERS", count, owed \ {"MASS_STATUS"})
    BY <1>14 DEF MassStatusReport, update
  <2>2. Advances(count, owed \ {"MASS_STATUS"})
    BY <2>1, AwaitingEffect
  <2>3. QED
    BY <1>14, <2>2 DEF MassStatusReport, Advances, Unset
<1>15. CASE OrderReport
  <2>1. awaiting("ORDERS", expected - 1, owed)
    BY <1>15 DEF OrderReport, check_relaxed
  <2>2. Advances(expected - 1, owed)
    BY <2>1, AwaitingEffect
  <2>3. QED
    BY <1>15, <2>2 DEF OrderReport, Advances, Unset
<1>16. CASE OtherReport
  <2>1. awaiting("ORDERS", expected - 1, owed)
    BY <1>16 DEF OtherReport, check_relaxed
  <2>2. Advances(expected - 1, owed)
    BY <2>1, AwaitingEffect
  <2>3. QED
    BY <1>16, <2>2 DEF OtherReport, Advances, Unset
<1>17. CASE RejectClose
  BY <1>17 DEF RejectClose, Rejected, Unset
<1>18. CASE RejectFatal \/ ReportFatal
  <2>1. session # "ended" /\ conn # "down" /\ conn' = "terminated"
    BY <1>18 DEF RejectFatal, ReportFatal, Rejected
  <2>2. UNCHANGED <<gateway, exchange, silent>>
    BY <1>18 DEF RejectFatal, ReportFatal
  <2>3. QED
    BY <2>1, <2>2 DEF Unset
<1>19. CASE Request
  <2>1. /\ owed' \in SUBSET Answers
        /\ owed' \subseteq owed \cup {"RESEND_REQUEST"}
    BY <1>19 DEF Request, send
  <2>2. QED
    BY <1>19, <2>1 DEF Request, Unset
<1>20. CASE UNCHANGED sessionVars
  BY <1>20 DEF sessionVars, Unset
<1>21. QED
  BY <1>1, <1>2, <1>3, <1>4, <1>5, <1>6, <1>7, <1>8, <1>9, <1>10, <1>11,
     <1>12, <1>13, <1>14, <1>15, <1>16, <1>17, <1>18, <1>19, <1>20
     DEF SessionNext, Timer, Terminated

(* SessionInv is an invariant: the stage of the session determines what    *)
(* the gateway may believe about it.                                       *)
THEOREM SessionInvariant == SessionSpec => []SessionInv
<1>1. SessionInv /\ [SessionNext]_sessionVars => SessionInv'
  BY FlagsStep, StagesStep DEF SessionInv
<1>2. QED
  BY <1>1, SessionInvInit, PTL DEF SessionSpec

(* Type correctness of the session. *)
THEOREM SessionTypeCorrect == SessionSpec => []SessionTypeOK
<1>1. SessionInv => SessionTypeOK
  BY DEF SessionInv, SessionStages, SessionTypeOK
<1>2. QED
  BY <1>1, SessionInvariant, PTL

(* connection_status_, ready_ and the download state agree outside the     *)
(* window between close() and Disconnected.                                *)
THEOREM ReadyAgreesAlways == SessionSpec => []ReadyAgrees
<1>1. SessionInv => ReadyAgrees
  BY DEF SessionInv, SessionStages, ValuesOK, FlagsOK, ReadyAgrees, NothingSurvivesDisconnect
<1>2. QED
  BY <1>1, SessionInvariant, PTL

(* No state of a session is left over when the next one starts. *)
THEOREM SessionsAreIndependent == SessionSpec => []NothingSurvivesDisconnect
<1>1. SessionInv => NothingSurvivesDisconnect
  BY DEF SessionInv, SessionStages
<1>2. QED
  BY <1>1, SessionInvariant, PTL

-----------------------------------------------------------------------------
(* A probe is never older than the silence it measures, which is all that  *)
(* keeps a live connection from being closed.                              *)
THEOREM TimeoutsAreJustified == SessionSpec => []TimeoutOnlyAfterSilence
<1>1. SessionInit => TimeoutOnlyAfterSilence
  BY DEF SessionInit, TimeoutOnlyAfterSilence
<1>2. SessionInv /\ TimeoutOnlyAfterSilence /\ [SessionNext]_sessionVars
        => TimeoutOnlyAfterSilence'
  <2> SUFFICES ASSUME SessionInv, TimeoutOnlyAfterSilence,
                      [SessionNext]_sessionVars
               PROVE  TimeoutOnlyAfterSilence'
    OBVIOUS
  <2>1. /\ last_logon_or_heartbeat \in {Unset} \cup (0..(RequestTimeout + 1))
        /\ silent \in 0..(RequestTimeout + 1)
        /\ conn = "down" => last_logon_or_heartbeat = Unset
    BY DEF SessionInv, SessionStages, ValuesOK, NothingSurvivesDisconnect
  <2>2. CASE Timer
    <3>1. silent' = Older(silent)
      BY <2>2 DEF Timer, TimerTimeout, TimerTestDisconnect, TimerHeartbeat,
                  TimerLogon, TimerIdle, Elapse
    <3>2. last_logon_or_heartbeat' \in {0, Older(last_logon_or_heartbeat)}
      BY <2>2 DEF Timer, TimerTimeout, TimerTestDisconnect, TimerHeartbeat,
                  ProbeAge, TimerLogon, TimerIdle
    <3>3. QED
      BY <2>1, <3>1, <3>2, SessionAssumption
         DEF TimeoutOnlyAfterSilence, Older, Unset
  <2>3. CASE Connected
    BY <2>1, <2>3 DEF Connected, TimeoutOnlyAfterSilence
  <2>4. CASE \/ Disconnected \/ Heartbeat \/ Logon
    BY <2>4 DEF Disconnected, ResetClocks, Heartbeat, Logon, TimeoutOnlyAfterSilence
  <2>5. CASE UNCHANGED <<last_logon_or_heartbeat, silent>>
    BY <2>5 DEF TimeoutOnlyAfterSilence
  <2>6. QED
    BY <2>2, <2>3, <2>4, <2>5
       DEF SessionNext, Logout, ResendRequest, TestRequest, PositionReport,
           MassStatusReport, OrderReport, OtherReport, RejectClose,
           RejectFatal, ReportFatal, Request, Terminated, sessionVars, gateway
<1>3. QED
  BY <1>1, <1>2, SessionInvariant, PTL DEF SessionSpec

-----------------------------------------------------------------------------
(* What is outstanding in each state of the download, when no report but   *)
(* the announced ones arrives during it.                                   *)
DownloadInv ==
    /\ "POSITIONS" \in owed => download_state = "POSITIONS"
    /\ download_state = "POSITIONS" => expected = 1
    /\ "MASS_STATUS" \in owed =>
          download_state = "ORDERS" /\ expected = 1 /\ reports = 0
    /\ reports > 0 => download_state = "ORDERS" /\ expected = reports

LEMMA DownloadInvStep ==
    ASSUME ~UnsolicitedReports, SessionInv, DownloadInv,
           [SessionNext]_sessionVars
    PROVE  DownloadInv'
<1> USE SessionAssumption
    DEF SessionInv, SessionStages, ValuesOK, DownloadInv, Answers
<1>1. CASE Connected
  BY <1>1 DEF Connected, exchange
<1>2. CASE Disconnected
  BY <1>2 DEF Disconnected, ResetClocks
<1>3. CASE Timer
  BY <1>3 DEF Timer, TimerTimeout, TimerTestDisconnect, TimerHeartbeat,
              TimerLogon, TimerIdle, Elapse, send
<1>4. CASE Heartbeat
  BY <1>4 DEF Heartbeat
<1>5. CASE Logon
  BY <1>5 DEF Logon, Receiving, download, send
<1>6. CASE Logout
  BY <1>6 DEF Logout
<1>7. CASE ResendRequest
  BY <1>7 DEF ResendRequest, gateway
<1>8. CASE TestRequest
  BY <1>8 DEF TestRequest, send, gateway
<1>9. CASE PositionReport
  BY <1>9 DEF PositionReport, check_relaxed, awaiting, download, NextState,
              send
<1>10. ASSUME NEW count \in 0..MaxReports, MassStatusReport(count)
       PROVE  DownloadInv'
  BY <1>10 DEF MassStatusReport, update, awaiting, download, NextState
<1>11. CASE OrderReport
  BY <1>11 DEF OrderReport, check_relaxed, awaiting, download, NextState
<1>12. CASE OtherReport
  BY <1>12 DEF OtherReport, check_relaxed, awaiting
<1>13. CASE RejectClose \/ RejectFatal \/ ReportFatal
  BY <1>13 DEF RejectClose, RejectFatal, ReportFatal, gateway, exchange
<1>14. CASE Request
  BY <1>14 DEF Request, send, gateway
<1>15. CASE UNCHANGED sessionVars
  BY <1>15 DEF sessionVars, gateway, exchange
<1>16. QED
  BY <1>1, <1>2, <1>3, <1>4, <1>5, <1>6, <1>7, <1>8, <1>9, <1>10, <1>11,
     <1>12, <1>13, <1>14, <1>15
     DEF SessionNext, Terminated

(* If no execution report arrives unasked during the order download, READY *)
(* means that the whole download has arrived.                              *)
THEOREM DownloadsAreComplete ==
    ASSUME ~UnsolicitedReports
    PROVE  SessionSpec => []DownloadComplete
<1>1. SessionInit => DownloadInv
  BY DEF SessionInit, DownloadInv
<1>2. SessionInv /\ DownloadInv /\ [SessionNext]_sessionVars => DownloadInv'
  BY DownloadInvStep
<1>3. SessionInv /\ DownloadInv => DownloadComplete
  BY SessionAssumption
     DEF SessionInv, SessionStages, ValuesOK, NothingSurvivesDisconnect,
         DownloadInv, DownloadComplete
<1>4. QED
  BY <1>1, <1>2, <1>3, SessionInvariant, PTL DEF SessionSpec

-----------------------------------------------------------------------------
(* What the status says of a login, beyond SessionInv: needed to see that  *)
(* a logon is only sent, and only answered, in the states in which Stream  *)
(* allows it.                                                              *)
LoginInv ==
    /\ conn = "down" => connection_status \in {"UNDEFINED", "DISCONNECTED"}
    /\ test_logon_time # Unset =>
          connection_status \in {"UNDEFINED", "DISCONNECTED"}
    /\ "LOGON" \in owed => connection_status = "LOGIN_SENT"
    /\ session = "open" => connection_status \in {"DOWNLOADING", "READY"}

LEMMA LoginInvStep ==
    SessionInv /\ LoginInv /\ [SessionNext]_sessionVars => LoginInv'
<1> SUFFICES ASSUME SessionInv, LoginInv, [SessionNext]_sessionVars
             PROVE  LoginInv'
  OBVIOUS
<1> USE SessionAssumption, Clocks
    DEF SessionInv, SessionStages, ValuesOK, NothingSurvivesDisconnect, LoginInv,
        Receiving, Answers, gateway, exchange, clocks
<1>1. CASE Connected
  BY <1>1 DEF Connected, Unset
<1>2. CASE Disconnected
  BY <1>2 DEF Disconnected, ResetClocks, Unset
<1>3. CASE TimerTimeout \/ TimerTestDisconnect \/ TimerIdle
  BY <1>3 DEF TimerTimeout, TimerTestDisconnect, TimerIdle, Elapse, Unset
<1>4. CASE TimerHeartbeat
  BY <1>4 DEF TimerHeartbeat, Elapse, send, Unset
<1>5. CASE TimerLogon
  BY <1>5 DEF TimerLogon, Elapse, send, Unset
<1>6. CASE \/ Heartbeat \/ Logout \/ ResendRequest
           \/ RejectClose \/ RejectFatal \/ ReportFatal
  BY <1>6 DEF Heartbeat, Logout, ResendRequest, RejectClose, RejectFatal,
              ReportFatal, Rejected, Unset
<1>7. CASE Logon
  BY <1>7 DEF Logon, download, send, Unset
<1>8. CASE TestRequest \/ Request
  BY <1>8 DEF TestRequest, Request, send, Unset
<1>9. CASE PositionReport
  <2>1. Advances(expected - 1, owed \ {"POSITIONS"})
    BY <1>9, AwaitingEffect DEF PositionReport, check_relaxed
  <2>2. QED
    BY <1>9, <2>1 DEF PositionReport, Advances, Unset
<1>10. ASSUME NEW count \in 0..MaxReports, MassStatusReport(count)
       PROVE  LoginInv'
  <2>1. Advances(count, owed \ {"MASS_STATUS"})
    BY <1>10, AwaitingEffect DEF MassStatusReport, update
  <2>2. QED
    BY <1>10, <2>1 DEF MassStatusReport, Advances, Unset
<1>11. CASE OrderReport \/ OtherReport
  <2>1. Advances(expected - 1, owed)
    BY <1>11, AwaitingEffect DEF OrderReport, OtherReport, check_relaxed
  <2>2. QED
    BY <1>11, <2>1 DEF OrderReport, OtherReport, Advances, Unset
<1>12. CASE UNCHANGED sessionVars
  BY <1>12 DEF sessionVars
<1>13. QED
  BY <1>1, <1>2, <1>3, <1>4, <1>5, <1>6, <1>7, <1>8, <1>9, <1>10, <1>11, <1>12
     DEF SessionNext, Timer, Terminated

(* Every step of the session is a step of the abstract stream, or changes  *)
(* nothing that clients are shown.                                         *)
LEMMA StepIsStreamStep ==
    SessionInv /\ LoginInv /\ [SessionNext]_sessionVars =>
        [SessionStream!Next]_(SessionStream!vars)
<1> SUFFICES ASSUME SessionInv, LoginInv, [SessionNext]_sessionVars
             PROVE  SessionStream!Next \/ UNCHANGED SessionStream!vars
  OBVIOUS
<1> USE DEF SessionInv, SessionStages, ValuesOK, LoginInv, Receiving, gateway,
            exchange, SessionStream!vars
<1>1. CASE Connected
  <2>1. SessionStream!Connect
    BY <1>1 DEF Connected, SessionStream!Connect
  <2>2. QED
    BY <2>1 DEF SessionStream!Next
<1>2. CASE Disconnected
  <2>1. SessionStream!Disconnect
    BY <1>2 DEF Disconnected, SessionStream!Disconnect
  <2>2. QED
    BY <2>1 DEF SessionStream!Next
<1>3. CASE TimerLogon
  <2>1. SessionStream!LogIn
    BY <1>3 DEF TimerLogon, Elapse, SessionStream!LogIn, Unset
  <2>2. QED
    BY <2>1 DEF SessionStream!Next
<1>4. CASE Logon
  <2>1. SessionStream!Answered
    BY <1>4 DEF Logon, download, SessionStream!Answered
  <2>2. QED
    BY <2>1 DEF SessionStream!Next
<1>5. CASE Logout
  <2>1. SessionStream!LogOut
    BY <1>5 DEF Logout, SessionStream!LogOut
  <2>2. QED
    BY <2>1 DEF SessionStream!Next
<1>6. CASE TimerTimeout \/ TimerTestDisconnect \/ TimerIdle \/ TimerHeartbeat
  BY <1>6 DEF TimerTimeout, TimerTestDisconnect, TimerIdle, TimerHeartbeat, Elapse
<1>7. CASE \/ Heartbeat \/ ResendRequest \/ TestRequest \/ RejectClose
           \/ RejectFatal \/ ReportFatal \/ Request
  BY <1>7 DEF Heartbeat, ResendRequest, TestRequest, RejectClose, RejectFatal,
              ReportFatal, Rejected, Request
<1>8. ASSUME NEW n, NEW o, Advances(n, o), conn' = conn, session' = session,
             Receiving, session = "open"
      PROVE  SessionStream!Next \/ UNCHANGED SessionStream!vars
  <2>1. CASE connection_status' = connection_status
    BY <1>8, <2>1
  <2>2. CASE connection_status' # connection_status
    <3>1. SessionStream!Advance
      BY <1>8, <2>2 DEF Advances, SessionStream!Advance
    <3>2. QED
      BY <3>1 DEF SessionStream!Next
  <2>3. QED
    BY <2>1, <2>2
<1>9. CASE PositionReport
  BY <1>8, <1>9, AwaitingEffect DEF PositionReport, check_relaxed, Answers
<1>10. ASSUME NEW count \in 0..MaxReports, MassStatusReport(count)
       PROVE  SessionStream!Next \/ UNCHANGED SessionStream!vars
  BY <1>8, <1>10, AwaitingEffect DEF MassStatusReport, update, Answers
<1>11. CASE OrderReport \/ OtherReport
  BY <1>8, <1>11, AwaitingEffect DEF OrderReport, OtherReport, check_relaxed, Answers
<1>12. CASE UNCHANGED sessionVars
  BY <1>12 DEF sessionVars
<1>13. QED
  BY <1>1, <1>2, <1>3, <1>4, <1>5, <1>6, <1>7, <1>9, <1>10, <1>11, <1>12
     DEF SessionNext, Timer, Terminated

(* The order entry session implements the abstract stream: the status its  *)
(* clients are shown is READY only after the exchange answered a logon of  *)
(* the present connection, and leaves READY only by way of a disconnect.   *)
THEOREM SessionImplementsStream == SessionSpec => SessionIsStream
<1>1. SessionInit => LoginInv /\ SessionStream!Init
  BY DEF SessionInit, LoginInv, SessionStream!Init, Unset
<1>2. SessionInv /\ LoginInv /\ [SessionNext]_sessionVars => LoginInv'
  BY LoginInvStep
<1>3. QED
  BY <1>1, <1>2, StepIsStreamStep, SessionInvariant, PTL
     DEF SessionSpec, SessionIsStream, SessionStream!Spec

=============================================================================
