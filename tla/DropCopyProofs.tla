--------------------------- MODULE DropCopyProofs ---------------------------
(***************************************************************************)
(* DropCopy for every set of currencies and trades: what is asked for per  *)
(* currency, that nothing is sent twice, and that the stream shows its     *)
(* clients what Stream promises.                                           *)
(***************************************************************************)
EXTENDS DropCopy, FiniteSetTheorems, SequenceTheorems, TLAPS

(* CurrenciesAskedOnce says nothing of the login; that a login is answered *)
(* once per session, before which the stream is not ready, makes it        *)
(* inductive.                                                              *)
AskedInv ==
    /\ dc_ready \in BOOLEAN /\ can_download \in BOOLEAN
    /\ currencies \subseteq Currency
    /\ dc_ready => dc_session = "open"
    /\ dc_asked \in [PerCurrency -> [Currency -> Nat]]
    /\ CurrenciesAskedOnce

(* Asking for a set of currencies adds one to each of them. *)
LEMMA AskedAlsoCounts ==
    ASSUME dc_asked \in [PerCurrency -> [Currency -> Nat]],
           NEW S
    PROVE  /\ AskedAlso(S) \in [PerCurrency -> [Currency -> Nat]]
           /\ \A type \in PerCurrency, c \in Currency :
                 AskedAlso(S)[type][c] =
                     IF c \in S THEN dc_asked[type][c] + 1 ELSE dc_asked[type][c]
<1>1. \A type \in PerCurrency, c \in Currency :
          (IF c \in S THEN dc_asked[type][c] + 1 ELSE dc_asked[type][c]) \in Nat
  OBVIOUS
<1>2. QED
  BY <1>1 DEF AskedAlso

LEMMA AskedInvInit == DropCopyInit => AskedInv
<1>1. /\ NothingAsked \in [PerCurrency -> [Currency -> Nat]]
      /\ \A type \in PerCurrency, c \in Currency : NothingAsked[type][c] = 0
  BY DEF NothingAsked
<1>2. SUFFICES ASSUME DropCopyInit
               PROVE  AskedInv
  OBVIOUS
<1>3. dc_ready = FALSE /\ can_download = FALSE /\ currencies = {}
  BY <1>2 DEF DropCopyInit
<1>4. dc_asked = NothingAsked
  BY <1>2 DEF DropCopyInit
<1>5. CurrenciesAskedOnce
  BY <1>1, <1>3, <1>4 DEF CurrenciesAskedOnce
<1>6. QED
  BY <1>1, <1>3, <1>4, <1>5 DEF AskedInv

LEMMA AskedInvStep == AskedInv /\ [DropCopyNext]_dcVars => AskedInv'
<1> SUFFICES ASSUME AskedInv, [DropCopyNext]_dcVars
             PROVE  AskedInv'
  OBVIOUS
<1> USE DEF AskedInv
<1>1. CASE UNCHANGED <<dc_ready, can_download, currencies, dc_session, dc_asked>>
  BY <1>1 DEF CurrenciesAskedOnce
<1>2. CASE DropCopyDisconnected
  BY <1>2 DEF DropCopyDisconnected, CurrenciesAskedOnce, NothingAsked
<1>3. CASE Auth
  <2> DEFINE S == IF can_download THEN currencies ELSE {}
  <2>1. /\ dc_session = "none" /\ dc_session' = "open"
        /\ dc_ready' = TRUE
        /\ dc_asked' = AskedAlso(S)
        /\ UNCHANGED <<can_download, currencies>>
    BY <1>3 DEF Auth, emplace_back
  <2>2. ~dc_ready
    BY <2>1
  <2>3. \A type \in PerCurrency, c \in Currency :
            dc_asked'[type][c] = IF c \in S THEN 1 ELSE 0
    BY <2>1, <2>2, AskedAlsoCounts DEF CurrenciesAskedOnce
  <2>4. QED
    BY <2>1, <2>3, AskedAlsoCounts DEF CurrenciesAskedOnce
<1>4. ASSUME NEW new \in SUBSET (Currency \ currencies), CurrenciesUpdate(new)
      PROVE  AskedInv'
  <2>1. /\ currencies' = currencies \cup new
        /\ dc_asked' = AskedAlso(UpdateNow(new))
        /\ UNCHANGED <<dc_ready, can_download, dc_session>>
    BY <1>4 DEF CurrenciesUpdate, emplace_back
  <2>2. CASE dc_ready /\ can_download
    BY <1>4, <2>1, <2>2, AskedAlsoCounts DEF CurrenciesAskedOnce, UpdateNow
  <2>3. CASE ~(dc_ready /\ can_download)
    BY <1>4, <2>1, <2>3, AskedAlsoCounts DEF CurrenciesAskedOnce, UpdateNow
  <2>4. QED
    BY <2>2, <2>3
<1>5. CASE Latch
  <2>1. can_download' = TRUE /\ UNCHANGED <<dc_ready, currencies, dc_session>>
    BY <1>5 DEF Latch
  <2>2. CASE LatchQueues
    <3>1. dc_asked' = AskedAlso(currencies) /\ dc_ready /\ ~can_download
      BY <1>5, <2>2 DEF Latch, LatchQueues, emplace_back
    <3>2. QED
      BY <2>1, <3>1, AskedAlsoCounts DEF CurrenciesAskedOnce
  <2>3. CASE ~LatchQueues
    <3>1. dc_asked' = dc_asked /\ ~(dc_ready /\ ~can_download)
      BY <1>5, <2>3 DEF Latch, LatchQueues
    <3>2. QED
      BY <2>1, <3>1 DEF CurrenciesAskedOnce
  <2>4. QED
    BY <2>2, <2>3
<1>6. CASE DropCopyReady \/ AuthError \/ DropCopyTerminated
  BY <1>1, <1>6 DEF DropCopyReady, AuthError, DropCopyTerminated, dcVars
<1>7. ASSUME NEW n \in 1..Len(dc_queue), DropCopyTimer(n)
      PROVE  AskedInv'
  BY <1>1, <1>7 DEF DropCopyTimer
<1>8. ASSUME NEW t \in Traded, UserChanges(t) \/ UserTrades(t) \/ ExchangeTrade(t)
      PROVE  AskedInv'
  BY <1>1, <1>8 DEF UserChanges, UserTrades, ExchangeTrade
<1>9. ASSUME NEW trades \in acks, GetUserTradesByCurrencyAck(trades)
      PROVE  AskedInv'
  BY <1>1, <1>9 DEF GetUserTradesByCurrencyAck
<1>10. CASE UNCHANGED dcVars
  BY <1>1, <1>10 DEF dcVars
<1>11. QED
  BY <1>2, <1>3, <1>4, <1>5, <1>6, <1>7, <1>8, <1>9, <1>10
     DEF DropCopyNext, DropCopyStep

(* In every session each request for each currency is queued exactly once, *)
(* whatever the order of login, latch, new currencies and reconnects.      *)
THEOREM CurrenciesAreAskedOnce == DropCopySpec => []CurrenciesAskedOnce
<1>1. AskedInv => CurrenciesAskedOnce
  BY DEF AskedInv
<1>2. QED
  BY <1>1, AskedInvInit, AskedInvStep, PTL DEF DropCopySpec

-----------------------------------------------------------------------------
LEMMA StepIsStreamStep ==
    [DropCopyNext]_dcVars => [DropCopyStream!Next]_(DropCopyStream!vars)
<1> SUFFICES ASSUME [DropCopyNext]_dcVars
             PROVE  DropCopyStream!Next \/ UNCHANGED DropCopyStream!vars
  OBVIOUS
<1> USE DEF DropCopyStream!vars
<1>1. CASE UNCHANGED <<dc_conn, dc_status, dc_session>>
  BY <1>1
<1>2. CASE DropCopyReady
  <2>1. DropCopyStream!Connect
    BY <1>2 DEF DropCopyReady, DropCopyLoginSent, DropCopyStream!Connect
  <2>2. QED
    BY <2>1 DEF DropCopyStream!Next
<1>3. CASE DropCopyDisconnected
  <2>1. DropCopyStream!Disconnect
    BY <1>3 DEF DropCopyDisconnected, DropCopyStream!Disconnect
  <2>2. QED
    BY <2>1 DEF DropCopyStream!Next
<1>4. CASE Auth
  <2>1. DropCopyStream!Answered
    BY <1>4 DEF Auth, DropCopyReceiving, DropCopyStream!Answered
  <2>2. QED
    BY <2>1 DEF DropCopyStream!Next
<1>5. CASE AuthError
  BY <1>5 DEF AuthError, DropCopyReceiving
<1>6. ASSUME NEW n \in 1..Len(dc_queue), DropCopyTimer(n)
      PROVE  DropCopyStream!Next \/ UNCHANGED DropCopyStream!vars
  BY <1>1, <1>6 DEF DropCopyTimer
<1>7. ASSUME NEW t \in Traded, UserChanges(t) \/ UserTrades(t) \/ ExchangeTrade(t)
      PROVE  DropCopyStream!Next \/ UNCHANGED DropCopyStream!vars
  BY <1>1, <1>7 DEF UserChanges, UserTrades, ExchangeTrade
<1>8. ASSUME NEW trades \in acks, GetUserTradesByCurrencyAck(trades)
      PROVE  DropCopyStream!Next \/ UNCHANGED DropCopyStream!vars
  BY <1>1, <1>8 DEF GetUserTradesByCurrencyAck
<1>9. ASSUME NEW new, CurrenciesUpdate(new)
      PROVE  DropCopyStream!Next \/ UNCHANGED DropCopyStream!vars
  BY <1>1, <1>9 DEF CurrenciesUpdate
<1>10. CASE Latch \/ DropCopyTerminated \/ UNCHANGED dcVars
  BY <1>1, <1>10 DEF Latch, DropCopyTerminated, dcVars
<1>11. QED
  BY <1>2, <1>3, <1>4, <1>5, <1>6, <1>7, <1>8, <1>9, <1>10
     DEF DropCopyNext, DropCopyStep

(* The drop copy implements the abstract stream: READY only after the      *)
(* login of the present connection was answered.                           *)
THEOREM DropCopyImplementsStream == DropCopySpec => DropCopyIsStream
<1>1. DropCopyInit => DropCopyStream!Init
  BY DEF DropCopyInit, DropCopyStream!Init
<1>2. QED
  BY <1>1, StepIsStreamStep, PTL
     DEF DropCopySpec, DropCopyIsStream, DropCopyStream!Spec

-----------------------------------------------------------------------------
(* The queue *)

(* Two requests of which only one may be in the queue *)
Clash(a, b) ==
    \/ a = b
    \/ a.type \in AccountChannel /\ a.type = b.type
    \/ /\ a.type = "USER_PORTFOLIO" /\ b.type = "USER_PORTFOLIO"
       /\ a.of \cap b.of # {}

NoClash(seq) ==
    \A i, j \in 1..Len(seq) : i # j => ~Clash(seq[i], seq[j])

(* Requests of the types T, for the currencies S *)
Batch(seq, T, S) ==
    /\ seq \in Seq(DropCopyRequest)
    /\ \A i \in 1..Len(seq) : seq[i].type \in T /\ seq[i].of \subseteq S
    /\ NoClash(seq)

(* Only what NothingSentTwice says of the queue would not do: two requests *)
(* that overlap may both wait, and the second break it when the first is   *)
(* sent.  What is queued is tied to what the stream has been told: the     *)
(* requests per currency to the latch and the currencies known, everything *)
(* to the login.                                                           *)
QueueInv ==
    /\ dc_queue \in Seq(DropCopyRequest)
    /\ dc_ready \in BOOLEAN /\ can_download \in BOOLEAN
    /\ currencies \subseteq Currency
    /\ dc_ready => dc_session = "open"
    /\ ~dc_ready => dc_queue = <<>> /\ channels = {} /\ portfolios = {}
    /\ channels \subseteq AccountChannel
    /\ portfolios \subseteq IF can_download THEN currencies ELSE {}
    /\ NoClash(dc_queue)
    /\ \A i \in 1..Len(dc_queue) :
          /\ dc_queue[i].type \notin channels
          /\ dc_queue[i].of \subseteq currencies
          /\ dc_queue[i].type \in PerCurrency => can_download
          /\ dc_queue[i].type = "USER_PORTFOLIO" =>
                dc_queue[i].of \cap portfolios = {}

(* SetToSeq lists a set, each element once. *)
LEMMA SetToSeqLists ==
    ASSUME NEW S, IsFiniteSet(S)
    PROVE  /\ Cardinality(S) \in Nat
           /\ SetToSeq(S) \in [1..Cardinality(S) -> S]
           /\ IsInjective(SetToSeq(S))
<1>1. Cardinality(S) \in Nat /\ ExistsBijection(1..Cardinality(S), S)
  BY FS_CardinalityType
<1>2. PICK f \in Bijection(1..Cardinality(S), S) : TRUE
  BY <1>1 DEF ExistsBijection
<1>3. f \in [1..Cardinality(S) -> S] /\ IsInjective(f)
  BY <1>2 DEF Bijection, Injection
<1>4. QED
  BY <1>1, <1>3 DEF SetToSeq

(* Batches of different types do not clash. *)
LEMMA BatchConcat ==
    ASSUME NEW s, NEW t, NEW A, NEW B, NEW S,
           Batch(s, A, S), Batch(t, B, S), A \cap B = {}
    PROVE  Batch(s \o t, A \cup B, S)
<1>1. PICK m \in Nat, n \in Nat : m = Len(s) /\ n = Len(t)
  BY DEF Batch
<1>2. /\ s \o t \in Seq(DropCopyRequest)
      /\ Len(s \o t) = m + n
      /\ \A i \in 1..m : (s \o t)[i] = s[i]
      /\ \A i \in (m + 1)..(m + n) : (s \o t)[i] = t[i - m] /\ i - m \in 1..n
  BY <1>1, ConcatProperties DEF Batch
<1>3. ASSUME NEW i \in 1..(m + n)
      PROVE  /\ (s \o t)[i].type \in A \cup B
             /\ (s \o t)[i].of \subseteq S
  <2>1. CASE i \in 1..m
    BY <1>1, <1>2, <2>1 DEF Batch
  <2>2. CASE i \in (m + 1)..(m + n)
    BY <1>1, <1>2, <2>2 DEF Batch
  <2>3. QED
    BY <1>1, <2>1, <2>2
<1>4. ASSUME NEW i \in 1..(m + n), NEW j \in 1..(m + n), i # j
      PROVE  ~Clash((s \o t)[i], (s \o t)[j])
  <2>1. CASE i \in 1..m /\ j \in 1..m
    BY <1>1, <1>2, <1>4, <2>1 DEF Batch, NoClash
  <2>2. CASE i \in (m + 1)..(m + n) /\ j \in (m + 1)..(m + n)
    <3>1. /\ (s \o t)[i] = t[i - m] /\ i - m \in 1..n
          /\ (s \o t)[j] = t[j - m] /\ j - m \in 1..n
          /\ i - m # j - m
      BY <1>2, <1>4, <2>2
    <3>2. QED
      BY <1>1, <3>1 DEF Batch, NoClash
  <2>3. CASE i \in 1..m /\ j \in (m + 1)..(m + n)
    <3>1. (s \o t)[i].type \in A /\ (s \o t)[j].type \in B
      BY <1>1, <1>2, <2>3 DEF Batch
    <3>2. QED
      BY <3>1 DEF Clash
  <2>4. CASE i \in (m + 1)..(m + n) /\ j \in 1..m
    <3>1. (s \o t)[i].type \in B /\ (s \o t)[j].type \in A
      BY <1>1, <1>2, <2>4 DEF Batch
    <3>2. QED
      BY <3>1 DEF Clash
  <2>5. QED
    BY <1>1, <2>1, <2>2, <2>3, <2>4
<1>5. QED
  BY <1>2, <1>3, <1>4 DEF Batch, NoClash

LEMMA OneRequest ==
    ASSUME NEW type \in PerCurrency \cup AccountChannel, NEW S \in SUBSET Currency,
           NEW of \in SUBSET S
    PROVE  Batch(<< [type |-> type, of |-> of] >>, {type}, S)
  BY DEF Batch, NoClash, DropCopyRequest

LEMMA EachIsBatch ==
    ASSUME NEW type \in {"ACCOUNT_SUMMARY", "USER_TRADES_BY_CURRENCY"},
           NEW S \in SUBSET Currency
    PROVE  /\ Batch(each(type, S), {type}, S)
           /\ \A i \in 1..Len(each(type, S)) : each(type, S)[i].of # {}
<1>1. IsFiniteSet(S)
  BY DropCopyAssumption, FS_Subset
<1>2. PICK n \in Nat : n = Cardinality(S)
  BY <1>1, SetToSeqLists
<1>3. PICK order \in [1..n -> S] : order = SetToSeq(S) /\ IsInjective(order)
  BY <1>1, <1>2, SetToSeqLists
<1>4. each(type, S) = [i \in 1..n |-> [type |-> type, of |-> {order[i]}]]
  BY <1>2, <1>3 DEF each
<1>5. \A i \in 1..n : [type |-> type, of |-> {order[i]}] \in DropCopyRequest
  BY DEF DropCopyRequest, PerCurrency
<1>6. /\ each(type, S) \in Seq(DropCopyRequest)
      /\ Len(each(type, S)) = n
      /\ \A i \in 1..n :
            /\ each(type, S)[i] = [type |-> type, of |-> {order[i]}]
            /\ order[i] \in S
  BY <1>4, <1>5
<1>7. \A i, j \in 1..n : order[i] = order[j] => i = j
  BY <1>3 DEF IsInjective
<1>8. ASSUME NEW i \in 1..n, NEW j \in 1..n, i # j
      PROVE  ~Clash(each(type, S)[i], each(type, S)[j])
  <2>1. order[i] # order[j]
    BY <1>7, <1>8
  <2>2. /\ each(type, S)[i].of = {order[i]} /\ each(type, S)[j].of = {order[j]}
        /\ each(type, S)[i].type = type
    BY <1>6
  <2>3. /\ each(type, S)[i] # each(type, S)[j]
        /\ each(type, S)[i].type \notin AccountChannel \cup {"USER_PORTFOLIO"}
    BY <2>1, <2>2 DEF AccountChannel
  <2>4. QED
    BY <2>3 DEF Clash
<1>9. NoClash(each(type, S))
  BY <1>6, <1>8 DEF NoClash
<1>10. ASSUME NEW i \in 1..n
       PROVE  /\ each(type, S)[i].type \in {type}
              /\ each(type, S)[i].of \subseteq S
              /\ each(type, S)[i].of # {}
  <2>1. each(type, S)[i].type = type /\ each(type, S)[i].of = {order[i]}
    BY <1>6
  <2>2. QED
    BY <1>6, <2>1
<1>11. QED
  BY <1>6, <1>9, <1>10 DEF Batch

(* What is queued for the currencies S *)
LEMMA PerCurrencyIsBatch ==
    ASSUME NEW S \in SUBSET Currency
    PROVE  /\ Batch(per_currency(S), PerCurrency, S)
           /\ S # {} => \A i \in 1..Len(per_currency(S)) :
                            per_currency(S)[i].of # {}
<1>1. PICK a, b, c : /\ a = subscribe_user_portfolio(S)
                     /\ b = get_account_summary(S)
                     /\ c = get_user_trades_by_currency(S)
  OBVIOUS
<1>2. Batch(a, {"USER_PORTFOLIO"}, S) /\ Len(a) = 1 /\ a[1].of = S
  BY <1>1, OneRequest DEF subscribe_user_portfolio, PerCurrency
<1>3. /\ Batch(b, {"ACCOUNT_SUMMARY"}, S)
      /\ \A i \in 1..Len(b) : b[i].of # {}
  BY <1>1, EachIsBatch DEF get_account_summary
<1>4. /\ Batch(c, {"USER_TRADES_BY_CURRENCY"}, S)
      /\ \A i \in 1..Len(c) : c[i].of # {}
  BY <1>1, EachIsBatch DEF get_user_trades_by_currency
<1>5. Batch(a \o b, {"USER_PORTFOLIO"} \cup {"ACCOUNT_SUMMARY"}, S)
  BY <1>2, <1>3, BatchConcat
<1>6. Batch((a \o b) \o c, ({"USER_PORTFOLIO"} \cup {"ACCOUNT_SUMMARY"})
                               \cup {"USER_TRADES_BY_CURRENCY"}, S)
  <2>1. ({"USER_PORTFOLIO"} \cup {"ACCOUNT_SUMMARY"})
            \cap {"USER_TRADES_BY_CURRENCY"} = {}
    OBVIOUS
  <2>2. QED
    BY <1>4, <1>5, <2>1, BatchConcat
<1>7. PerCurrency = ({"USER_PORTFOLIO"} \cup {"ACCOUNT_SUMMARY"})
                        \cup {"USER_TRADES_BY_CURRENCY"}
  BY DEF PerCurrency
<1>8. per_currency(S) = (a \o b) \o c
  BY <1>1 DEF per_currency
<1>9. ASSUME S # {}, NEW i \in 1..Len((a \o b) \o c)
      PROVE  ((a \o b) \o c)[i].of # {}
  <2>1. /\ a \in Seq(DropCopyRequest)
        /\ b \in Seq(DropCopyRequest)
        /\ c \in Seq(DropCopyRequest)
        /\ a \o b \in Seq(DropCopyRequest)
    BY <1>2, <1>3, <1>4, <1>5 DEF Batch
  <2>2. CASE i \in 1..Len(a \o b)
    <3>1. ((a \o b) \o c)[i] = (a \o b)[i]
      BY <2>1, <2>2, ConcatProperties
    <3>2. (a \o b)[i] = IF i <= Len(a) THEN a[i] ELSE b[i - Len(a)]
      BY <2>1, <2>2, ConcatProperties
    <3>3. Len(a \o b) = Len(a) + Len(b) /\ Len(b) \in Nat
      BY <2>1, ConcatProperties
    <3>4. i = 1 \/ (i - 1 \in 1..Len(b) /\ ~(i <= 1))
      BY <1>2, <2>2, <3>3
    <3>5. QED
      BY <1>2, <1>3, <1>9, <3>1, <3>2, <3>4
  <2>3. CASE i \notin 1..Len(a \o b)
    <3>1. Len((a \o b) \o c) = Len(a \o b) + Len(c)
      BY <2>1, ConcatProperties
    <3>2. Len(a \o b) \in Nat /\ Len(c) \in Nat
      BY <2>1
    <3>3. ((a \o b) \o c)[i] = c[i - Len(a \o b)]
      BY <2>1, <2>3, <3>1, <3>2, ConcatProperties
    <3>4. i - Len(a \o b) \in 1..Len(c)
      BY <2>3, <3>1, <3>2
    <3>5. QED
      BY <1>4, <3>3, <3>4
  <2>4. QED
    BY <2>2, <2>3
<1>10. QED
  BY <1>6, <1>7, <1>8, <1>9

(* What is queued at the login: the channels of the account and, if the    *)
(* stream was latched, what is asked for per currency.                     *)
LEMMA LoginIsBatch ==
    ASSUME NEW S \in SUBSET Currency, NEW a, NEW e, NEW f,
           NEW P \in SUBSET {"USER_PORTFOLIO"},
           NEW Q \in SUBSET {"ACCOUNT_SUMMARY"},
           NEW R \in SUBSET {"USER_TRADES_BY_CURRENCY"},
           Batch(a, P, S), Batch(e, Q, S), Batch(f, R, S)
    PROVE  Batch(a \o subscribe_channel("USER_CHANGES")
                   \o subscribe_channel("USER_ORDERS")
                   \o subscribe_channel("USER_TRADES") \o e \o f,
                 AccountChannel \cup P \cup Q \cup R, S)
<1>1. ASSUME NEW type \in AccountChannel
      PROVE  Batch(subscribe_channel(type), {type}, S)
  BY OneRequest DEF subscribe_channel
<1>2. PICK b, c, d :
          /\ b = subscribe_channel("USER_CHANGES")
          /\ c = subscribe_channel("USER_ORDERS")
          /\ d = subscribe_channel("USER_TRADES")
  OBVIOUS
<1>3. /\ Batch(b, {"USER_CHANGES"}, S) /\ Batch(c, {"USER_ORDERS"}, S)
      /\ Batch(d, {"USER_TRADES"}, S)
  BY <1>1, <1>2 DEF AccountChannel
<1> DEFINE ab    == a \o b
           abc   == ab \o c
           abcd  == abc \o d
           abcde == abcd \o e
           A     == P \cup {"USER_CHANGES"}
           B     == A \cup {"USER_ORDERS"}
           C     == B \cup {"USER_TRADES"}
           D     == C \cup Q
           E     == D \cup R
<1>4. /\ P \cap {"USER_CHANGES"} = {}
      /\ A \cap {"USER_ORDERS"} = {} /\ B \cap {"USER_TRADES"} = {}
      /\ C \cap Q = {} /\ D \cap R = {}
      /\ E = AccountChannel \cup P \cup Q \cup R
  BY DEF AccountChannel
<1>5. Batch(ab, A, S)
  BY <1>3, <1>4, BatchConcat
<1> HIDE DEF ab, A
<1>6. Batch(abc, B, S)
  BY <1>3, <1>4, <1>5, BatchConcat
<1> HIDE DEF abc, B
<1>7. Batch(abcd, C, S)
  BY <1>3, <1>4, <1>6, BatchConcat
<1> HIDE DEF abcd, C
<1>8. Batch(abcde, D, S)
  BY <1>4, <1>7, BatchConcat
<1> HIDE DEF abcde, D
<1>9. Batch(abcde \o f, E, S)
  BY <1>4, <1>8, BatchConcat
<1>10. QED
  BY <1>2, <1>4, <1>9 DEF ab, abc, abcd, abcde

(* For no currency nothing is asked. *)
LEMMA EachOfNone == ASSUME NEW type PROVE each(type, {}) = <<>>
<1>1. Cardinality({}) = 0
  BY FS_EmptySet
<1>2. QED
  BY <1>1 DEF each

(* Requests that clash with none in the queue, nor with what was sent, may *)
(* be added to it.                                                         *)
LEMMA MoreQueued ==
    ASSUME QueueInv, NEW requests, NEW T, NEW S,
           Batch(requests, T, S),
           dc_queue' = dc_queue \o requests,
           dc_ready', dc_session' = "open", can_download' \in BOOLEAN,
           can_download => can_download',
           currencies \subseteq currencies', currencies' \subseteq Currency,
           S \subseteq currencies',
           UNCHANGED <<channels, portfolios>>,
           T \cap channels = {},
           T \cap PerCurrency # {} => can_download',
           \A j \in 1..Len(requests) :
               /\ \A i \in 1..Len(dc_queue) : ~Clash(dc_queue[i], requests[j])
               /\ requests[j].type = "USER_PORTFOLIO" =>
                     requests[j].of \cap portfolios = {}
    PROVE  QueueInv'
<1>1. PICK m \in Nat, n \in Nat : m = Len(dc_queue) /\ n = Len(requests)
  BY DEF QueueInv, Batch
<1>2. /\ dc_queue' \in Seq(DropCopyRequest)
      /\ Len(dc_queue') = m + n
      /\ \A i \in 1..m : dc_queue'[i] = dc_queue[i]
      /\ \A i \in (m + 1)..(m + n) :
            dc_queue'[i] = requests[i - m] /\ i - m \in 1..n
  BY <1>1, ConcatProperties DEF QueueInv, Batch
<1>3. ASSUME NEW i \in 1..(m + n), NEW j \in 1..(m + n), i # j
      PROVE  ~Clash(dc_queue'[i], dc_queue'[j])
  <2>1. CASE i \in 1..m /\ j \in 1..m
    BY <1>1, <1>2, <1>3, <2>1 DEF QueueInv, NoClash
  <2>2. CASE i \in (m + 1)..(m + n) /\ j \in (m + 1)..(m + n)
    <3>1. /\ dc_queue'[i] = requests[i - m] /\ i - m \in 1..n
          /\ dc_queue'[j] = requests[j - m] /\ j - m \in 1..n
          /\ i - m # j - m
      BY <1>1, <1>2, <1>3, <2>2
    <3>2. QED
      BY <1>1, <3>1 DEF Batch, NoClash
  <2>3. CASE i \in 1..m /\ j \in (m + 1)..(m + n)
    BY <1>1, <1>2, <2>3
  <2>4. CASE i \in (m + 1)..(m + n) /\ j \in 1..m
    <3>1. ~Clash(dc_queue'[j], dc_queue'[i])
      BY <1>1, <1>2, <2>4
    <3>2. QED
      BY <3>1 DEF Clash
  <2>5. QED
    BY <1>1, <2>1, <2>2, <2>3, <2>4
<1>4. NoClash(dc_queue')
  BY <1>2, <1>3 DEF NoClash
<1>5. ASSUME NEW i \in 1..(m + n)
      PROVE  /\ dc_queue'[i].type \notin channels
             /\ dc_queue'[i].of \subseteq currencies'
             /\ dc_queue'[i].type \in PerCurrency => can_download'
             /\ dc_queue'[i].type = "USER_PORTFOLIO" =>
                   dc_queue'[i].of \cap portfolios = {}
  <2>1. CASE i \in 1..m
    BY <1>1, <1>2, <2>1 DEF QueueInv
  <2>2. CASE i \in (m + 1)..(m + n)
    <3>1. PICK j \in 1..n : dc_queue'[i] = requests[j]
      BY <1>2, <2>2
    <3>2. requests[j].type \in T /\ requests[j].of \subseteq S
      BY <1>1, <3>1 DEF Batch
    <3>3. QED
      BY <1>1, <3>1, <3>2
  <2>3. QED
    BY <1>1, <2>1, <2>2
<1>6. portfolios' \subseteq IF can_download' THEN currencies' ELSE {}
  BY DEF QueueInv
<1>7. QED
  BY <1>2, <1>4, <1>5, <1>6 DEF QueueInv, NoClash, Clash, DropCopyRequest, PerCurrency, AccountChannel

-----------------------------------------------------------------------------
LEMMA QueueInvInit == DropCopyInit => QueueInv
<1> SUFFICES ASSUME DropCopyInit
             PROVE  QueueInv
  OBVIOUS
<1>1. dc_queue = <<>> /\ dc_queue \in Seq(DropCopyRequest) /\ Len(dc_queue) = 0
  BY DEF DropCopyInit
<1>2. NoClash(dc_queue)
  BY <1>1 DEF NoClash
<1>3. 1..Len(dc_queue) = {}
  BY <1>1
<1>4. QED
  BY <1>1, <1>2, <1>3 DEF DropCopyInit, QueueInv

LEMMA AuthKeepsQueue ==
    ASSUME QueueInv, Auth
    PROVE  QueueInv'
<1>1. PICK S \in SUBSET Currency : S = IF can_download THEN currencies ELSE {}
  BY DEF QueueInv
<1>2. PICK a : a = IF can_download THEN subscribe_user_portfolio(S) ELSE <<>>
  OBVIOUS
<1>3. PICK requests : requests =
          a \o subscribe_channel("USER_CHANGES")
            \o subscribe_channel("USER_ORDERS")
            \o subscribe_channel("USER_TRADES")
            \o get_account_summary(S) \o get_user_trades_by_currency(S)
  OBVIOUS
<1>4. /\ dc_session = "none" /\ dc_session' = "open" /\ dc_ready' = TRUE
      /\ dc_queue' = dc_queue \o requests
      /\ UNCHANGED <<can_download, currencies, channels, portfolios>>
  BY <1>1, <1>2, <1>3 DEF Auth, emplace_back
<1>5. ~dc_ready /\ dc_queue = <<>> /\ channels = {} /\ portfolios = {}
  BY <1>4 DEF QueueInv
<1>6. PICK T : /\ Batch(requests, T, S)
               /\ T \cap PerCurrency # {} => can_download
  <2>1. CASE can_download
    <3>1. Batch(a, {"USER_PORTFOLIO"}, S)
      BY <1>2, <2>1, OneRequest DEF subscribe_user_portfolio, PerCurrency
    <3>2. /\ Batch(get_account_summary(S), {"ACCOUNT_SUMMARY"}, S)
          /\ Batch(get_user_trades_by_currency(S), {"USER_TRADES_BY_CURRENCY"}, S)
      BY EachIsBatch DEF get_account_summary, get_user_trades_by_currency
    <3>3. Batch(requests, AccountChannel \cup {"USER_PORTFOLIO"}
                    \cup {"ACCOUNT_SUMMARY"} \cup {"USER_TRADES_BY_CURRENCY"}, S)
      BY <1>3, <3>1, <3>2, LoginIsBatch
    <3>4. QED
      BY <2>1, <3>3
  <2>2. CASE ~can_download
    <3>1. Batch(<<>>, {}, S)
      BY DEF Batch, NoClash
    <3>2. /\ a = <<>>
          /\ get_account_summary(S) = <<>>
          /\ get_user_trades_by_currency(S) = <<>>
      BY <1>1, <1>2, <2>2, EachOfNone
         DEF get_account_summary, get_user_trades_by_currency
    <3>3. Batch(requests, AccountChannel \cup {} \cup {} \cup {}, S)
      BY <1>3, <3>1, <3>2, LoginIsBatch
    <3>4. (AccountChannel \cup {} \cup {} \cup {}) \cap PerCurrency = {}
      BY DEF AccountChannel, PerCurrency
    <3>5. QED
      BY <3>3, <3>4
  <2>3. QED
    BY <2>1, <2>2
<1>7. /\ S \subseteq currencies' /\ currencies' \subseteq Currency
      /\ can_download' \in BOOLEAN
  BY <1>1, <1>4 DEF QueueInv
<1>8. \A j \in 1..Len(requests) :
          /\ \A i \in 1..Len(dc_queue) : ~Clash(dc_queue[i], requests[j])
          /\ requests[j].type = "USER_PORTFOLIO" =>
                requests[j].of \cap portfolios = {}
  BY <1>5
<1>9. QED
  BY <1>4, <1>5, <1>6, <1>7, <1>8, MoreQueued

LEMMA CurrenciesKeepQueue ==
    ASSUME QueueInv, NEW new \in SUBSET (Currency \ currencies), new # {},
           CurrenciesUpdate(new)
    PROVE  QueueInv'
<1>1. /\ currencies' = currencies \cup new
      /\ UNCHANGED <<dc_ready, can_download, dc_session, channels, portfolios>>
  BY DEF CurrenciesUpdate
<1>2. CASE dc_ready /\ can_download
  <2>1. dc_queue' = dc_queue \o per_currency(new)
    BY <1>2 DEF CurrenciesUpdate, emplace_back, UpdateNow
  <2>2. PICK requests : requests = per_currency(new)
    OBVIOUS
  <2>3. /\ Batch(requests, PerCurrency, new)
        /\ \A j \in 1..Len(requests) : requests[j].of # {}
    BY <2>2, PerCurrencyIsBatch
  <2>4. ASSUME NEW j \in 1..Len(requests)
        PROVE  /\ \A i \in 1..Len(dc_queue) : ~Clash(dc_queue[i], requests[j])
               /\ requests[j].type = "USER_PORTFOLIO" =>
                     requests[j].of \cap portfolios = {}
    <3>1. requests[j].of \subseteq new /\ requests[j].of # {}
      BY <2>3 DEF Batch
    <3>2. \A i \in 1..Len(dc_queue) : dc_queue[i].of \cap requests[j].of = {}
      BY <3>1 DEF QueueInv
    <3>3. requests[j].of \cap portfolios = {}
      BY <3>1 DEF QueueInv
    <3>4. requests[j].type \notin AccountChannel
      BY <2>3 DEF Batch, PerCurrency, AccountChannel
    <3>5. QED
      BY <3>1, <3>2, <3>3, <3>4 DEF Clash
  <2>5. PerCurrency \cap channels = {}
    BY DEF QueueInv, PerCurrency, AccountChannel
  <2>6. QED
    BY <1>1, <1>2, <2>1, <2>2, <2>3, <2>4, <2>5, MoreQueued DEF QueueInv
<1>3. CASE ~(dc_ready /\ can_download)
  <2>1. dc_queue' = dc_queue \o <<>>
    BY <1>3 DEF CurrenciesUpdate, emplace_back, UpdateNow
  <2>2. UNCHANGED dc_queue
    BY <2>1 DEF QueueInv
  <2>3. QED
    BY <1>1, <2>2 DEF QueueInv, NoClash, Clash, DropCopyRequest, PerCurrency, AccountChannel
<1>4. QED
  BY <1>2, <1>3

LEMMA LatchKeepsQueue ==
    ASSUME QueueInv, Latch
    PROVE  QueueInv'
<1>1. /\ can_download' = TRUE
      /\ UNCHANGED <<dc_ready, currencies, dc_session, channels, portfolios>>
  BY DEF Latch
<1>2. CASE LatchQueues
  <2>1. /\ dc_queue' = dc_queue \o per_currency(currencies)
        /\ dc_ready /\ ~can_download
    BY <1>2 DEF Latch, LatchQueues, emplace_back
  <2>2. PICK requests : requests = per_currency(currencies)
    OBVIOUS
  <2>3. Batch(requests, PerCurrency, currencies)
    BY <2>2, PerCurrencyIsBatch DEF QueueInv
  <2>4. ASSUME NEW j \in 1..Len(requests)
        PROVE  /\ \A i \in 1..Len(dc_queue) : ~Clash(dc_queue[i], requests[j])
               /\ requests[j].type = "USER_PORTFOLIO" =>
                     requests[j].of \cap portfolios = {}
    <3>1. requests[j].type \in PerCurrency
      BY <2>3 DEF Batch
    <3>2. \A i \in 1..Len(dc_queue) : dc_queue[i].type # requests[j].type
      BY <2>1, <3>1 DEF QueueInv
    <3>3. portfolios = {}
      BY <2>1 DEF QueueInv
    <3>4. QED
      BY <3>2, <3>3 DEF Clash
  <2>5. PerCurrency \cap channels = {}
    BY DEF QueueInv, PerCurrency, AccountChannel
  <2>6. QED
    BY <1>1, <2>1, <2>2, <2>3, <2>4, <2>5, MoreQueued DEF QueueInv
<1>3. CASE ~LatchQueues
  <2>1. UNCHANGED dc_queue
    BY <1>3 DEF Latch
  <2>2. QED
    BY <1>1, <2>1 DEF QueueInv, NoClash, Clash, DropCopyRequest, PerCurrency, AccountChannel
<1>4. QED
  BY <1>2, <1>3

(* What is sent clashes with nothing that stays. *)
LEMMA TimerKeepsQueue ==
    ASSUME QueueInv, NEW n \in 1..Len(dc_queue), DropCopyTimer(n)
    PROVE  QueueInv'
<1>1. PICK m \in Nat : m = Len(dc_queue)
  BY DEF QueueInv
<1>2. PICK sent : sent = Range(SubSeq(dc_queue, 1, n))
  OBVIOUS
<1>3. /\ dc_ready
      /\ portfolios' = portfolios \cup
            UNION {r.of : r \in {q \in sent : q.type = "USER_PORTFOLIO"}}
      /\ channels' = channels \cup ({r.type : r \in sent} \cap AccountChannel)
      /\ dc_queue' = SubSeq(dc_queue, n + 1, m)
      /\ UNCHANGED <<dc_ready, can_download, currencies, dc_session>>
  BY <1>1, <1>2 DEF DropCopyTimer
<1>4. \A r \in sent : \E i \in 1..n : r = dc_queue[i]
  <2>1. /\ SubSeq(dc_queue, 1, n) \in Seq(DropCopyRequest)
        /\ Len(SubSeq(dc_queue, 1, n)) = n
        /\ \A i \in 1..n : SubSeq(dc_queue, 1, n)[i] = dc_queue[i]
    BY <1>1 DEF QueueInv
  <2>2. QED
    BY <1>2, <2>1 DEF Range
<1>5. /\ dc_queue' \in Seq(DropCopyRequest)
      /\ Len(dc_queue') = m - n
      /\ \A i \in 1..(m - n) :
            dc_queue'[i] = dc_queue[n + i] /\ n + i \in (n + 1)..m
  BY <1>1, <1>3 DEF QueueInv
<1>6. ASSUME NEW i \in 1..(m - n), NEW j \in 1..(m - n), i # j
      PROVE  ~Clash(dc_queue'[i], dc_queue'[j])
  BY <1>1, <1>5, <1>6 DEF QueueInv, NoClash
<1>7. NoClash(dc_queue')
  BY <1>5, <1>6 DEF NoClash
<1>8. ASSUME NEW i \in 1..(m - n), NEW r \in sent
      PROVE  ~Clash(r, dc_queue'[i])
  <2>1. PICK k \in 1..n : r = dc_queue[k]
    BY <1>4
  <2>2. k # n + i /\ k \in 1..m /\ n + i \in 1..m
    BY <1>1, <1>5, <2>1
  <2>3. QED
    BY <1>1, <1>5, <2>1, <2>2 DEF QueueInv, NoClash
<1>9. ASSUME NEW r \in sent
      PROVE  /\ r.of \subseteq currencies
             /\ r.type = "USER_PORTFOLIO" => can_download
  <2>1. PICK k \in 1..m : r = dc_queue[k]
    BY <1>1, <1>4
  <2>2. QED
    BY <1>1, <2>1 DEF QueueInv, PerCurrency
<1>10. ASSUME NEW i \in 1..(m - n)
       PROVE  /\ dc_queue'[i].type \notin channels'
              /\ dc_queue'[i].of \subseteq currencies
              /\ dc_queue'[i].type \in PerCurrency => can_download
              /\ dc_queue'[i].type = "USER_PORTFOLIO" =>
                    dc_queue'[i].of \cap portfolios' = {}
  <2>1. /\ dc_queue'[i].type \notin channels
        /\ dc_queue'[i].of \subseteq currencies
        /\ dc_queue'[i].type \in PerCurrency => can_download
        /\ dc_queue'[i].type = "USER_PORTFOLIO" =>
              dc_queue'[i].of \cap portfolios = {}
    <3>1. PICK k \in 1..m : dc_queue'[i] = dc_queue[k]
      BY <1>1, <1>5
    <3>2. QED
      BY <1>1, <3>1 DEF QueueInv
  <2>2. \A r \in sent : ~(r.type \in AccountChannel /\ r.type = dc_queue'[i].type)
    BY <1>8 DEF Clash
  <2>3. dc_queue'[i].type = "USER_PORTFOLIO" =>
            \A r \in sent : r.type = "USER_PORTFOLIO" =>
                r.of \cap dc_queue'[i].of = {}
    BY <1>8 DEF Clash
  <2>4. dc_queue'[i].type \notin channels'
    BY <1>3, <2>1, <2>2
  <2>5. QED
    BY <1>3, <2>1, <2>3, <2>4
<1>11. portfolios' \subseteq IF can_download THEN currencies ELSE {}
  BY <1>3, <1>9 DEF QueueInv
<1>12. channels' \subseteq AccountChannel /\ dc_ready' /\ dc_session' = "open"
  BY <1>3 DEF QueueInv
<1>13. QED
  BY <1>3, <1>5, <1>7, <1>10, <1>11, <1>12
     DEF QueueInv, NoClash, Clash, DropCopyRequest, PerCurrency, AccountChannel

LEMMA QueueInvStep == QueueInv /\ [DropCopyNext]_dcVars => QueueInv'
<1> SUFFICES ASSUME QueueInv, [DropCopyNext]_dcVars
             PROVE  QueueInv'
  OBVIOUS
<1>1. CASE UNCHANGED <<dc_ready, can_download, currencies, dc_session, dc_queue,
                       channels, portfolios>>
  BY <1>1
     DEF QueueInv, NoClash, Clash, DropCopyRequest, PerCurrency, AccountChannel
<1>2. CASE DropCopyDisconnected
  <2>1. /\ dc_queue' = <<>> /\ dc_queue' \in Seq(DropCopyRequest)
        /\ Len(dc_queue') = 0
        /\ dc_ready' = FALSE /\ channels' = {} /\ portfolios' = {}
        /\ UNCHANGED <<can_download, currencies>>
    BY <1>2 DEF DropCopyDisconnected, DropCopyQueueCleared
  <2>2. NoClash(dc_queue')
    BY <2>1 DEF NoClash
  <2>3. 1..Len(dc_queue') = {}
    BY <2>1
  <2>4. QED
    BY <2>1, <2>2, <2>3
       DEF QueueInv, NoClash, Clash, DropCopyRequest, PerCurrency, AccountChannel
<1>3. ASSUME NEW new \in (SUBSET (Currency \ currencies)) \ {{}},
             CurrenciesUpdate(new)
      PROVE  QueueInv'
  <2>1. new \in SUBSET (Currency \ currencies) /\ new # {}
    BY <1>3
  <2>2. QED
    BY <1>3, <2>1, CurrenciesKeepQueue
<1>4. ASSUME NEW n \in 1..Len(dc_queue), DropCopyTimer(n)
      PROVE  QueueInv'
  BY <1>4, TimerKeepsQueue
<1>5. CASE Auth \/ Latch
  BY <1>5, AuthKeepsQueue, LatchKeepsQueue
<1>6. CASE DropCopyReady \/ AuthError \/ DropCopyTerminated \/ UNCHANGED dcVars
  BY <1>1, <1>6 DEF DropCopyReady, AuthError, DropCopyTerminated, dcVars
<1>7. ASSUME NEW t \in Traded, UserChanges(t) \/ UserTrades(t) \/ ExchangeTrade(t)
      PROVE  QueueInv'
  BY <1>1, <1>7 DEF UserChanges, UserTrades, ExchangeTrade
<1>8. ASSUME NEW trades \in acks, GetUserTradesByCurrencyAck(trades)
      PROVE  QueueInv'
  BY <1>1, <1>8 DEF GetUserTradesByCurrencyAck
<1>9. QED
  BY <1>2, <1>3, <1>4, <1>5, <1>6, <1>7, <1>8 DEF DropCopyNext, DropCopyStep

(* In a session no channel is subscribed twice and no request sent twice,  *)
(* and nothing that was queued in an earlier session is sent in this one.  *)
THEOREM RequestsAreSentOnce == DropCopySpec => []NothingSentTwice
<1>1. ASSUME QueueInv
      PROVE  NothingSentTwice
  <2>1. dc_queue # <<>> => dc_ready
    BY <1>1 DEF QueueInv
  <2>2. \A i, j \in 1..Len(dc_queue) : i # j => dc_queue[i] # dc_queue[j]
    BY <1>1 DEF QueueInv, NoClash, Clash
  <2>3. QED
    BY <1>1, <2>1, <2>2 DEF QueueInv, NothingSentTwice
<1>2. QED
  BY <1>1, QueueInvInit, QueueInvStep, PTL DEF DropCopySpec

=============================================================================
