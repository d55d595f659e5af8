-------------------------- MODULE TaskManagerSteps --------------------------
(***************************************************************************)
(* Lemmas for ConfirmNeedsReservations: the starts of a job, the answers   *)
(* CONFIRMED, and the steps that concern neither preserve ReservationInv.  *)
(***************************************************************************)
EXTENDS TaskManagerTypes

USE DEF First, Ended, Register, ResetJoin, ArmJobTimer, CloseJobTimer,
        FirstConfirmed, FirstFinished, PastPending

(* What Mails sends. *)
LEMMA MetaInMails ==
    \A s, u, x : \A j \in Job : Meta(s, x) \in Mails(u, j) <=> s = u /\ x \in Txns[j]
  BY Zenon DEF Meta, Mails

(* A meta is determined by its state and its id. *)
LEMMA MetaEq == \A s, u, x, y : Meta(s, x) = Meta(u, y) <=> s = u /\ x = y
  BY DEF Meta

(* A step that sends nothing, joins nothing and arms no finish retry.      *)
LEMMA QuietStep ==
    ASSUME ReservationInv,
           UNCHANGED <<asks, answers, confirmed, joined, txnState>>,
           \A x \in Txn : timer'[x].p = "finish" => timer[x].p = "finish",
           inbox' \in {inbox, NoMeta}
    PROVE  ReservationInv'
<1>1. \A j : Failed(j)' = Failed(j) /\ Fresh(j)' = Fresh(j)
  BY DEF Failed, Fresh, Asked, Answered
<1>2. InboxWasSent'
  BY DEF ReservationInv, InboxWasSent, NoMeta, Meta, AnswerState
<1>3. JoinedAnswered' /\ FinishedWasAsked'
  BY DEF ReservationInv, JoinedAnswered, FinishedWasAsked, Asked, Answered
<1>4. CancelHasCause'
  BY <1>1 DEF ReservationInv, CancelHasCause, Asked
<1>5. FreshJoin'
  BY <1>1, TxnsAreTxn DEF ReservationInv, FreshJoin
<1>6. ConfirmNeedsReservations'
  BY <1>1 DEF ReservationInv, ConfirmNeedsReservations, Asked, Answered
<1> QED BY <1>2, <1>3, <1>4, <1>5, <1>6 DEF ReservationInv

(* start: the join of the job begins again at zero. *)
LEMMA StartStep ==
    ASSUME TypeOK, ReservationInv, NEW j \in Job, NEW ex, NEW du, Start(j, ex, du),
           UNCHANGED answers, InboxWasSent'
    PROVE  ReservationInv'
<1>1. \A s, x : s # "RESERVING" => (Asked(s, x)' <=> Asked(s, x))
  BY MetaInMails DEF Start, Asked
<1>2. \A s, x : Answered(s, x)' <=> Answered(s, x)
  BY DEF Answered
<1>3. \A k \in Job : (Failed(k)' <=> Failed(k)) /\ (Fresh(k)' <=> Fresh(k))
  BY <1>1, <1>2 DEF Failed, Fresh
<1>4. JoinedAnswered' /\ FinishedWasAsked'
  BY <1>1, <1>2 DEF ReservationInv, JoinedAnswered, FinishedWasAsked, Start
<1>5. CancelHasCause'
  <2>1. \A x \in Txn : txnState'[x] = "CANCELED" => txnState[x] = "CANCELED"
    BY DEF Start, SetState
  <2> QED BY <2>1, <1>1, <1>3, JobOfTxn DEF ReservationInv, CancelHasCause
<1>6. FreshJoin'
  <2> SUFFICES ASSUME NEW k \in Job, Fresh(k)
               PROVE  /\ joined'[k] = Cardinality(confirmed' \cap Txns[k])
                      /\ \A x \in Txns[k] : timer'[x].p # "finish"
    BY <1>3 DEF FreshJoin
  <2>1. \A x \in Txns[k] : timer'[x].p # "finish"
    BY TxnsAreTxn, Zenon DEF ReservationInv, FreshJoin, Start, SetTimer, Timer
  <2>2. CASE k = j
    <3>1. confirmed' \cap Txns[k] = {} /\ joined'[k] = 0
      BY <2>2 DEF Start, TypeOK
    <3> QED BY <2>1, <3>1, FS_EmptySet
  <2>3. CASE k # j
    <3>1. confirmed' \cap Txns[k] = confirmed \cap Txns[k] /\ joined'[k] = joined[k]
      BY <2>3, Shape DEF Start, TypeOK
    <3> QED BY <2>1, <3>1 DEF ReservationInv, FreshJoin
  <2> QED BY <2>2, <2>3
<1>7. ConfirmNeedsReservations'
  BY <1>1, <1>2, <1>3 DEF ReservationInv, ConfirmNeedsReservations
<1> QED BY <1>4, <1>5, <1>6, <1>7 DEF ReservationInv

(* An answer that Wait handles was sent by its participant. *)
LEMMA ArrivedWasSent ==
    ASSUME ReservationInv, NEW s \in AnswerState, NEW x, Arrives(Meta(s, x))
    PROVE  Answered(s, x)
<1>1. Meta(s, x).state = s
  BY DEF Meta
<1>2. Meta(s, x) \in answers \/ inbox = Meta(s, x)
  BY DEF Arrives
<1>3. inbox.state \in AnswerState => inbox \in answers
  BY DEF ReservationInv, InboxWasSent
<1>4. Meta(s, x) \in answers
  BY <1>1, <1>2, <1>3
<1> QED BY <1>4 DEF Answered

(* Closing the timer of x arms no finish retry. *)
LEMMA ClosedTimer ==
    ASSUME TypeOK, NEW x \in Txn, CloseTimer(x)
    PROVE  \A y \in Txn : timer'[y].p = "finish" => timer[y].p = "finish"
<1>1. NoTimer.p = "none"
  BY DEF NoTimer
<1>2. \A y \in Txn : timer'[y] = IF y = x THEN NoTimer ELSE timer[y]
  BY DEF CloseTimer, TypeOK
<1> QED BY <1>1, <1>2

(* join and confirmed: the last participant to join completes the          *)
(* reservations of a fresh job.                                            *)
LEMMA ConfirmedStep ==
    ASSUME TypeOK, ReservationInv, NEW x \in Txn, ReceiveConfirmed(x)
    PROVE  ReservationInv'
<1> DEFINE j == JobOf(x)
<1>0. j \in Job /\ x \in Txns[j] /\ \A k \in Job : k # j => x \notin Txns[k]
  BY JobOfTxn
<1>1. JoinConfirmed(x, j) /\ inbox' = NoMeta /\ answers' = answers
  BY DEF ReceiveConfirmed
<1>2. Answered("CONFIRMED", x)
  <2>1. Arrives(Meta("CONFIRMED", x)) /\ "CONFIRMED" \in AnswerState
    BY DEF ReceiveConfirmed, AnswerState
  <2> QED BY <2>1, ArrivedWasSent
<1> HIDE DEF j
<1>a. \A s, y : Answered(s, y)' <=> Answered(s, y)
  BY <1>1 DEF Answered
<1>f. \A k \in Job : Failed(k)' <=> Failed(k)
  BY <1>a DEF Failed
<1>3. InboxWasSent'
  BY <1>1 DEF InboxWasSent, NoMeta, Meta, AnswerState
<1>4. JoinedAnswered'
  BY <1>1, <1>2, <1>a DEF JoinConfirmed, ReservationInv, JoinedAnswered
<1>5. CASE x \in confirmed
  <2>1. UNCHANGED <<asks, answers, confirmed, joined, txnState>>
    BY <1>1, <1>5 DEF JoinConfirmed
  <2>2. CloseTimer(x)
    BY <1>1, <1>5 DEF JoinConfirmed
  <2>3. \A y \in Txn : timer'[y].p = "finish" => timer[y].p = "finish"
    BY <2>2, ClosedTimer, Zenon
  <2> QED BY <2>1, <2>3, <1>1, QuietStep
<1>c. ASSUME x \notin confirmed, Fresh(j)
      PROVE  /\ Cardinality((confirmed \cup {x}) \cap Txns[j]) = joined[j] + 1
             /\ IsFiniteSet(Txns[j])
             /\ (confirmed \cup {x}) \cap Txns[j] \subseteq Txns[j]
  <2>1. IsFiniteSet(Txns[j]) /\ IsFiniteSet(confirmed \cap Txns[j])
    BY <1>0, Shape, FS_Subset
  <2>2. (confirmed \cup {x}) \cap Txns[j] = (confirmed \cap Txns[j]) \cup {x}
    BY <1>0
  <2>3. Cardinality((confirmed \cap Txns[j]) \cup {x}) = Cardinality(confirmed \cap Txns[j]) + 1
    BY <1>c, <2>1, FS_AddElement
  <2>4. joined[j] = Cardinality(confirmed \cap Txns[j])
    BY <1>0, <1>c DEF ReservationInv, FreshJoin
  <2> QED BY <2>1, <2>2, <2>3, <2>4
<1>6. CASE x \notin confirmed /\ joined[j] + 1 # Cardinality(Txns[j])
  <2>1. /\ confirmed' = confirmed \cup {x} /\ asks' = asks
        /\ joined' = [joined EXCEPT ![j] = @ + 1]
        /\ txnState' = [txnState EXCEPT ![x] = "CONFIRMED"]
        /\ timer' = [timer EXCEPT ![x] = NoTimer]
    BY <1>1, <1>6 DEF JoinConfirmed, CloseTimer
  <2>2. \A s, y : Asked(s, y)' <=> Asked(s, y)
    BY <2>1 DEF Asked
  <2>3. \A k \in Job : Fresh(k)' <=> Fresh(k)
    BY <2>2, <1>f DEF Fresh
  <2>4. FinishedWasAsked' /\ ConfirmNeedsReservations'
    BY <1>a, <1>f, <2>2 DEF ReservationInv, FinishedWasAsked, ConfirmNeedsReservations
  <2>5. CancelHasCause'
    <3>1. \A y \in Txn : txnState'[y] = "CANCELED" => txnState[y] = "CANCELED"
      BY <2>1 DEF TypeOK
    <3> QED BY <3>1, <1>f, <2>2, JobOfTxn DEF ReservationInv, CancelHasCause
  <2>6. FreshJoin'
    <3> SUFFICES ASSUME NEW k \in Job, Fresh(k)
                 PROVE  /\ joined'[k] = Cardinality(confirmed' \cap Txns[k])
                        /\ \A y \in Txns[k] : timer'[y].p # "finish"
      BY <2>3 DEF FreshJoin
    <3>1. \A y \in Txns[k] : timer'[y].p # "finish"
      BY <2>1, TxnsAreTxn, Zenon DEF ReservationInv, FreshJoin, TypeOK, NoTimer
    <3>2. CASE k = j
      <4>1. joined'[k] = joined[j] + 1
        BY <1>0, <2>1, <3>2 DEF TypeOK
      <4> QED BY <4>1, <3>1, <3>2, <1>c, <1>6, <2>1
    <3>3. CASE k # j
      <4>1. confirmed' \cap Txns[k] = confirmed \cap Txns[k] /\ joined'[k] = joined[k]
        BY <1>0, <2>1, <3>3 DEF TypeOK
      <4> QED BY <3>1, <4>1 DEF ReservationInv, FreshJoin
    <3> QED BY <3>2, <3>3, SMTT(30)
  <2> QED BY <1>3, <1>4, <2>4, <2>5, <2>6 DEF ReservationInv
<1>7. CASE x \notin confirmed /\ joined[j] + 1 = Cardinality(Txns[j])
  <2>1. /\ confirmed' = confirmed \cup {x}
        /\ asks' = asks \cup Mails("CONFIRMED", j)
        /\ joined' = [joined EXCEPT ![j] = 0]
        /\ txnState' = SetState("CONFIRMED", j)
        /\ timer' = SetTimer(Timer("finish"), j)
    BY <1>1, <1>7 DEF JoinConfirmed
  <2>2. \A s, y : Asked(s, y)' <=> Asked(s, y) \/ (s = "CONFIRMED" /\ y \in Txns[j])
    BY <2>1, <1>0, MetaInMails DEF Asked
  <2>3. ~Fresh(j)' /\ \A k \in Job : k # j => (Fresh(k)' <=> Fresh(k))
    BY <2>2, <1>0, <1>f, Shape DEF Fresh
  <2>4. FinishedWasAsked'
    BY <1>a, <2>2 DEF ReservationInv, FinishedWasAsked
  <2>5. CancelHasCause'
    <3>1. \A y \in Txn : txnState'[y] = "CANCELED" => txnState[y] = "CANCELED"
      BY <2>1 DEF SetState
    <3> QED BY <3>1, <1>f, <2>2, JobOfTxn DEF ReservationInv, CancelHasCause
  <2>6. FreshJoin'
    <3> SUFFICES ASSUME NEW k \in Job, Fresh(k), k # j
                 PROVE  /\ joined'[k] = Cardinality(confirmed' \cap Txns[k])
                        /\ \A y \in Txns[k] : timer'[y].p # "finish"
      BY <2>3 DEF FreshJoin
    <3>1. \A y \in Txns[k] : y \notin Txns[j] /\ y \in Txn
      BY <1>0, Shape, TxnsAreTxn
    <3>2. \A y \in Txns[k] : timer'[y].p # "finish"
      BY <2>1, <3>1, ZenonT(30) DEF ReservationInv, FreshJoin, SetTimer
    <3>3. confirmed' \cap Txns[k] = confirmed \cap Txns[k] /\ joined'[k] = joined[k]
      BY <1>0, <2>1 DEF TypeOK
    <3> QED BY <3>2, <3>3 DEF ReservationInv, FreshJoin
  <2>7. ConfirmNeedsReservations'
    <3> SUFFICES ASSUME NEW k \in Job, ~Failed(k), \E y \in Txns[k] : Asked("CONFIRMED", y)',
                        NEW z \in Txns[k]
                 PROVE  Answered("CONFIRMED", z)
      BY <1>a, <1>f DEF ConfirmNeedsReservations
    <3>1. CASE \E y \in Txns[k] : Asked("CONFIRMED", y)
      BY <3>1 DEF ReservationInv, ConfirmNeedsReservations
    <3>2. CASE Fresh(k)
      <4>1. k = j
        BY <3>2, <2>3 DEF Fresh
      <4>2. (confirmed \cup {x}) \cap Txns[j] = Txns[j]
        <5> DEFINE T == (confirmed \cup {x}) \cap Txns[j]
        <5>1. IsFiniteSet(Txns[j]) /\ T \in SUBSET Txns[j] /\ Cardinality(T) = Cardinality(Txns[j])
          BY <4>1, <3>2, <1>c, <1>7
        <5> HIDE DEF T
        <5>2. Txns[j] = T
          BY <5>1, FS_Subset
        <5> QED BY <5>2 DEF T
      <4>3. z \in confirmed \/ z = x
        BY <4>1, <4>2
      <4> QED BY <4>3, <1>2 DEF ReservationInv, JoinedAnswered
    <3> QED BY <3>1, <3>2 DEF Fresh
  <2> QED BY <1>3, <1>4, <2>4, <2>5, <2>6, <2>7 DEF ReservationInv
<1> QED BY <1>5, <1>6, <1>7
=============================================================================
