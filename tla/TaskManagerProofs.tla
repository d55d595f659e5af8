-------------------------- MODULE TaskManagerProofs -------------------------
(***************************************************************************)
(* ConfirmNeedsReservations and FinishedIsNotRetried hold for any task and *)
(* any number of retries, lost timers, reloads and restarts.               *)
(***************************************************************************)
EXTENDS TaskManagerSteps

USE DEF First, Ended, Register, ResetJoin, ArmJobTimer, CloseJobTimer,
        FirstConfirmed, FirstFinished, PastPending

(* canceled: the job has failed, so nothing is claimed of it any more. *)
LEMMA CanceledStep ==
    ASSUME TypeOK, ReservationInv, NEW x \in Txn, ReceiveCanceled(x)
    PROVE  ReservationInv'
<1> DEFINE j == JobOf(x)
<1>0. j \in Job /\ x \in Txns[j]
  BY JobOfTxn
<1>1. /\ inbox' = NoMeta /\ answers' = answers /\ confirmed' = confirmed
      /\ joined' = [joined EXCEPT ![j] = 0]
      /\ txnState' = SetState("CANCELED", j)
      /\ timer' = SetTimer(Timer("finish"), j)
      /\ asks' = asks \cup Mails("CANCELED", j)
  BY DEF ReceiveCanceled
<1>2. Answered("CANCELED", x)
  <2>1. Arrives(Meta("CANCELED", x)) /\ "CANCELED" \in AnswerState
    BY DEF ReceiveCanceled, AnswerState
  <2> QED BY <2>1, ArrivedWasSent
<1> HIDE DEF j
<1>3. \A s, y : Asked(s, y)' <=> Asked(s, y) \/ (s = "CANCELED" /\ y \in Txns[j])
  BY <1>0, <1>1, MetaInMails DEF Asked
<1>4. \A s, y : Answered(s, y)' <=> Answered(s, y)
  BY <1>1 DEF Answered
<1>5. Failed(j) /\ \A k \in Job : (Failed(k)' <=> Failed(k)) /\ (Fresh(k)' <=> Fresh(k))
  BY <1>0, <1>2, <1>3, <1>4 DEF Failed, Fresh
<1>6. InboxWasSent'
  BY <1>1 DEF InboxWasSent, NoMeta, Meta, AnswerState
<1>7. JoinedAnswered' /\ FinishedWasAsked' /\ ConfirmNeedsReservations'
  BY <1>1, <1>3, <1>4, <1>5 DEF ReservationInv, JoinedAnswered, FinishedWasAsked,
                                ConfirmNeedsReservations
<1>8. CancelHasCause'
  <2> SUFFICES ASSUME NEW y \in Txn, Asked("CANCELED", y)' \/ txnState'[y] = "CANCELED"
               PROVE  Failed(JobOf(y))
    BY <1>5, JobOfTxn DEF CancelHasCause
  <2>1. CASE y \in Txns[j]
    BY <2>1, <1>0, <1>5, JobOfTxn
  <2>2. CASE y \notin Txns[j]
    <3>1. Asked("CANCELED", y) \/ txnState[y] = "CANCELED"
      BY <2>2, <1>1, <1>3 DEF SetState
    <3> QED BY <3>1 DEF ReservationInv, CancelHasCause
  <2> QED BY <2>1, <2>2
<1>9. FreshJoin'
  <2> SUFFICES ASSUME NEW k \in Job, Fresh(k), k # j
               PROVE  /\ joined'[k] = Cardinality(confirmed' \cap Txns[k])
                      /\ \A y \in Txns[k] : timer'[y].p # "finish"
    BY <1>5 DEF FreshJoin, Fresh
  <2>1. \A y \in Txns[k] : y \notin Txns[j] /\ y \in Txn
    BY <1>0, Shape, TxnsAreTxn
  <2>2. \A y \in Txns[k] : timer'[y].p # "finish"
    BY <1>1, <2>1, ZenonT(30) DEF ReservationInv, FreshJoin, SetTimer
  <2>3. joined'[k] = joined[k]
    BY <1>0, <1>1 DEF TypeOK
  <2> QED BY <1>1, <2>2, <2>3 DEF ReservationInv, FreshJoin
<1> QED BY <1>6, <1>7, <1>8, <1>9 DEF ReservationInv

(* A FINISHED answer is never joined by a fresh job. *)
LEMMA FinishedStep ==
    ASSUME TypeOK, ReservationInv, NEW x \in Txn, ReceiveFinished(x)
    PROVE  ReservationInv'
<1> DEFINE j == JobOf(x)
<1>0. j \in Job /\ x \in Txns[j]
  BY JobOfTxn
<1>1. inbox' = NoMeta /\ UNCHANGED <<asks, answers, confirmed>> /\ JoinFinished(x, j)
  BY DEF ReceiveFinished
<1>2. Answered("FINISHED", x)
  <2>1. Arrives(Meta("FINISHED", x)) /\ "FINISHED" \in AnswerState
    BY DEF ReceiveFinished, AnswerState
  <2> QED BY <2>1, ArrivedWasSent
<1>3. ~Fresh(j)
  BY <1>0, <1>2 DEF ReservationInv, FinishedWasAsked, CancelHasCause, Fresh
<1> HIDE DEF j
<1>4. /\ \A s, y : (Asked(s, y)' <=> Asked(s, y)) /\ (Answered(s, y)' <=> Answered(s, y))
      /\ \A k \in Job : (Failed(k)' <=> Failed(k)) /\ (Fresh(k)' <=> Fresh(k))
  BY <1>1 DEF Asked, Answered, Failed, Fresh
<1>5. InboxWasSent'
  BY <1>1 DEF InboxWasSent, NoMeta, Meta, AnswerState
<1>6. JoinedAnswered' /\ FinishedWasAsked' /\ ConfirmNeedsReservations'
  BY <1>1, <1>4 DEF ReservationInv, JoinedAnswered, FinishedWasAsked,
                    ConfirmNeedsReservations
<1>7. CancelHasCause'
  <2>1. \A y \in Txn : txnState'[y] = "CANCELED" => txnState[y] = "CANCELED"
    BY <1>1 DEF JoinFinished, TypeOK
  <2> QED BY <2>1, <1>4, JobOfTxn, SMTT(30) DEF ReservationInv, CancelHasCause
<1>8. FreshJoin'
  <2> SUFFICES ASSUME NEW k \in Job, Fresh(k), k # j
               PROVE  /\ joined'[k] = Cardinality(confirmed' \cap Txns[k])
                      /\ \A y \in Txns[k] : timer'[y].p # "finish"
    BY <1>3, <1>4 DEF FreshJoin
  <2>1. \A y \in Txns[k] : timer'[y].p # "finish"
    BY <1>1, TxnsAreTxn, Zenon DEF JoinFinished, CloseTimer, ReservationInv, FreshJoin, TypeOK, NoTimer
  <2>2. joined'[k] = joined[k]
    BY <1>0, <1>1 DEF JoinFinished, TypeOK
  <2> QED BY <1>1, <2>1, <2>2 DEF ReservationInv, FreshJoin
<1> QED BY <1>5, <1>6, <1>7, <1>8 DEF ReservationInv

(* A finish retry repeats what the transaction's job already decided. *)
LEMMA TimeoutStep ==
    ASSUME TypeOK, ReservationInv, NEW x \in Txn, TransactionTimeout(x)
    PROVE  ReservationInv'
<1> DEFINE s == IF timer[x].p = "reserve" THEN "RESERVING" ELSE txnState[x]
<1>1. /\ UNCHANGED <<answers, confirmed, joined, txnState>> /\ inbox' = NoMeta
      /\ asks' = asks \/ (asks' = asks \cup {Meta(s, x)} /\ timer[x].p # "none")
  BY DEF TransactionTimeout, jobVars
<1>2. \A y \in Txn : timer'[y].p = "finish" => timer[y].p = "finish"
  <2>1. timer \in [Txn -> TimerEntry]
    BY DEF TypeOK
  <2>2. \/ timer' = timer
        \/ timer' = [timer EXCEPT ![x] = Exhausted]
        \/ timer' = [timer EXCEPT ![x] = [timer[x] EXCEPT !.r = @ - 1]]
    BY DEF TransactionTimeout
  <2>3. [timer[x] EXCEPT !.r = @ - 1].p = timer[x].p
    BY <2>1 DEF TimerEntry
  <2>4. Exhausted.p = "none"
    BY DEF Exhausted
  <2> QED BY <2>1, <2>2, <2>3, <2>4, Zenon
<1>3. CASE asks' = asks
  BY <1>1, <1>2, <1>3, QuietStep
<1>4. CASE asks' = asks \cup {Meta(s, x)} /\ timer[x].p # "none"
  <2> DEFINE j == JobOf(x)
  <2>0. j \in Job /\ x \in Txns[j] /\ \A k \in Job : x \in Txns[k] => k = j
    BY JobOfTxn
  <2>1. s = "CANCELED" => Failed(j)
    BY DEF ReservationInv, CancelHasCause
  <2>2. s = "CONFIRMED" => ~Fresh(j)
    <3>1. timer[x].p \in {"none", "reserve", "finish"}
      BY DEF TypeOK, TimerEntry
    <3> QED BY <3>1, <1>4, <2>0, Zenon DEF ReservationInv, FreshJoin
  <2> HIDE DEF j, s
  <2>3. /\ \A u, y : Asked(u, y)' <=> Asked(u, y) \/ (u = s /\ y = x)
        /\ \A u, y : Answered(u, y)' <=> Answered(u, y)
    BY <1>1, <1>4, MetaEq DEF Asked, Answered
  <2>4. \A k \in Job : (Failed(k)' <=> Failed(k)) /\ (Fresh(k)' <=> Fresh(k))
    BY <2>0, <2>2, <2>3 DEF Failed, Fresh
  <2>5. InboxWasSent'
    BY <1>1 DEF InboxWasSent, NoMeta, Meta, AnswerState
  <2>6. JoinedAnswered' /\ FinishedWasAsked'
    BY <1>1, <2>3 DEF ReservationInv, JoinedAnswered, FinishedWasAsked
  <2>7. CancelHasCause'
    <3> SUFFICES ASSUME NEW y \in Txn, Asked("CANCELED", y)' \/ txnState[y] = "CANCELED"
                 PROVE  Failed(JobOf(y))
      BY <1>1, <2>4, JobOfTxn DEF CancelHasCause
    <3>1. CASE Asked("CANCELED", y) \/ txnState[y] = "CANCELED"
      BY <3>1 DEF ReservationInv, CancelHasCause
    <3>2. CASE s = "CANCELED" /\ y = x
      BY <3>2, <2>1 DEF j
    <3> QED BY <3>1, <3>2, <2>3
  <2>8. FreshJoin'
    BY <1>1, <1>2, <2>4, TxnsAreTxn DEF ReservationInv, FreshJoin
  <2>9. ConfirmNeedsReservations'
    <3> SUFFICES ASSUME NEW k \in Job, ~Failed(k), NEW y \in Txns[k], Asked("CONFIRMED", y)'
                 PROVE  \A z \in Txns[k] : Answered("CONFIRMED", z)
      BY <2>3, <2>4 DEF ConfirmNeedsReservations
    <3>1. ~Fresh(k)
      BY <2>4 DEF Fresh
    <3> QED BY <3>1 DEF Fresh, ReservationInv, ConfirmNeedsReservations
  <2> QED BY <2>5, <2>6, <2>7, <2>8, <2>9 DEF ReservationInv
<1> QED BY <1>1, <1>3, <1>4

(* An executor only answers FINISHED when it was asked to finish. *)
LEMMA ExecuteStep ==
    ASSUME TypeOK, ReservationInv, NEW a \in asks, Execute(a)
    PROVE  ReservationInv'
<1>0. a.id \in Txn /\ a.state \in TxnState /\ a = Meta(a.state, a.id)
  BY DEF TypeOK, Ask, Meta
<1>1. PICK s : /\ answers' = answers \cup {Meta(s, a.id)}
               /\ s = "FINISHED" => a.state \in {"CONFIRMED", "CANCELED"}
  BY DEF Execute, Succeeds
<1>2. UNCHANGED <<asks, confirmed, joined, txnState, timer, inbox>>
  BY DEF Execute, jobVars, txnVars, chanVars
<1>3. /\ \A u, y : Answered(u, y)' <=> Answered(u, y) \/ (u = s /\ y = a.id)
      /\ \A u, y : Asked(u, y)' <=> Asked(u, y)
  BY <1>1, <1>2, MetaEq DEF Asked, Answered
<1>4. \A k \in Job : (Failed(k) => Failed(k)') /\ (Fresh(k)' => Fresh(k))
  BY <1>3 DEF Failed, Fresh
<1>5. InboxWasSent'
  BY <1>1, <1>2 DEF ReservationInv, InboxWasSent
<1>6. JoinedAnswered'
  BY <1>2, <1>3 DEF ReservationInv, JoinedAnswered
<1>7. FinishedWasAsked'
  <2>1. s = "FINISHED" => Asked("CONFIRMED", a.id) \/ Asked("CANCELED", a.id)
    BY <1>0, <1>1 DEF Asked
  <2> QED BY <2>1, <1>3 DEF ReservationInv, FinishedWasAsked
<1>8. CancelHasCause'
  BY <1>2, <1>3, <1>4, JobOfTxn DEF ReservationInv, CancelHasCause
<1>9. FreshJoin'
  BY <1>2, <1>4 DEF ReservationInv, FreshJoin
<1>10. ConfirmNeedsReservations'
  BY <1>3, <1>4 DEF ReservationInv, ConfirmNeedsReservations
<1> QED BY <1>5, <1>6, <1>7, <1>8, <1>9, <1>10 DEF ReservationInv

(* A restart forgets every join and every timer, but no mail. *)
LEMMA DieStep ==
    ASSUME ReservationInv, Die
    PROVE  ReservationInv'
<1>1. /\ UNCHANGED <<asks, answers>> /\ inbox' = NoMeta /\ confirmed' = {}
      /\ joined' = [j \in Job |-> 0]
      /\ txnState' = [x \in Txn |-> "NEW"] /\ timer' = [x \in Txn |-> NoTimer]
  BY DEF Die
<1>2. /\ \A s, y : (Asked(s, y)' <=> Asked(s, y)) /\ (Answered(s, y)' <=> Answered(s, y))
      /\ \A k \in Job : Failed(k)' <=> Failed(k)
  BY <1>1 DEF Asked, Answered, Failed
<1>3. InboxWasSent'
  BY <1>1 DEF InboxWasSent, NoMeta, Meta, AnswerState
<1>4. JoinedAnswered' /\ FinishedWasAsked' /\ ConfirmNeedsReservations'
  BY <1>1, <1>2 DEF ReservationInv, JoinedAnswered, FinishedWasAsked,
                    ConfirmNeedsReservations
<1>5. CancelHasCause'
  <2>1. \A x \in Txn : txnState'[x] # "CANCELED"
    BY <1>1
  <2> QED BY <2>1, <1>2, JobOfTxn DEF ReservationInv, CancelHasCause
<1>6. FreshJoin'
  <2>1. \A j \in Job : confirmed' \cap Txns[j] = {} /\ joined'[j] = 0
    BY <1>1
  <2>2. \A x \in Txn : timer'[x].p # "finish"
    BY <1>1 DEF NoTimer
  <2> QED BY <2>1, <2>2, TxnsAreTxn, FS_EmptySet, ZenonT(30) DEF FreshJoin
<1> QED BY <1>3, <1>4, <1>5, <1>6 DEF ReservationInv

(* Nothing has been asked or answered. *)
LEMMA ReservationInit == Init => ReservationInv
<1> SUFFICES ASSUME Init PROVE ReservationInv
  OBVIOUS
<1>1. InboxWasSent
  BY DEF Init, InboxWasSent, NoMeta, Meta, AnswerState
<1>2. JoinedAnswered /\ FinishedWasAsked /\ ConfirmNeedsReservations
  BY DEF Init, JoinedAnswered, FinishedWasAsked, ConfirmNeedsReservations, Asked, Answered
<1>3. CancelHasCause
  BY DEF Init, CancelHasCause, Asked
<1>4. FreshJoin
  <2>1. \A j \in Job : confirmed \cap Txns[j] = {} /\ joined[j] = 0
    BY DEF Init
  <2>2. \A x \in Txn : timer[x].p # "finish"
    BY DEF Init, NoTimer
  <2> QED BY <2>1, <2>2, TxnsAreTxn, FS_EmptySet, ZenonT(30) DEF FreshJoin
<1> QED BY <1>1, <1>2, <1>3, <1>4 DEF ReservationInv

(* Every step keeps ReservationInv, one case per action. *)
LEMMA ReservationNext == TypeOK /\ ReservationInv /\ [Next]_vars => ReservationInv'
<1> SUFFICES ASSUME TypeOK, ReservationInv, [Next]_vars PROVE ReservationInv'
  OBVIOUS
<1> USE DEF taskVars, jobVars, txnVars, chanVars, diskVars
<1>die. ASSUME Die PROVE ReservationInv'
  BY <1>die, DieStep
<1>1. CASE ReceiveTask
  BY <1>1, QuietStep DEF ReceiveTask
<1>2. ASSUME NEW j \in Job, ReceiveJob(j) PROVE ReservationInv'
  <2>1. CASE loaded
    <3>1. Start(j, expired, due) /\ UNCHANGED <<answers, inbox>>
      BY <1>2, <2>1 DEF ReceiveJob
    <3>2. InboxWasSent'
      BY <3>1 DEF ReservationInv, InboxWasSent
    <3> QED BY <3>1, <3>2, StartStep
  <2> QED BY <2>1, <1>2, <1>die DEF ReceiveJob
<1>3. ASSUME NEW j \in Job, JobTimeout(j) PROVE ReservationInv'
  <2>1. \A x \in Txn : timer'[x].p = "finish" => timer[x].p = "finish"
    <3>1. timer' = SetTimer(NoTimer, j) \/ timer' = timer
      BY <1>3 DEF JobTimeout, Stop
    <3>2. NoTimer.p = "none"
      BY DEF NoTimer
    <3>3. \A x \in Txn : timer'[x] = NoTimer \/ timer'[x] = timer[x]
      BY <3>1 DEF SetTimer
    <3> QED BY <3>2, <3>3
  <2> QED BY <2>1, <1>3, QuietStep DEF JobTimeout
<1>4. ASSUME NEW j \in Job, Expire(j) PROVE ReservationInv'
  BY <1>4, QuietStep DEF Expire
<1>5. ASSUME NEW m \in Timeouts, IgnoreTimeout(m) PROVE ReservationInv'
  BY <1>5, QuietStep DEF IgnoreTimeout
<1>6. ASSUME NEW m \in answers, NilJob(m) PROVE ReservationInv'
  BY <1>6, <1>die DEF NilJob
<1>7. CASE TaskClear
  BY <1>7, QuietStep DEF TaskClear
<1>8. ASSUME NEW m \in answers \cup Timeouts, Reload(m) PROVE ReservationInv'
  <2>1. CASE Unfinished # {}
    <3>1. /\ Start(Min(Unfinished), ExpiredLess(m), DueLess(m))
          /\ inbox' = m /\ answers' = answers
      BY <1>8, <2>1, ZenonT(30) DEF Reload
    <3>2. InboxWasSent'
      BY <3>1 DEF InboxWasSent, Timeouts, Meta, AnswerState
    <3>3. Min(Unfinished) \in Job
      BY <2>1, MinOfJobs DEF Unfinished
    <3> QED BY <3>1, <3>2, <3>3, StartStep
  <2>2. CASE Unfinished = {}
    BY <1>8, <2>2, QuietStep DEF Reload
  <2> QED BY <2>1, <2>2
<1>9. ASSUME NEW s \in saves, Marshal(s) \/ UpdateTask(s) PROVE ReservationInv'
  BY <1>9, QuietStep, Zenon DEF Marshal, UpdateTask
<1>10. CASE UNCHANGED vars
  BY <1>10, QuietStep, Zenon DEF vars
<1>11. ASSUME NEW x \in Txn, ReceiveConfirmed(x) PROVE ReservationInv'
  BY <1>11, ConfirmedStep
<1>12. ASSUME NEW x \in Txn, ReceiveCanceled(x) PROVE ReservationInv'
  BY <1>12, CanceledStep
<1>13. ASSUME NEW x \in Txn, ReceiveFinished(x) PROVE ReservationInv'
  BY <1>13, FinishedStep
<1>14. ASSUME NEW x \in Txn, TransactionTimeout(x) PROVE ReservationInv'
  BY <1>14, TimeoutStep
<1>15. ASSUME NEW a \in asks, Execute(a) PROVE ReservationInv'
  BY <1>15, ExecuteStep
<1>16. ASSUME NEW x \in Txn, Fire(x) PROVE ReservationInv'
  BY <1>16, QuietStep DEF Fire
<1> QED
  BY <1>1, <1>2, <1>3, <1>4, <1>5, <1>6, <1>7, <1>8, <1>9, <1>10, <1>11,
     <1>12, <1>13, <1>14, <1>15, <1>16, <1>die DEF Next, Restart

(* For every task and any bounds: a participant is asked to confirm only   *)
(* when every participant of its job has reserved or one has failed.       *)
THEOREM ConfirmIsSafe == Spec => []ConfirmNeedsReservations
<1>1. Spec => [](TypeOK /\ ReservationInv)
  BY TypeInit, TypeNext, ReservationInit, ReservationNext, PTL DEF Spec
<1>2. ReservationInv => ConfirmNeedsReservations
  BY DEF ReservationInv
<1> QED BY <1>1, <1>2, PTL

-----------------------------------------------------------------------------
(* The inductive form of FinishedIsNotRetried: an entry of tms that retries *)
(* a finish belongs to a transaction that is CONFIRMED or CANCELED, so the *)
(* state a retry reads when its timeout is received is one to finish with  *)
(* (confirmed, canceled, closeTimer in Wait).                              *)
Decided == {"CONFIRMED", "CANCELED"}
FinishTimers == \A x \in Txn : timer[x].p = "finish" => txnState[x] \in Decided
RetryInv == FinishTimers /\ FinishedIsNotRetried

(* A step that moves no transaction, arms no finish retry and asks nothing. *)
LEMMA IdleStep ==
    ASSUME RetryInv, UNCHANGED <<asks, txnState>>,
           \A x \in Txn : timer'[x].p = "finish" => timer[x].p = "finish"
    PROVE  RetryInv'
  BY DEF RetryInv, FinishTimers, FinishedIsNotRetried

(* Asking the transactions of a job in a supported state. *)
LEMMA MailsAreSupported ==
    ASSUME FinishedIsNotRetried, NEW j, NEW s \in DOMAIN Succeeds,
           asks' = asks \cup Mails(s, j)
    PROVE  FinishedIsNotRetried'
<1>1. \A m \in Mails(s, j) : m.state = s
  BY DEF Mails, Meta
<1> QED BY <1>1 DEF FinishedIsNotRetried

(* start: every entry of the job is a reserve retry. *)
LEMMA StartRetries ==
    ASSUME RetryInv, NEW j, NEW ex, NEW du, Start(j, ex, du)
    PROVE  RetryInv'
<1>1. FinishedIsNotRetried'
  <2>1. asks' = asks \cup Mails("RESERVING", j) /\ "RESERVING" \in DOMAIN Succeeds
    BY DEF Start, Succeeds
  <2> QED BY <2>1, MailsAreSupported DEF RetryInv
<1>2. FinishTimers'
  <2> SUFFICES ASSUME NEW x \in Txn, timer'[x].p = "finish" PROVE txnState'[x] \in Decided
    BY DEF FinishTimers
  <2>1. timer'[x] = IF x \in Txns[j] THEN Timer("reserve") ELSE timer[x]
    BY DEF Start, SetTimer
  <2>2. Timer("reserve").p = "reserve"
    BY DEF Timer
  <2>3. x \notin Txns[j] /\ timer[x].p = "finish"
    BY <2>1, <2>2
  <2>4. txnState'[x] = txnState[x]
    BY <2>3 DEF Start, SetState
  <2> QED BY <2>3, <2>4 DEF RetryInv, FinishTimers
<1> QED BY <1>1, <1>2 DEF RetryInv

(* confirmed and canceled: the transactions of the job are decided when    *)
(* their finish retries are armed.                                         *)
LEMMA DecideRetries ==
    ASSUME RetryInv, NEW j, NEW s \in Decided,
           txnState' = SetState(s, j), timer' = SetTimer(Timer("finish"), j),
           asks' = asks \cup Mails(s, j)
    PROVE  RetryInv'
<1>1. FinishedIsNotRetried'
  <2>1. s \in DOMAIN Succeeds
    BY DEF Decided, Succeeds
  <2> QED BY <2>1, MailsAreSupported DEF RetryInv
<1>2. \A x \in Txn : /\ timer'[x] = IF x \in Txns[j] THEN Timer("finish") ELSE timer[x]
                     /\ txnState'[x] = IF x \in Txns[j] THEN s ELSE txnState[x]
  BY DEF SetTimer, SetState
<1>3. FinishTimers'
  BY <1>2 DEF RetryInv, FinishTimers
<1> QED BY <1>1, <1>3 DEF RetryInv

(* join: the timer of a transaction is closed by the answer that moves it. *)
LEMMA CloseRetries ==
    ASSUME TypeOK, RetryInv, NEW x \in Txn, CloseTimer(x), asks' = asks,
           \A y \in Txn : y # x => txnState'[y] = txnState[y]
    PROVE  RetryInv'
<1>1. NoTimer.p = "none"
  BY DEF NoTimer
<1>2. \A y \in Txn : timer'[y] = IF y = x THEN NoTimer ELSE timer[y]
  BY DEF CloseTimer, TypeOK
<1>3. FinishTimers'
  BY <1>1, <1>2 DEF RetryInv, FinishTimers
<1>4. FinishedIsNotRetried'
  BY DEF RetryInv, FinishedIsNotRetried
<1> QED BY <1>3, <1>4 DEF RetryInv

(* timeout: whichever timer the message is of, the entry decides the ask.  *)
LEMMA TimeoutRetries ==
    ASSUME TypeOK, RetryInv, NEW x \in Txn, TransactionTimeout(x)
    PROVE  RetryInv'
<1> DEFINE s == IF timer[x].p = "reserve" THEN "RESERVING" ELSE txnState[x]
<1>1. /\ txnState' = txnState
      /\ asks' = asks \/ (asks' = asks \cup {Meta(s, x)} /\ timer[x].p # "none")
  BY DEF TransactionTimeout
<1>2. \A y \in Txn : timer'[y].p = "finish" => timer[y].p = "finish"
  <2>1. timer \in [Txn -> TimerEntry]
    BY DEF TypeOK
  <2>2. \/ timer' = timer
        \/ timer' = [timer EXCEPT ![x] = Exhausted]
        \/ timer' = [timer EXCEPT ![x] = [timer[x] EXCEPT !.r = @ - 1]]
    BY DEF TransactionTimeout
  <2>3. [timer[x] EXCEPT !.r = @ - 1].p = timer[x].p
    BY <2>1 DEF TimerEntry
  <2>4. Exhausted.p = "none"
    BY DEF Exhausted
  <2> QED BY <2>1, <2>2, <2>3, <2>4, Zenon
<1>3. CASE asks' = asks
  BY <1>1, <1>2, <1>3, IdleStep
<1>4. CASE asks' = asks \cup {Meta(s, x)} /\ timer[x].p # "none"
  <2>1. timer[x].p \in {"none", "reserve", "finish"}
    BY DEF TypeOK, TimerEntry
  <2>2. s \in {"RESERVING", "CONFIRMED", "CANCELED"}
    BY <2>1, <1>4 DEF RetryInv, FinishTimers, Decided
  <2> HIDE DEF s
  <2>3. Meta(s, x).state \in DOMAIN Succeeds
    BY <2>2 DEF Meta, Succeeds
  <2>4. FinishedIsNotRetried'
    BY <2>3, <1>4 DEF RetryInv, FinishedIsNotRetried
  <2>5. FinishTimers'
    BY <1>1, <1>2 DEF RetryInv, FinishTimers
  <2> QED BY <2>4, <2>5 DEF RetryInv
<1> QED BY <1>1, <1>3, <1>4

(* Every step keeps RetryInv, one case per action. *)
LEMMA RetryNext == TypeOK /\ RetryInv /\ [Next]_vars => RetryInv'
<1> SUFFICES ASSUME TypeOK, RetryInv, [Next]_vars PROVE RetryInv'
  OBVIOUS
<1> USE DEF taskVars, jobVars, txnVars, chanVars, diskVars
<1>die. ASSUME Die PROVE RetryInv'
  <2>1. asks' = asks /\ \A x \in Txn : timer'[x].p # "finish"
    BY <1>die DEF Die, NoTimer
  <2> QED BY <2>1 DEF RetryInv, FinishTimers, FinishedIsNotRetried
<1>1. CASE ReceiveTask
  BY <1>1, IdleStep DEF ReceiveTask
<1>2. ASSUME NEW j \in Job, ReceiveJob(j) PROVE RetryInv'
  BY <1>2, <1>die, StartRetries DEF ReceiveJob
<1>3. ASSUME NEW j \in Job, JobTimeout(j) PROVE RetryInv'
  <2>1. timer' = SetTimer(NoTimer, j) \/ timer' = timer
    BY <1>3 DEF JobTimeout, Stop
  <2>2. NoTimer.p = "none"
    BY DEF NoTimer
  <2>3. \A x \in Txn : timer'[x] = NoTimer \/ timer'[x] = timer[x]
    BY <2>1 DEF SetTimer
  <2>4. UNCHANGED <<asks, txnState>>
    BY <1>3 DEF JobTimeout
  <2> QED BY <2>2, <2>3, <2>4, IdleStep
<1>4. ASSUME NEW j \in Job, Expire(j) PROVE RetryInv'
  BY <1>4, IdleStep DEF Expire
<1>5. ASSUME NEW m \in Timeouts, IgnoreTimeout(m) PROVE RetryInv'
  BY <1>5, IdleStep DEF IgnoreTimeout
<1>6. ASSUME NEW m \in answers, NilJob(m) PROVE RetryInv'
  BY <1>6, <1>die DEF NilJob
<1>7. CASE TaskClear
  BY <1>7, IdleStep DEF TaskClear
<1>8. ASSUME NEW m \in answers \cup Timeouts, Reload(m) PROVE RetryInv'
  <2>1. CASE Unfinished # {}
    <3>1. Start(Min(Unfinished), ExpiredLess(m), DueLess(m))
      BY <1>8, <2>1, ZenonT(30) DEF Reload
    <3> QED BY <3>1, StartRetries
  <2>2. CASE Unfinished = {}
    BY <1>8, <2>2, IdleStep DEF Reload
  <2> QED BY <2>1, <2>2
<1>9. ASSUME NEW s \in saves, Marshal(s) \/ UpdateTask(s) PROVE RetryInv'
  BY <1>9, IdleStep, Zenon DEF Marshal, UpdateTask
<1>10. CASE UNCHANGED vars
  BY <1>10, IdleStep, Zenon DEF vars
<1>11. ASSUME NEW x \in Txn, ReceiveConfirmed(x) PROVE RetryInv'
  <2> DEFINE j == JobOf(x)
  <2>1. JoinConfirmed(x, j)
    BY <1>11 DEF ReceiveConfirmed
  <2> HIDE DEF j
  <2>2. CASE CloseTimer(x) /\ asks' = asks
             /\ txnState' \in {txnState, [txnState EXCEPT ![x] = "CONFIRMED"]}
    <3>1. \A y \in Txn : y # x => txnState'[y] = txnState[y]
      BY <2>2 DEF TypeOK
    <3> QED BY <3>1, <2>2, CloseRetries
  <2>3. CASE /\ txnState' = SetState("CONFIRMED", j)
             /\ timer' = SetTimer(Timer("finish"), j)
             /\ asks' = asks \cup Mails("CONFIRMED", j)
    <3>1. "CONFIRMED" \in Decided
      BY DEF Decided
    <3> QED BY <3>1, <2>3, DecideRetries
  <2> QED BY <2>1, <2>2, <2>3, ZenonT(60) DEF JoinConfirmed
<1>12. ASSUME NEW x \in Txn, ReceiveCanceled(x) PROVE RetryInv'
  <2>1. "CANCELED" \in Decided
    BY DEF Decided
  <2> QED BY <2>1, <1>12, DecideRetries DEF ReceiveCanceled
<1>13. ASSUME NEW x \in Txn, ReceiveFinished(x) PROVE RetryInv'
  <2>1. CloseTimer(x) /\ asks' = asks
        /\ txnState' \in {txnState, [txnState EXCEPT ![x] = "FINISHED"]}
    BY <1>13, ZenonT(60) DEF ReceiveFinished, JoinFinished
  <2>2. \A y \in Txn : y # x => txnState'[y] = txnState[y]
    BY <2>1 DEF TypeOK
  <2> QED BY <2>1, <2>2, CloseRetries
<1>14. ASSUME NEW x \in Txn, TransactionTimeout(x) PROVE RetryInv'
  BY <1>14, TimeoutRetries
<1>15. ASSUME NEW a \in asks, Execute(a) PROVE RetryInv'
  BY <1>15, IdleStep DEF Execute
<1>16. ASSUME NEW x \in Txn, Fire(x) PROVE RetryInv'
  BY <1>16, IdleStep DEF Fire
<1> QED
  BY <1>1, <1>2, <1>3, <1>4, <1>5, <1>6, <1>7, <1>8, <1>9, <1>10, <1>11,
     <1>12, <1>13, <1>14, <1>15, <1>16, <1>die DEF Next, Restart

(* For every task and any bounds: no participant is asked in a state that  *)
(* no handler supports, whatever retry timers are lost or already posted.  *)
THEOREM RetriesAreSupported == Spec => []FinishedIsNotRetried
<1>1. Init => RetryInv
  <2> SUFFICES ASSUME Init PROVE RetryInv
    OBVIOUS
  <2>1. FinishedIsNotRetried
    BY DEF Init, FinishedIsNotRetried
  <2>2. \A x \in Txn : timer[x].p # "finish"
    BY DEF Init, NoTimer
  <2> QED BY <2>1, <2>2 DEF RetryInv, FinishTimers
<1>2. Spec => [](TypeOK /\ RetryInv)
  BY <1>1, TypeInit, TypeNext, RetryNext, PTL DEF Spec
<1>3. RetryInv => FinishedIsNotRetried
  BY DEF RetryInv
<1> QED BY <1>2, <1>3, PTL
=============================================================================
