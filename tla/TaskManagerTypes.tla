-------------------------- MODULE TaskManagerTypes --------------------------
(***************************************************************************)
(* Type correctness of TaskManager, for any task and any bounds.           *)
(***************************************************************************)
EXTENDS TaskManager, FiniteSetTheorems, TLAPS

USE DEF First, Ended, Register, ResetJoin, ArmJobTimer, CloseJobTimer,
        FirstConfirmed, FirstFinished, PastPending

(* Min of a set of naturals that is not empty is its least element. *)
LEMMA MinIsLeast ==
    ASSUME NEW S \in SUBSET Nat, S # {}
    PROVE  Min(S) \in S /\ \A y \in S : Min(S) <= y
<1> DEFINE T == {1..k : k \in S}
<1>0. \A k \in S : IsFiniteSet(1..k) /\ 1..k \in SUBSET Nat
  BY FS_Interval
<1>1. T # {} /\ T \subseteq FiniteSubsetsOf(Nat)
  <2>1. T # {} BY Zenon
  <2>2. \A k \in S : 1..k \in FiniteSubsetsOf(Nat)
    BY <1>0, Zenon DEF FiniteSubsetsOf
  <2> QED BY <2>1, <2>2, Zenon
<1>2. \E u \in T : \A w \in T : ~(<<w, u>> \in StrictSubsetOrdering(Nat))
  <2> HIDE DEF T
  <2> QED BY <1>1, FS_StrictSubsetOrderingWellFounded, WFMin, Zenon
<1>3. PICK x \in S : \A y \in S : ~(<<1..y, 1..x>> \in StrictSubsetOrdering(Nat))
  BY <1>2, Zenon
<1>4. \A y \in S : x <= y
  <2> SUFFICES ASSUME NEW y \in S, y < x PROVE FALSE
    OBVIOUS
  <2>1. 1..y \subseteq 1..x /\ x \in 1..x /\ x \notin 1..y
    OBVIOUS
  <2> DEFINE p == <<1..y, 1..x>>
  <2>3. p[1] = 1..y /\ p[2] = 1..x /\ p \in (SUBSET Nat) \X (SUBSET Nat) 
    BY <1>0
  <2>4. p[1] \subseteq p[2] /\ p[1] # p[2]
    BY <2>1, <2>3, Zenon
  <2>5. p \in StrictSubsetOrdering(Nat)
    <3> HIDE DEF p
    <3> QED BY <2>3, <2>4, Zenon DEF StrictSubsetOrdering
  <2> QED BY <2>5, <1>3, Zenon
<1> QED BY <1>4, Zenon DEF Min

(* The next job to run (finished, reload) is a job of the task. *)
LEMMA MinOfJobs ==
    ASSUME NEW S \in SUBSET Job, S # {}
    PROVE  Min(S) \in S /\ Min(S) \in Job
<1>1. S \in SUBSET Nat
  BY Shape DEF Job
<1> QED BY <1>1, MinIsLeast, Zenon

(* Every transaction belongs to exactly one job. *)
LEMMA JobOfTxn ==
    ASSUME NEW x \in Txn
    PROVE  /\ JobOf(x) \in Job
           /\ x \in Txns[JobOf(x)]
           /\ \A j \in Job : x \in Txns[j] => j = JobOf(x)
<1>1. \E j \in Job : x \in Txns[j]
  BY Zenon DEF Txn
<1>2. JobOf(x) \in Job /\ x \in Txns[JobOf(x)]
  BY <1>1, Zenon DEF JobOf
<1>3. \A j \in Job : x \in Txns[j] => j = JobOf(x)
  BY <1>2, Shape
<1> QED BY <1>2, <1>3, Zenon

(* The transactions of a job are transactions. *)
LEMMA TxnsAreTxn == \A j \in Job : Txns[j] \subseteq Txn
  BY Zenon DEF Txn

(* The updates of many transactions at once, and the mails, have their type. *)
LEMMA SharedTypes ==
    ASSUME TypeOK, NEW j \in Job
    PROVE  /\ \A s \in TxnState : SetState(s, j) \in [Txn -> TxnState]
           /\ \A s \in TxnState : Mails(s, j) \subseteq Ask
           /\ \A p \in {"none", "reserve", "finish"} :
                  SetTimer(Timer(p), j) \in [Txn -> TimerEntry]
           /\ SetTimer(NoTimer, j) \in [Txn -> TimerEntry]
<1>1. \A s \in TxnState : SetState(s, j) \in [Txn -> TxnState]
  BY DEF SetState, TypeOK
<1>2. \A s \in TxnState : Mails(s, j) \subseteq Ask
  BY TxnsAreTxn DEF Mails, Meta, Ask
<1>3. \A p \in {"none", "reserve", "finish"} :
         Timer(p) \in TimerEntry
  BY Bounds DEF Timer, TimerEntry
<1>4. \A tm \in TimerEntry :
         SetTimer(tm, j) \in [Txn -> TimerEntry]
  BY DEF SetTimer, TypeOK
<1>5. NoTimer \in TimerEntry
  BY DEF NoTimer, TimerEntry
<1> QED BY <1>1, <1>2, <1>3, <1>4, <1>5, Zenon

(* The timeouts on their way are counted, also when a timer is lost. *)
LEMMA LoseType ==
    ASSUME NEW X, NEW d \in [Txn -> Nat]
    PROVE  Lose(X, d) \in [Txn -> Nat]
  BY DEF Lose

(* Receiving a timeout leaves the counts natural. *)
LEMMA LessTypes ==
    ASSUME TypeOK, NEW m, m.state = "TRANSACTION_TIMEOUT" => m.id \in Txn /\ due[m.id] > 0
    PROVE  ExpiredLess(m) \in SUBSET Job /\ DueLess(m) \in [Txn -> Nat]
<1>1. ExpiredLess(m) \in SUBSET Job
  BY DEF TypeOK, ExpiredLess
<1>2. DueLess(m) \in [Txn -> Nat]
  BY DEF TypeOK, DueLess
<1> QED BY <1>1, <1>2

(* A timeout in the channel is one of a transaction or of a job, and an    *)
(* answer is neither.                                                      *)
LEMMA ReceivedMeta ==
    ASSUME TypeOK, NEW m \in answers \cup Timeouts, m \in answers \/ Waiting(m)
    PROVE  /\ m \in Inbox
           /\ m.state = "TRANSACTION_TIMEOUT" => m.id \in Txn /\ due[m.id] > 0
<1>1. CASE m \in answers
  <2>1. m \in Answer
    BY <1>1 DEF TypeOK
  <2> QED BY <2>1 DEF Answer, AnswerState, Inbox
<1>2. CASE m \in Timeouts /\ Waiting(m)
  <2>1. m \in Inbox /\ (m.state = "TRANSACTION_TIMEOUT" => m.id \in Txn)
    BY <1>2 DEF Timeouts, Meta, Inbox
  <2>2. m.state = "TRANSACTION_TIMEOUT" => due[m.id] > 0
    BY <1>2 DEF Waiting
  <2> QED BY <2>1, <2>2
<1> QED BY <1>1, <1>2

(* The records the handlers build have their type. *)
LEMMA RecordTypes ==
    /\ NoMeta \in Inbox /\ NoTimer \in TimerEntry /\ Exhausted \in TimerEntry
    /\ \A p \in {"none", "reserve", "finish"} : Timer(p) \in TimerEntry
    /\ \A s \in AnswerState, x \in Txn : Meta(s, x) \in Answer
    /\ \A s \in TxnState, x \in Txn : Meta(s, x) \in Ask
  BY Bounds DEF NoMeta, Inbox, NoTimer, Exhausted, Timer, TimerEntry, Meta,
                Answer, Ask

(* A save is well typed. *)
LEMMA SaveType ==
    ASSUME TypeOK, NEW t \in {"OPEN", "FINISHED"}, NEW js \in [Job -> JobState],
           NEW c \in BOOLEAN
    PROVE  Save(t, js, c) \in Saving
  BY DEF TypeOK, Save, Saving

(* The initial state is well typed. *)
LEMMA TypeInit == Init => TypeOK
<1> SUFFICES ASSUME Init PROVE TypeOK
  OBVIOUS
<1>1. saved \in Snapshot /\ jobState \in [Job -> JobState]
  BY DEF Init, Snapshot, JobState
<1>2. timer \in [Txn -> TimerEntry] /\ inbox \in Inbox
  BY RecordTypes DEF Init
<1>3. txnState \in [Txn -> TxnState] /\ cur \in 1..(N + 1)
  BY Shape DEF Init, TxnState
<1>4. armed \subseteq Txn /\ due \in [Txn -> Nat]
  BY DEF Init
<1> QED BY <1>1, <1>2, <1>3, <1>4, Zenon DEF Init, TypeOK

(* Every action keeps the types, action by action. *)
LEMMA TypeNext == TypeOK /\ [Next]_vars => TypeOK'
<1> SUFFICES ASSUME TypeOK, [Next]_vars PROVE TypeOK'
  OBVIOUS
<1> USE DEF taskVars, jobVars, txnVars, chanVars, diskVars
<1>n. 1 \in Job /\ N + 1 \in 1..(N + 1) /\ \A j \in Job : j \in 1..(N + 1)
  BY Shape DEF Job
<1>j. \A j \in Job, s \in JobState : [jobState EXCEPT ![j] = s] \in [Job -> JobState]
  BY DEF TypeOK
<1>s. {"JOB_TIMEOUT", "FINISHED"} \subseteq JobState
      /\ {"RESERVING", "CONFIRMED", "CANCELED", "FINISHED"} \subseteq TxnState
  BY DEF JobState, TxnState
<1>1. CASE ReceiveTask
  <2> DEFINE js == [jobState EXCEPT ![1] = "JOB_TIMEOUT"]
  <2>1. js \in [Job -> JobState] /\ Save("OPEN", js, FALSE) \in Saving
    BY <1>n, <1>j, <1>s, SaveType, Zenon
  <2> HIDE DEF js
  <2>2. Schedule(1, js) /\ UNCHANGED <<tjs, joined, jobCanceled, txnVars, jobTimers, expired,
                   clears, inbox, saved, published, reloads, restarts, asks,
                   answers>>
    BY <1>1 DEF ReceiveTask, js
  <2> QED BY <1>1, <2>1, <2>2, <1>n, ZenonT(30) DEF ReceiveTask, Schedule, TypeOK
<1>die. ASSUME Die PROVE TypeOK'
  <2>1. timer' \in [Txn -> TimerEntry] /\ inbox' \in Inbox
    BY <1>die, RecordTypes DEF Die
  <2>2. restarts' \in Nat /\ due' \in [Txn -> Nat] /\ joined' \in [Job -> Nat]
    BY <1>die DEF Die, TypeOK
  <2>3. jobState' \in [Job -> JobState] /\ txnState' \in [Txn -> TxnState]
        /\ jobCanceled' \in [Job -> BOOLEAN] /\ cur' \in 1..(N + 1)
    BY <1>die, <1>n DEF Die, JobState, TxnState
  <2> QED BY <2>1, <2>2, <2>3, <1>die, Zenon DEF Die, TypeOK
<1>start. ASSUME NEW j \in Job, NEW ex \in SUBSET Job, NEW du \in [Txn -> Nat],
                 Start(j, ex, du)
          PROVE  /\ tjs' \subseteq Job /\ joined' \in [Job -> Nat]
                 /\ jobCanceled' \in [Job -> BOOLEAN]
                 /\ confirmed' \subseteq Txn /\ finished' \subseteq Txn
                 /\ txnState' \in [Txn -> TxnState]
                 /\ timer' \in [Txn -> TimerEntry]
                 /\ armed' \subseteq Txn /\ due' \in [Txn -> Nat]
                 /\ jobTimers' \subseteq Job /\ expired' \subseteq Job
                 /\ asks' \subseteq Ask
  <2>1. txnState' \in [Txn -> TxnState] /\ timer' \in [Txn -> TimerEntry]
    BY <1>start, SharedTypes, <1>s, Zenon DEF Start
  <2>2. asks' \subseteq Ask
    <3>1. Mails("RESERVING", j) \subseteq Ask
      BY SharedTypes, <1>s, Zenon
    <3> QED BY <3>1, <1>start DEF Start, TypeOK
  <2>3. armed' \subseteq Txn /\ due' \in [Txn -> Nat]
    BY <1>start, TxnsAreTxn, LoseType, Zenon DEF Start, TypeOK
  <2> QED BY <2>1, <2>2, <2>3, <1>start DEF Start, TypeOK
<1>2. ASSUME NEW j \in Job, ReceiveJob(j) PROVE TypeOK'
  <2>1. CASE loaded /\ Start(j, expired, due)
    <3>1. expired \in SUBSET Job /\ due \in [Txn -> Nat]
      BY DEF TypeOK
    <3> QED BY <2>1, <1>2, <1>start, <3>1 DEF ReceiveJob, TypeOK
  <2> QED BY <2>1, <1>2, <1>die DEF ReceiveJob
<1>end. ASSUME NEW js \in [Job -> JobState], End(js)
        PROVE  /\ taskState' \in {"OPEN", "FINISHED"}
               /\ jobState' \in [Job -> JobState]
               /\ saves' \subseteq Saving /\ published' \in Nat
  <2>1. Save("FINISHED", js, TRUE) \in Saving
    BY SaveType, Zenon
  <2>2. published' \in Nat
    BY <1>end DEF End, TypeOK
  <2>3. saves' \subseteq Saving
    BY <2>1, <1>end, Zenon DEF End, TypeOK
  <2> QED BY <2>2, <2>3, <1>end, Zenon DEF End
<1>3. ASSUME NEW j \in Job, JobTimeout(j) PROVE TypeOK'
  <2>1. inbox' \in Inbox
    BY <1>3, RecordTypes DEF JobTimeout
  <2>2. ASSUME Stop(j) PROVE /\ taskState' \in {"OPEN", "FINISHED"}
               /\ canceled' \in BOOLEAN
               /\ jobState' \in [Job -> JobState]
               /\ jobCanceled' \in [Job -> BOOLEAN]
               /\ timer' \in [Txn -> TimerEntry] /\ armed' \subseteq Txn
               /\ saves' \subseteq Saving /\ published' \in Nat
    <3>1. timer' \in [Txn -> TimerEntry] /\ armed' \subseteq Txn
      BY <2>2, SharedTypes, Zenon DEF Stop, TypeOK
    <3> DEFINE js == IF HasValidator THEN [jobState EXCEPT ![1] = "FINISHED"]
                           ELSE jobState
    <3>2. js \in [Job -> JobState]
      BY <1>n, <1>j, <1>s DEF TypeOK
    <3>3. End(js)
      BY <2>2 DEF Stop
    <3> HIDE DEF js
    <3>4. jobCanceled' \in [Job -> BOOLEAN] /\ canceled' \in BOOLEAN
      BY <2>2 DEF Stop, TypeOK
    <3> QED BY <3>1, <3>2, <3>3, <3>4, <1>end
  <2>3. CASE Stop(j)
    BY <2>3, <2>1, <2>2, <1>3 DEF JobTimeout, TypeOK
  <2> QED BY <2>3, <2>1, <1>3 DEF JobTimeout, TypeOK
<1>4. ASSUME NEW j \in Job, Expire(j) PROVE TypeOK'
  BY <1>4 DEF Expire, TypeOK
<1>5. ASSUME NEW m \in Timeouts, IgnoreTimeout(m) PROVE TypeOK'
  <2>1. ExpiredLess(m) \in SUBSET Job /\ DueLess(m) \in [Txn -> Nat]
    BY <1>5, ReceivedMeta, LessTypes DEF IgnoreTimeout
  <2> QED BY <2>1, <1>5, Zenon DEF IgnoreTimeout, TypeOK
<1>6. ASSUME NEW x \in Txn, ReceiveConfirmed(x) PROVE TypeOK'
  <2> DEFINE j == JobOf(x)
  <2>1. j \in Job /\ inbox' \in Inbox /\ JoinConfirmed(x, j)
    BY <1>6, JobOfTxn, RecordTypes, Zenon DEF ReceiveConfirmed
  <2> HIDE DEF j
  <2>2. SetState("CONFIRMED", j) \in [Txn -> TxnState]
        /\ SetTimer(Timer("finish"), j) \in [Txn -> TimerEntry]
        /\ Mails("CONFIRMED", j) \subseteq Ask
    BY <2>1, SharedTypes, <1>s, Zenon
  <2>3. [timer EXCEPT ![x] = NoTimer] \in [Txn -> TimerEntry]
        /\ [txnState EXCEPT ![x] = "CONFIRMED"] \in [Txn -> TxnState]
    BY RecordTypes, <1>s DEF TypeOK
  <2>4. timer' \in [Txn -> TimerEntry] /\ txnState' \in [Txn -> TxnState]
        /\ asks' \subseteq Ask
    <3>1. asks' \subseteq Ask
      BY <2>1, <2>2, <2>3 DEF JoinConfirmed, TypeOK
    <3>2. timer' = [timer EXCEPT ![x] = NoTimer] \/ timer' = SetTimer(Timer("finish"), j)
      BY <2>1, Zenon DEF JoinConfirmed, CloseTimer
    <3>3. timer' \in [Txn -> TimerEntry]
      BY <3>2, <2>2, <2>3, RecordTypes DEF TypeOK
    <3>4. txnState' \in [Txn -> TxnState]
      BY <2>1, <2>2, <2>3 DEF JoinConfirmed, TypeOK
    <3> QED BY <3>1, <3>3, <3>4
  <2>6. armed' \subseteq Txn /\ due' \in [Txn -> Nat]
    <3>1. armed' = armed \ {x} \/ armed' = armed \cup Txns[j]
      BY <2>1, Zenon DEF JoinConfirmed, CloseTimer
    <3>2. due' = due \/ due' = Lose(Txns[j] \ {x}, due)
      BY <2>1, Zenon DEF JoinConfirmed
    <3>3. due \in [Txn -> Nat] /\ armed \subseteq Txn
      BY DEF TypeOK
    <3>4. Lose(Txns[j] \ {x}, due) \in [Txn -> Nat]
      BY <3>3, LoseType
    <3> QED BY <3>1, <3>2, <3>3, <3>4, <2>1, TxnsAreTxn, Zenon
  <2>5. joined' \in [Job -> Nat] /\ confirmed' \subseteq Txn
    <3>1. \/ joined' = joined
          \/ joined' = [joined EXCEPT ![j] = @ + 1]
          \/ joined' = [joined EXCEPT ![j] = 0]
      BY <2>1, Zenon DEF JoinConfirmed
    <3>2. joined' \in [Job -> Nat]
      BY <3>1 DEF TypeOK
    <3>3. confirmed' = confirmed \/ confirmed' = confirmed \cup {x}
      BY <2>1, Zenon DEF JoinConfirmed
    <3>4. confirmed' \subseteq Txn
      BY <3>3 DEF TypeOK
    <3> QED BY <3>2, <3>4
  <2>7. UNCHANGED <<tjs, jobState, jobCanceled, finished>>
    BY <2>1, Zenon DEF JoinConfirmed
  <2>8. UNCHANGED <<taskVars, jobTimers, expired, clears, jobs, diskVars, answers>>
    BY <1>6, Zenon DEF ReceiveConfirmed
  <2> QED BY <2>1, <2>4, <2>5, <2>6, <2>7, <2>8, ZenonT(60) DEF TypeOK, taskVars, diskVars
<1>7. ASSUME NEW x \in Txn, ReceiveCanceled(x) PROVE TypeOK'
  <2>1. JobOf(x) \in Job /\ inbox' \in Inbox
    BY <1>7, JobOfTxn, RecordTypes DEF ReceiveCanceled
  <2>2. SetState("CANCELED", JobOf(x)) \in [Txn -> TxnState]
        /\ SetTimer(Timer("finish"), JobOf(x)) \in [Txn -> TimerEntry]
        /\ Mails("CANCELED", JobOf(x)) \subseteq Ask
    BY <2>1, SharedTypes, <1>s, Zenon
  <2>3. armed' \subseteq Txn
    BY <1>7, <2>1, TxnsAreTxn, Zenon DEF ReceiveCanceled, TypeOK
  <2> QED BY <2>1, <2>2, <2>3, <1>n, <1>7 DEF ReceiveCanceled, TypeOK
<1>8. ASSUME NEW x \in Txn, ReceiveFinished(x) PROVE TypeOK'
  <2> DEFINE j == JobOf(x)
  <2>1. j \in Job /\ inbox' \in Inbox /\ JoinFinished(x, j)
    BY <1>8, JobOfTxn, RecordTypes DEF ReceiveFinished
  <2> HIDE DEF j
  <2>2. timer' \in [Txn -> TimerEntry] /\ txnState' \in [Txn -> TxnState]
        /\ armed' \subseteq Txn
    BY <2>1, RecordTypes, <1>s DEF JoinFinished, CloseTimer, TypeOK
  <2>3. joined' \in [Job -> Nat] /\ finished' \subseteq Txn
    BY <2>1 DEF JoinFinished, TypeOK
  <2>4. ASSUME Finished(j)
        PROVE  /\ jobTimers' \subseteq Job /\ cur' \in 1..(N + 1)
               /\ jobState' \in [Job -> JobState] /\ jobs' \subseteq Job
               /\ taskState' \in {"OPEN", "FINISHED"}
               /\ saves' \subseteq Saving /\ published' \in Nat
    <3>0. jobTimers' \subseteq Job
      BY <2>4 DEF Finished, TypeOK
    <3>1. CASE Later # {}
      <4> DEFINE k == Min(Later)
                 js == [jobState EXCEPT ![j] = "FINISHED", ![k] = "JOB_TIMEOUT"]
      <4>1. Later \in SUBSET Job
        BY DEF Later, TypeOK
      <4>2. k \in Job
        BY <4>1, <3>1, MinOfJobs, Zenon
      <4>3. cur' = k /\ Schedule(k, js) /\ UNCHANGED <<taskState, published>>
        BY <2>4, <3>1 DEF Finished, Advance
      <4> HIDE DEF k
      <4>4. js \in [Job -> JobState]
        BY <2>1, <4>2, <1>s DEF TypeOK
      <4> HIDE DEF js
      <4>5. Save("OPEN", js, FALSE) \in Saving
        BY <4>4, SaveType, Zenon
      <4> QED BY <3>0, <4>2, <4>3, <4>4, <4>5, <1>n, Zenon DEF Schedule, TypeOK
    <3>2. CASE Later = {}
      <4>1. [jobState EXCEPT ![j] = "FINISHED"] \in [Job -> JobState]
        BY <2>1, <1>j, <1>s
      <4>2. End([jobState EXCEPT ![j] = "FINISHED"]) /\ UNCHANGED <<cur, jobs>>
        BY <2>4, <3>2 DEF Finished
      <4> QED BY <3>0, <4>1, <4>2, <1>end, Zenon DEF TypeOK
    <3> QED BY <3>1, <3>2
  <2>5. CASE Finished(j)
    BY <2>5, <2>1, <2>2, <2>3, <2>4, <1>8, SMTT(30) DEF ReceiveFinished, TypeOK
  <2>6. CASE UNCHANGED <<taskState, cur, jobState, jobTimers, jobs, saves, published>>
    BY <2>6, <2>1, <2>2, <2>3, <1>8 DEF ReceiveFinished, TypeOK
  <2>7. Finished(j) \/ UNCHANGED <<taskState, cur, jobState, jobTimers, jobs, saves, published>>
    BY <2>1, ZenonT(60) DEF JoinFinished
  <2> QED BY <2>5, <2>6, <2>7, Zenon
<1>9. ASSUME NEW x \in Txn, TransactionTimeout(x) PROVE TypeOK'
  <2>1. inbox' \in Inbox
    BY <1>9, RecordTypes DEF TransactionTimeout
  <2>2. timer' \in [Txn -> TimerEntry]
    BY <1>9, RecordTypes DEF TransactionTimeout, TypeOK, TimerEntry
  <2>3. asks' \subseteq Ask
    BY <1>9, RecordTypes, <1>s DEF TransactionTimeout, TypeOK
  <2>4. armed' \subseteq Txn
    BY <1>9 DEF TransactionTimeout, TypeOK
  <2>5. due' \in [Txn -> Nat]
    <3> DEFINE m == Meta("TRANSACTION_TIMEOUT", x)
               rest == IF inbox = m THEN due ELSE [due EXCEPT ![x] = @ - 1]
    <3>1. inbox = m \/ due[x] > 0
      BY <1>9 DEF TransactionTimeout
    <3>2. rest \in [Txn -> Nat]
      BY <3>1 DEF TypeOK
    <3>3. due' = rest \/ due' = Lose({x}, rest)
      BY <1>9 DEF TransactionTimeout
    <3> HIDE DEF rest
    <3> QED BY <3>2, <3>3, LoseType
  <2> QED BY <2>1, <2>2, <2>3, <2>4, <2>5, <1>9 DEF TransactionTimeout, TypeOK
<1>17. ASSUME NEW x \in Txn, Fire(x) PROVE TypeOK'
  <2>1. armed' \subseteq Txn /\ due' \in [Txn -> Nat]
    BY <1>17 DEF Fire, TypeOK
  <2> QED BY <2>1, <1>17, Zenon DEF Fire, TypeOK
<1>10. ASSUME NEW m \in answers, NilJob(m) PROVE TypeOK'
  BY <1>10, <1>die DEF NilJob
<1>11. CASE TaskClear
  BY <1>11, Zenon DEF TaskClear, TypeOK
<1>12. ASSUME NEW m \in answers \cup Timeouts, Reload(m) PROVE TypeOK'
  <2>0. reloads' \in Nat
    BY <1>12 DEF Reload, TypeOK
  <2>1. m \in Inbox /\ ExpiredLess(m) \in SUBSET Job /\ DueLess(m) \in [Txn -> Nat]
    BY <1>12, ReceivedMeta, LessTypes DEF Reload
  <2>2. saved.jobs \in [Job -> JobState] /\ Unfinished \in SUBSET Job
    BY DEF TypeOK, Snapshot, Unfinished
  <2>3. CASE Unfinished # {}
    <3> DEFINE j  == Min(Unfinished)
               js == [saved.jobs EXCEPT ![j] = "JOB_TIMEOUT"]
               sv == [Save("OPEN", js, FALSE) EXCEPT !.load = @ + 1]
    <3>1. j \in Job
      BY <2>2, <2>3, MinOfJobs, Zenon
    <3>2. /\ cur' = j /\ jobState' = js /\ saves' = saves \cup {sv}
          /\ Start(j, ExpiredLess(m), DueLess(m)) /\ inbox' = m
      BY <1>12, <2>3, Zenon DEF Reload
    <3> HIDE DEF j
    <3>3. js \in [Job -> JobState]
      BY <2>2, <3>1, <1>s
    <3> HIDE DEF js
    <3>4. sv \in Saving
      <4>1. Save("OPEN", js, FALSE) \in Saving
        BY <3>3, SaveType, Zenon
      <4>2. \A w \in Saving : [w EXCEPT !.load = @ + 1] \in Saving
        BY DEF Saving
      <4> QED BY <4>1, <4>2, Zenon
    <3> HIDE DEF sv
    <3>5. saves' \subseteq Saving
      BY <3>2, <3>4 DEF TypeOK
    <3> QED BY <2>0, <2>1, <2>2, <3>1, <3>2, <3>3, <3>5, <1>start, <1>n, <1>12
           , Zenon DEF Reload, TypeOK
  <2>4. CASE Unfinished = {}
    BY <2>0, <2>1, <2>2, <2>4, <1>n, <1>12, ZenonT(30) DEF Reload, TypeOK
  <2> QED BY <2>3, <2>4
<1>13. ASSUME NEW s \in saves, Marshal(s) PROVE TypeOK'
  <2>1. \A t \in {s.task, taskState} : Save(t, jobState, s.clear) \in Saving
    BY DEF Save, Saving, TypeOK
  <2> QED BY <2>1, <1>13 DEF Marshal, TypeOK
<1>14. ASSUME NEW s \in saves, UpdateTask(s) PROVE TypeOK'
  <2>1. saved' \in Snapshot
    BY <1>14 DEF UpdateTask, TypeOK, Snapshot, Saving
  <2>2. clears' \in BOOLEAN
    BY <1>14, ZenonT(30) DEF UpdateTask, TypeOK
  <2> QED BY <2>1, <2>2, <1>14 DEF UpdateTask, TypeOK
<1>15. ASSUME NEW a \in asks, Execute(a) PROVE TypeOK'
  <2>1. a.id \in Txn
    BY DEF TypeOK, Ask
  <2>2. answers' \subseteq Answer
    BY <1>15, <2>1, RecordTypes DEF Execute, TypeOK, Succeeds, AnswerState
  <2> QED BY <2>2, <1>15 DEF Execute, TypeOK
<1>16. CASE UNCHANGED vars
  BY <1>16 DEF vars, TypeOK
<1> QED
  BY <1>1, <1>2, <1>3, <1>4, <1>5, <1>6, <1>7, <1>8, <1>9, <1>10, <1>11,
     <1>12, <1>13, <1>14, <1>15, <1>16, <1>17, <1>die DEF Next, Restart

(* Every state of the coordinator has the types of TypeOK. *)
THEOREM TypeCorrect == Spec => []TypeOK
  BY TypeInit, TypeNext, PTL DEF Spec
=============================================================================
