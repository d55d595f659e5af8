----------------------------- MODULE TaskManager -----------------------------
(***************************************************************************)
(* The Try-Confirm-Cancel coordinator of one task: TaskManager.Wait and    *)
(* the handlers it dispatches to (task_manager.go, job_resource.go), its   *)
(* saves and reloads (transaction_service_provider.go), and the executors  *)
(* that answer it (ClusterManager.handleTranstion).                        *)
(*                                                                         *)
(* Tasks share nothing but the channels of the manager, so one task is     *)
(* modelled; what the traffic of other tasks can do to it, fill a channel  *)
(* so that a non-blocking send drops, is the constant Congested.           *)
(*                                                                         *)
(* Network.  asks and answers hold every mail ever sent.  A mail may be    *)
(* received any number of times, in any order, or never: AskReserve is     *)
(* dispatched again after an error that may hide a delivery, both asks are *)
(* retried by timers, and every mail travels in a goroutine of its own.    *)
(***************************************************************************)
EXTENDS Integers, FiniteSets, FiniteSetsExt

CONSTANTS
    N,              \* jobs of the task: the validator, if any, then Task.Jobs
    Txns,           \* Txns[j]: the transactions of job j
    HasValidator,   \* whether job 1 is the validator
    Retries,        \* Meta.Retries of the transactions (TCC_RETRY_MAX)
    Congested,      \* whether the channels updates and jobs may be found full
    MaxFailures,    \* bound on the transactions whose executor fails
    MaxDue,         \* bound on the fired retry timers of one transaction
    MaxReloads,     \* bound on reloads of the task
    MaxRestarts     \* bound on restarts of the process

Job == 1..N

Txn == UNION {Txns[j] : j \in Job}

ASSUME Shape ==
    /\ N \in Nat \ {0}
    /\ Txns \in [Job -> SUBSET Txn]
    /\ \A j \in Job : IsFiniteSet(Txns[j])
    /\ \A i, j \in Job : i # j => Txns[i] \cap Txns[j] = {}

ASSUME Bounds ==
    /\ HasValidator \in BOOLEAN
    /\ Congested \in BOOLEAN
    /\ Retries \in Nat
    /\ MaxFailures \in Nat
    /\ MaxDue \in Nat
    /\ MaxReloads \in Nat
    /\ MaxRestarts \in Nat

JobOf(x) == CHOOSE j \in Job : x \in Txns[j]

VARIABLES
    tasks,          \* the task waits in the channel tasks
    loaded,         \* the task is in trs
    taskState,      \* Task.Meta.State: OPEN or FINISHED
    canceled,       \* TaskResource.canceled
    pending,        \* TaskResource.pending, as the set of its jobs
    cur,            \* pending[jobIndex]; N + 1 when jobIndex = len(pending)
    tjs,            \* the jobs with a JobResource
    jobState,       \* Job.Meta.State
    joined,         \* JobResource.confirmed, the count of the current join
    jobCanceled,    \* JobResource.canceled
    confirmed,      \* transactions with TransactionResource.confirmed > 0
    finished,       \* transactions with TransactionResource.finished > 0
    txnState,       \* Transaction.Meta.State
    timer,          \* tms at the transactions: what a retry does, and its budget
    armed,          \* transactions whose entry of tms has a running time.Timer
    due,            \* TRANSACTION_TIMEOUTs that nothing can stop any more: they
                    \* wait in updates, or their time.Timer has lost its entry
    jobTimers,      \* jobs whose timer runs
    expired,        \* jobs with such a JOB_TIMEOUT
    clears,         \* TASK_CLEAR waits in the channel updates
    jobs,           \* the channel jobs
    inbox,          \* the meta whose arrival reloaded the task
    saves,          \* updateTask goroutines: the bytes they are about to write
    saved,          \* the task in the data store
    asks,           \* AskReserve and AskFinish mails ever sent
    answers,        \* Confirmed, Canceled and Finished metas ever sent
    published,      \* task events published
    reloads, restarts

taskVars == <<tasks, loaded, taskState, canceled, pending, cur>>
jobVars  == <<tjs, jobState, joined, jobCanceled>>
txnVars  == <<confirmed, finished, txnState, timer, armed, due>>
chanVars == <<jobTimers, expired, clears, jobs, inbox>>
diskVars == <<saves, saved, published, reloads, restarts>>
vars == <<taskVars, jobVars, txnVars, chanVars, diskVars, asks, answers>>

TxnState == {"NEW", "RESERVING", "CONFIRMED", "CANCELED", "FINISHED"}
JobState == {"NEW", "JOB_TIMEOUT", "FINISHED"}
AnswerState == {"CONFIRMED", "CANCELED", "FINISHED"}

(* A Meta on the channel updates.  id is a transaction, or a job for a     *)
(* JOB_TIMEOUT; TaskId and JobId follow from it.                           *)
Meta(s, i) == [state |-> s, id |-> i]
NoMeta == Meta("NONE", 0)

Ask == [state : TxnState, id : Txn]
Answer == [state : AnswerState, id : Txn]
Inbox == [state : AnswerState \cup {"TRANSACTION_TIMEOUT"}, id : Txn]
         \cup [state : {"JOB_TIMEOUT"}, id : Job] \cup {NoMeta}

(* An entry of tms.  NoTimer: closed or never set; Exhausted: deleted by   *)
(* the timeout that found no retries left.  Both are absent from the map.  *)
TimerEntry == [p : {"none", "reserve", "finish"}, r : Nat]
NoTimer   == [p |-> "none", r |-> 0]
Exhausted == [p |-> "none", r |-> 1]
Timer(p)  == [p |-> p, r |-> Retries]

Snapshot == [task : {"OPEN", "FINISHED"}, jobs : [Job -> JobState]]
Saving == [task : {"OPEN", "FINISHED"}, jobs : [Job -> JobState],
           clear : BOOLEAN, load : Nat]
Save(t, js, c) == [task |-> t, jobs |-> js, clear |-> c, load |-> reloads]

TypeOK ==
    /\ tasks \in BOOLEAN /\ loaded \in BOOLEAN /\ canceled \in BOOLEAN
    /\ taskState \in {"OPEN", "FINISHED"}
    /\ pending \subseteq Job /\ cur \in 1..(N + 1)
    /\ tjs \subseteq Job
    /\ jobState \in [Job -> JobState]
    /\ joined \in [Job -> Nat]
    /\ jobCanceled \in [Job -> BOOLEAN]
    /\ confirmed \subseteq Txn /\ finished \subseteq Txn
    /\ txnState \in [Txn -> TxnState]
    /\ timer \in [Txn -> TimerEntry]
    /\ armed \subseteq Txn /\ due \in [Txn -> Nat]
    /\ jobTimers \subseteq Job /\ expired \subseteq Job /\ jobs \subseteq Job
    /\ clears \in BOOLEAN
    /\ inbox \in Inbox
    /\ saves \subseteq Saving /\ saved \in Snapshot
    /\ asks \subseteq Ask /\ answers \subseteq Answer
    /\ published \in Nat /\ reloads \in Nat /\ restarts \in Nat

(* Issue has created the task in the store and called Setup, which may     *)
(* have failed: the task is then stored, but no channel holds it.  A task  *)
(* without jobs, or whose create failed, is returned as an error: nothing  *)
(* of it is left to model.                                                 *)
Init ==
    /\ tasks \in BOOLEAN /\ loaded = FALSE
    /\ taskState = "OPEN" /\ canceled = FALSE
    /\ pending = {} /\ cur = 1
    /\ tjs = {}
    /\ jobState = [j \in Job |-> "NEW"]
    /\ joined = [j \in Job |-> 0]
    /\ jobCanceled = [j \in Job |-> FALSE]
    /\ confirmed = {} /\ finished = {}
    /\ txnState = [x \in Txn |-> "NEW"]
    /\ timer = [x \in Txn |-> NoTimer]
    /\ armed = {} /\ due = [x \in Txn |-> 0]
    /\ jobTimers = {} /\ expired = {} /\ jobs = {}
    /\ clears = FALSE /\ inbox = NoMeta
    /\ saves = {}
    /\ saved = [task |-> "OPEN", jobs |-> [j \in Job |-> "NEW"]]
    /\ asks = {} /\ answers = {}
    /\ published = 0 /\ reloads = 0 /\ restarts = 0

-----------------------------------------------------------------------------
(* Effects shared by the handlers. *)

(* The jobs of set: pending[0] is the first. *)
SetLast == N                                    \* mutant: starts at the last
First == 1

(* trs holds a task that is over: its metas are ignored. *)
NeverEnded == FALSE                             \* mutant: the check is dropped
Ended == taskState = "FINISHED"

KeepOnly(j) == {j}                              \* mutant: forgets earlier jobs
Register(j) == tjs \cup {j}

KeepJoin(j) == joined                           \* mutant: confirmed not reset
ResetJoin(j) == [joined EXCEPT ![j] = 0]

NoJobTimer(j) == jobTimers                      \* mutant: AfterFunc missing
ArmJobTimer(j) == jobTimers \cup {j}

LeaveJobTimer(j) == jobTimers                   \* mutant: closeTimer missing
CloseJobTimer(j) == jobTimers \ {j}

(* closeTimer at a transaction: stop the timer, delete the entry.  What    *)
(* the timer has posted stays in the channel.                              *)
LeaveTimer(x) == UNCHANGED <<timer, armed>>     \* mutant: closeTimer missing
CloseTimer(x) ==
    /\ timer' = [timer EXCEPT ![x] = NoTimer]
    /\ armed' = armed \ {x}

(* A running timer of the transactions X is replaced without being         *)
(* stopped, or its entry is deleted: it fires all the same.                *)
Lose(X, d) == [x \in Txn |-> IF x \in X \cap armed THEN d[x] + 1 ELSE d[x]]

(* join: only the first CONFIRMED, and the first FINISHED, of x counts. *)
AnyConfirmed(x) == TRUE                         \* mutant: duplicates count
FirstConfirmed(x) == x \notin confirmed
AnyFinished(x) == TRUE                          \* mutant: duplicates count
FirstFinished(x) == x \notin finished

KeepJobIndex == cur                             \* mutant: jobIndex unchanged
PastPending == N + 1

(* AskReserve and AskFinish to the transactions of job j.  AskReserve sets  *)
(* RESERVING again where it arrives, whatever the transaction has become.  *)
Mails(s, j) == {Meta(s, x) : x \in Txns[j]}

(* The transactions of job j take state s, the others keep theirs. *)
SetState(s, j) == [x \in Txn |-> IF x \in Txns[j] THEN s ELSE txnState[x]]
SetTimer(tm, j) == [x \in Txn |-> IF x \in Txns[j] THEN tm ELSE timer[x]]

(* schedule: save the task and send job j to the channel jobs, each in a   *)
(* goroutine of its own: jobs holds the jobs sent and not yet received.    *)
(* The send is dropped when it finds the channel full.                     *)
Schedule(j, js) ==
    /\ jobState' = js
    /\ saves' = saves \cup {Save("OPEN", js, FALSE)}
    /\ jobs' \in {jobs \cup {j}} \cup (IF Congested THEN {jobs} ELSE {})

(* NewJobResource and start: join counters at zero, timers set, every      *)
(* transaction asked to reserve.  A timer of j that still runs loses its   *)
(* entry in tms and cannot be closed any more: its JOB_TIMEOUT will come.  *)
(* So it is with the retry timers that still run.  ex, du: the JOB_TIMEOUTs *)
(* and TRANSACTION_TIMEOUTs already on their way.                          *)
Start(j, ex, du) ==
    /\ tjs' = Register(j)
    /\ joined' = ResetJoin(j)
    /\ jobCanceled' = [jobCanceled EXCEPT ![j] = FALSE]
    /\ confirmed' = confirmed \ Txns[j]
    /\ finished' = finished \ Txns[j]
    /\ txnState' = SetState("RESERVING", j)
    /\ timer' = SetTimer(Timer("reserve"), j)
    /\ armed' = armed \cup Txns[j]
    /\ due' = Lose(Txns[j], du)
    /\ jobTimers' = ArmJobTimer(j)
    /\ expired' = ex \cup ({j} \cap jobTimers)
    /\ asks' = asks \cup Mails("RESERVING", j)

(* end: the task is FINISHED; save it, clear it once saved, and publish.   *)
End(js) ==
    /\ taskState' = "FINISHED"
    /\ jobState' = js
    /\ saves' = saves \cup {Save("FINISHED", js, TRUE)}
    /\ published' = published + 1

(* The process dies: memory, channels and goroutines are gone; the store   *)
(* and the mails on the way are not.                                       *)
Die ==
    /\ restarts' = restarts + 1
    /\ tasks' = FALSE /\ loaded' = FALSE
    /\ taskState' = "OPEN" /\ canceled' = FALSE
    /\ pending' = {} /\ cur' = 1
    /\ tjs' = {}
    /\ jobState' = [j \in Job |-> "NEW"]
    /\ joined' = [j \in Job |-> 0]
    /\ jobCanceled' = [j \in Job |-> FALSE]
    /\ confirmed' = {} /\ finished' = {}
    /\ txnState' = [x \in Txn |-> "NEW"]
    /\ timer' = [x \in Txn |-> NoTimer]
    /\ armed' = {} /\ due' = [x \in Txn |-> 0]
    /\ jobTimers' = {} /\ expired' = {} /\ jobs' = {}
    /\ clears' = FALSE /\ inbox' = NoMeta
    /\ saves' = {}
    /\ UNCHANGED <<saved, published, reloads, asks, answers>>

-----------------------------------------------------------------------------
(* The cases of the select in Wait. *)

(* case task := <-m.tasks *)
ReceiveTask ==
    /\ tasks /\ inbox = NoMeta
    /\ tasks' = FALSE /\ loaded' = TRUE
    /\ taskState' = "OPEN" /\ canceled' = FALSE
    /\ pending' = Job /\ cur' = First
    /\ Schedule(First, [jobState EXCEPT ![First] = "JOB_TIMEOUT"])
    /\ UNCHANGED <<tjs, joined, jobCanceled, txnVars, jobTimers, expired,
                   clears, inbox, saved, published, reloads, restarts, asks,
                   answers>>

(* case job := <-m.jobs.  The task may have ended or gone in the meantime: *)
(* NewJobResource dereferences a nil TaskResource when it has gone.        *)
ReceiveJob(j) ==
    /\ j \in jobs /\ inbox = NoMeta
    /\ \/ /\ loaded
          /\ jobs' = jobs \ {j}
          /\ Start(j, expired, due)
          /\ UNCHANGED <<taskVars, jobState, clears, inbox, diskVars,
                         answers>>
       \/ /\ ~loaded
          /\ Die

(* case meta := <-m.updates, of a task that is loaded and not FINISHED     *)
(* (a meta of a FINISHED task is ignored).                                 *)
Handles(m) == loaded /\ ~Ended /\ inbox \in {NoMeta, m}

Arrives(m) == Handles(m) /\ (m \in answers \/ inbox = m)

(* join: the first CONFIRMED of x counts; the last of the job confirms it: *)
(* every transaction is asked to finish and gets a finish-retry timer, in  *)
(* place of one that may still run.                                        *)
(* Any other CONFIRMED of x only closes its timer.                         *)
JoinConfirmed(x, j) ==
    /\ UNCHANGED <<tjs, jobState, jobCanceled, finished>>
    /\ \/ /\ ~FirstConfirmed(x)
          /\ CloseTimer(x)
          /\ UNCHANGED <<joined, confirmed, txnState, due, asks>>
       \/ /\ FirstConfirmed(x)
          /\ joined[j] + 1 # Cardinality(Txns[j])
          /\ confirmed' = confirmed \cup {x}
          /\ joined' = [joined EXCEPT ![j] = @ + 1]
          /\ txnState' = [txnState EXCEPT ![x] = "CONFIRMED"]
          /\ CloseTimer(x)
          /\ UNCHANGED <<due, asks>>
       \/ /\ FirstConfirmed(x)
          /\ joined[j] + 1 = Cardinality(Txns[j])
          /\ confirmed' = confirmed \cup {x}
          /\ joined' = ResetJoin(j)
          /\ txnState' = SetState("CONFIRMED", j)
          /\ timer' = SetTimer(Timer("finish"), j)
          /\ armed' = armed \cup Txns[j]
          /\ due' = Lose(Txns[j] \ {x}, due)
          /\ asks' = asks \cup Mails("CONFIRMED", j)

ReceiveConfirmed(x) ==
    LET j == JobOf(x) IN
    /\ Arrives(Meta("CONFIRMED", x)) /\ j \in tjs
    /\ JoinConfirmed(x, j)
    /\ inbox' = NoMeta
    /\ UNCHANGED <<taskVars, jobTimers, expired, clears, jobs, diskVars, answers>>

(* canceled: one participant failed.  The join restarts, no later job will *)
(* run, and every transaction is asked to finish with CANCELED.  Here the  *)
(* old timers are stopped before new ones replace them.                    *)
ReceiveCanceled(x) ==
    LET j == JobOf(x) IN
    /\ Arrives(Meta("CANCELED", x)) /\ j \in tjs
    /\ joined' = ResetJoin(j)
    /\ jobCanceled' = [jobCanceled EXCEPT ![j] = TRUE]
    /\ cur' = PastPending /\ canceled' = TRUE
    /\ txnState' = SetState("CANCELED", j)
    /\ timer' = SetTimer(Timer("finish"), j)
    /\ armed' = armed \cup Txns[j]
    /\ asks' = asks \cup Mails("CANCELED", j)
    /\ inbox' = NoMeta
    /\ UNCHANGED <<tasks, loaded, taskState, pending, tjs, jobState, confirmed,
                   finished, due, jobTimers, expired, clears, jobs, diskVars,
                   answers>>

(* finished: job j is FINISHED.  The next pending job is scheduled; after  *)
(* the last, or once the task is canceled, the task ends.                  *)
LaterOrPast == {k \in 1..(N + 1) : k > cur}     \* mutant: <= len(pending)
LaterSkipping == {k \in pending : k > cur + 1}  \* mutant: jobIndex + 2
Later == {k \in pending : k > cur}

AdvanceBoth(j) ==                               \* mutant: next is FINISHED too
    [jobState EXCEPT ![j] = "FINISHED", ![Min(Later)] = "FINISHED"]
Advance(j) ==
    [jobState EXCEPT ![j] = "FINISHED", ![Min(Later)] = "JOB_TIMEOUT"]

Finished(j) ==
    /\ jobTimers' = CloseJobTimer(j)
    /\ \/ /\ Later # {}
          /\ cur' = Min(Later)
          /\ Schedule(Min(Later), Advance(j))
          /\ UNCHANGED <<taskState, published>>
       \/ /\ Later = {}
          /\ End([jobState EXCEPT ![j] = "FINISHED"])
          /\ UNCHANGED <<cur, jobs>>

(* join: the first FINISHED of x counts; the last of the job finishes it.  *)
JoinFinished(x, j) ==
    /\ CloseTimer(x)
    /\ \/ /\ ~FirstFinished(x)
          /\ UNCHANGED <<taskState, cur, jobState, joined, finished, txnState,
                         jobTimers, jobs, saves, published>>
       \/ /\ FirstFinished(x)
          /\ finished' = finished \cup {x}
          /\ joined' = [joined EXCEPT ![j] = @ + 1]
          /\ txnState' = [txnState EXCEPT ![x] = "FINISHED"]
          /\ \/ /\ joined[j] + 1 # Cardinality(Txns[j])
                /\ UNCHANGED <<taskState, cur, jobState, jobTimers, jobs,
                               saves, published>>
             \/ /\ joined[j] + 1 = Cardinality(Txns[j])
                /\ Finished(j)

ReceiveFinished(x) ==
    LET j == JobOf(x) IN
    /\ Arrives(Meta("FINISHED", x)) /\ j \in tjs
    /\ JoinFinished(x, j)
    /\ inbox' = NoMeta
    /\ UNCHANGED <<tasks, loaded, canceled, pending, tjs, jobCanceled, confirmed,
                   due, expired, clears, saved, reloads, restarts, asks, answers>>

(* An answer whose job has no JobResource: each of the three handlers      *)
(* dereferences the nil tj, and the process dies.                          *)
NilJob(m) ==
    /\ Arrives(m) /\ JobOf(m.id) \notin tjs
    /\ Die

(* The timer of x fires and posts TRANSACTION_TIMEOUT, which a full        *)
(* channel drops.  The entry of x stays in tms.                            *)
Fire(x) ==
    /\ x \in armed /\ due[x] < MaxDue
    /\ armed' = armed \ {x}
    /\ due' \in {[due EXCEPT ![x] = @ + 1]} \cup (IF Congested THEN {due} ELSE {})
    /\ UNCHANGED <<taskVars, jobVars, confirmed, finished, txnState, timer,
                   chanVars, diskVars, asks, answers>>

(* timeout at a transaction, when its TRANSACTION_TIMEOUT is received:     *)
(* nothing without an entry in tms; else ask again and re-arm while        *)
(* retries are left, else delete the entry.  The message may be of an      *)
(* earlier timer than the one of the entry, which then runs on untracked.  *)
(* A finish retry sends the state the transaction has now.                 *)
TransactionTimeout(x) ==
    LET m == Meta("TRANSACTION_TIMEOUT", x)
        rest == IF inbox = m THEN due ELSE [due EXCEPT ![x] = @ - 1] IN
    /\ loaded
    /\ inbox = m \/ (inbox = NoMeta /\ due[x] > 0)
    /\ inbox' = NoMeta
    /\ \/ /\ Ended \/ timer[x].p = "none"
          /\ due' = rest
          /\ UNCHANGED <<timer, armed, asks>>
       \/ /\ ~Ended /\ timer[x].p # "none" /\ timer[x].r = 0
          /\ timer' = [timer EXCEPT ![x] = Exhausted]
          /\ armed' = armed \ {x}
          /\ due' = Lose({x}, rest)
          /\ UNCHANGED asks
       \/ /\ ~Ended /\ timer[x].p # "none" /\ timer[x].r > 0
          /\ timer' = [timer EXCEPT ![x].r = @ - 1]
          /\ armed' = armed \cup {x}
          /\ due' = Lose({x}, rest)
          /\ asks' = asks \cup {Meta(IF timer[x].p = "reserve"
                                     THEN "RESERVING" ELSE txnState[x], x)}
    /\ UNCHANGED <<taskVars, jobVars, confirmed, finished, txnState,
                   jobTimers, expired, clears, jobs, diskVars, answers>>

(* A job timer fires and posts JOB_TIMEOUT, which a full channel drops.    *)
Expire(j) ==
    /\ j \in jobTimers
    /\ jobTimers' = jobTimers \ {j}
    /\ expired' \in {expired \cup {j}} \cup (IF Congested THEN {expired} ELSE {})
    /\ UNCHANGED <<taskVars, jobVars, txnVars, clears, jobs, inbox, diskVars,
                   asks, answers>>

(* stop: job j took too long.  The task ends; no participant is told.      *)
Stop(j) ==
    /\ jobCanceled' = [jobCanceled EXCEPT ![j] = TRUE]
    /\ canceled' = TRUE
    /\ timer' = SetTimer(NoTimer, j)
    /\ armed' = armed \ Txns[j]
    /\ End(IF HasValidator THEN [jobState EXCEPT ![1] = "FINISHED"]
                           ELSE jobState)

JobTimeout(j) ==
    LET m == Meta("JOB_TIMEOUT", j) IN
    /\ loaded
    /\ inbox = m \/ (inbox = NoMeta /\ j \in expired)
    /\ expired' = IF inbox = m THEN expired ELSE expired \ {j}
    /\ inbox' = NoMeta
    /\ \/ /\ ~Ended /\ j \in tjs
          /\ Stop(j)
       \/ /\ Ended \/ j \notin tjs
          /\ UNCHANGED <<taskState, canceled, jobState, jobCanceled, timer,
                         armed, saves, published>>
    /\ UNCHANGED <<tasks, loaded, pending, cur, tjs, joined, confirmed,
                   finished, txnState, due, jobTimers, clears, jobs, saved,
                   reloads, restarts, asks, answers>>

(* clearResource: the task and its jobs leave the maps; timers stay.       *)
TaskClear ==
    /\ clears /\ inbox = NoMeta
    /\ clears' = FALSE
    /\ loaded' = FALSE /\ tjs' = IF loaded THEN {} ELSE tjs
    /\ UNCHANGED <<tasks, taskState, canceled, pending, cur, jobState, joined,
                   jobCanceled, txnVars, jobTimers, expired, jobs, inbox,
                   diskVars, asks, answers>>

(* A meta of a task that is not in trs: reload it from the store, start    *)
(* its first unfinished job, then handle the meta.  A task saved FINISHED  *)
(* is not reloaded; one without unfinished jobs is, but starts nothing.    *)
Unfinished == {j \in Job : saved.jobs[j] # "FINISHED"}

Waiting(m) ==
    \/ m.state = "TRANSACTION_TIMEOUT" /\ due[m.id] > 0
    \/ m.state = "JOB_TIMEOUT" /\ m.id \in expired

(* expired and due without the meta m that is received. *)
ExpiredLess(m) == IF m.state = "JOB_TIMEOUT" THEN expired \ {m.id} ELSE expired
DueLess(m) == IF m.state = "TRANSACTION_TIMEOUT"
              THEN [due EXCEPT ![m.id] = @ - 1] ELSE due

Reload(m) ==
    /\ ~loaded /\ ~tasks /\ inbox = NoMeta
    /\ m \in answers \/ Waiting(m)
    /\ saved.task = "OPEN"
    /\ reloads < MaxReloads
    /\ reloads' = reloads + 1
    /\ loaded' = TRUE /\ taskState' = "OPEN" /\ canceled' = FALSE
    /\ pending' = Unfinished
    /\ \/ /\ Unfinished # {}
          /\ LET j  == Min(Unfinished)
                 js == [saved.jobs EXCEPT ![j] = "JOB_TIMEOUT"] IN
             /\ cur' = j
             /\ jobState' = js
             /\ saves' = saves \cup {[Save("OPEN", js, FALSE) EXCEPT !.load = @ + 1]}
             /\ Start(j, ExpiredLess(m), DueLess(m))
             /\ inbox' = m
       \/ /\ Unfinished = {}
          /\ cur' = 1
          /\ jobState' = saved.jobs
          /\ expired' = ExpiredLess(m) /\ due' = DueLess(m)
          /\ UNCHANGED <<saves, tjs, joined, jobCanceled, confirmed, finished,
                         txnState, timer, armed, jobTimers, asks, inbox>>
    /\ UNCHANGED <<tasks, clears, jobs, saved, published, restarts, answers>>

(* A timeout of a task that is gone and that reload does not bring back:   *)
(* it is FINISHED in the store, or the load fails.                         *)
IgnoreTimeout(m) ==
    /\ ~loaded /\ inbox = NoMeta /\ Waiting(m)
    /\ expired' = ExpiredLess(m) /\ due' = DueLess(m)
    /\ UNCHANGED <<taskVars, jobVars, confirmed, finished, txnState, timer,
                   armed, jobTimers, clears, jobs, inbox, diskVars, asks,
                   answers>>

-----------------------------------------------------------------------------
(* updateTask goroutines, executors, restarts. *)

(* The goroutine marshals the live task: the task's own state first, then  *)
(* the jobs, while Wait goes on changing them.                             *)
Marshal(s) ==
    /\ s \in saves /\ loaded /\ s.load = reloads
    /\ \E t \in {s.task, taskState} :
           saves' = (saves \ {s}) \cup {Save(t, jobState, s.clear)}
    /\ UNCHANGED <<taskVars, jobVars, txnVars, chanVars, saved, published,
                   reloads, restarts, asks, answers>>

(* The write reaches the store, in any order with the others, or fails;    *)
(* runUpdate reports no error either way, so the task is cleared.          *)
UpdateTask(s) ==
    /\ s \in saves
    /\ saves' = saves \ {s}
    /\ saved' \in {[task |-> s.task, jobs |-> s.jobs], saved}
    /\ clears' \in (IF s.clear THEN {TRUE} ELSE {clears})
                   \cup (IF Congested THEN {clears} ELSE {})
    /\ UNCHANGED <<taskVars, jobVars, txnVars, jobTimers, expired, jobs, inbox,
                   published, reloads, restarts, asks, answers>>

(* handleTranstion: the handler for the asked state runs; success moves    *)
(* the transaction on, an error (or an unsupported state) cancels it.      *)
Succeeds == [RESERVING |-> "CONFIRMED", CONFIRMED |-> "FINISHED",
             CANCELED |-> "FINISHED"]

Failures == {m \in answers : m.state = "CANCELED"}

Execute(a) ==
    /\ a \in asks
    /\ \/ /\ a.state \in DOMAIN Succeeds
          /\ answers' = answers \cup {Meta(Succeeds[a.state], a.id)}
       \/ /\ answers' = answers \cup {Meta("CANCELED", a.id)}
          /\ Cardinality(Failures \cup {Meta("CANCELED", a.id)}) <= MaxFailures
    /\ UNCHANGED <<taskVars, jobVars, txnVars, chanVars, diskVars, asks>>

(* The process is stopped, or dies of a panic outside Wait: a save whose   *)
(* remote call fails dereferences a nil response (runUpdate).              *)
Restart == restarts < MaxRestarts /\ Die

Timeouts == {Meta("TRANSACTION_TIMEOUT", x) : x \in Txn}
            \cup {Meta("JOB_TIMEOUT", j) : j \in Job}

Next ==
    \/ ReceiveTask
    \/ \E j \in Job : ReceiveJob(j) \/ JobTimeout(j) \/ Expire(j)
    \/ \E x \in Txn : ReceiveConfirmed(x) \/ ReceiveCanceled(x)
                      \/ ReceiveFinished(x) \/ TransactionTimeout(x)
                      \/ Fire(x)
    \/ \E m \in answers : NilJob(m)
    \/ TaskClear
    \/ \E m \in answers \cup Timeouts : Reload(m)
    \/ \E m \in Timeouts : IgnoreTimeout(m)
    \/ \E s \in saves : Marshal(s) \/ UpdateTask(s)
    \/ \E a \in asks : Execute(a)
    \/ Restart

Spec == Init /\ [][Next]_vars

(* The meta that reloaded the task is handled in the same pass of Wait. *)
HandleInbox ==
    /\ inbox # NoMeta
    /\ \/ \E x \in Txn : ReceiveConfirmed(x) \/ ReceiveCanceled(x)
                         \/ ReceiveFinished(x) \/ TransactionTimeout(x)
       \/ \E j \in Job : JobTimeout(j)
       \/ \E m \in answers : NilJob(m)

(* What the runtime guarantees: Wait empties its channels and ends what it *)
(* has begun, and a timer that is not stopped fires.  Nothing is assumed   *)
(* of the network, of the executors or of the store: a save is a remote    *)
(* call without a deadline (clientUpdate) and may never return.            *)
Fairness ==
    /\ WF_vars(ReceiveTask) /\ WF_vars(HandleInbox)
    /\ \A j \in Job : /\ WF_vars(ReceiveJob(j)) /\ WF_vars(Expire(j))
                      /\ WF_vars(JobTimeout(j))

FairSpec == Spec /\ Fairness

-----------------------------------------------------------------------------
(* Properties. *)

Asked(s, x) == Meta(s, x) \in asks
Answered(s, x) == Meta(s, x) \in answers
Failed(j) == \E x \in Txns[j] : Answered("CANCELED", x)

(* A participant is asked to confirm only when every participant of its    *)
(* job has reserved, unless some participant of the job failed.  Holds     *)
(* across duplicates, timer retries, reloads and restarts (join,           *)
(* confirmed and timeout).                                                 *)
ConfirmNeedsReservations ==
    \A j \in Job :
        (\E x \in Txns[j] : Asked("CONFIRMED", x)) /\ ~Failed(j)
            => \A y \in Txns[j] : Answered("CONFIRMED", y)

(* The inductive form of ConfirmNeedsReservations.  Whatever the           *)
(* coordinator believes about a participant was answered by it; and while  *)
(* a job is fresh, neither failed nor confirmed, its join counts exactly   *)
(* the participants that reserved, and no finish retry is armed (start,    *)
(* join, canceled, timeout).                                               *)
Fresh(j) == ~Failed(j) /\ \A x \in Txns[j] : ~Asked("CONFIRMED", x)

InboxWasSent == inbox.state \in AnswerState => inbox \in answers
JoinedAnswered == \A x \in confirmed : Answered("CONFIRMED", x)
FinishedWasAsked ==
    \A x \in Txn : Answered("FINISHED", x)
        => Asked("CONFIRMED", x) \/ Asked("CANCELED", x)
CancelHasCause ==
    \A x \in Txn : Asked("CANCELED", x) \/ txnState[x] = "CANCELED"
        => Failed(JobOf(x))
FreshJoin ==
    \A j \in Job : Fresh(j) =>
        /\ joined[j] = Cardinality(confirmed \cap Txns[j])
        /\ \A x \in Txns[j] : timer[x].p # "finish"

ReservationInv ==
    /\ InboxWasSent /\ JoinedAnswered /\ FinishedWasAsked /\ CancelHasCause
    /\ FreshJoin /\ ConfirmNeedsReservations

(* Until the task is reloaded: a job recorded FINISHED, that neither       *)
(* failed nor timed out, was finished by every participant (join,          *)
(* finished).                                                              *)
FinishedByAll ==
    reloads = 0 =>
        \A j \in Job : jobState[j] = "FINISHED" /\ ~jobCanceled[j]
            => \A x \in Txns[j] : Answered("FINISHED", x)

(* Until the task is reloaded: jobs run one after the other.  No           *)
(* participant of a job is asked to reserve before every participant of    *)
(* every earlier job has finished, whatever is canceled, late or timed out *)
(* (finished, schedule).                                                   *)
JobsInSequence ==
    reloads = 0 =>
        \A i, k \in Job : i < k /\ (\E x \in Txns[k] : Asked("RESERVING", x))
            => \A y \in Txns[i] : Answered("FINISHED", y)

(* Until the task is reloaded: a task that ends without cancel or timeout  *)
(* has run every job to the end (finished, end).                           *)
EndedTaskIsComplete ==
    reloads = 0 /\ taskState = "FINISHED" /\ ~canceled =>
        \A j \in Job : \A x \in Txns[j] : Answered("FINISHED", x)

(* Until the task is reloaded: every answer that arrives finds the         *)
(* JobResource of its job, so the join of a nil JobResource, which would   *)
(* end the process, does not happen (Wait).                                *)
AnswersFindTheirJob ==
    reloads = 0 /\ loaded => \A m \in answers : JobOf(m.id) \in tjs

(* No participant that has finished is asked again.  A retry sends the     *)
(* state the transaction has by then: FINISHED, which no handler supports, *)
(* so the executor would answer CANCELED and cancel a job that is done.    *)
(* Timers are lost while they run (confirmed, timeout) and timeouts wait   *)
(* in the channel when the FINISHED is handled; only the missing entry of  *)
(* tms keeps them from asking (closeTimer in Wait, timeout).               *)
FinishedIsNotRetried == \A m \in asks : m.state \in DOMAIN Succeeds

(* Until the task is reloaded: the timer of a job that finished regularly  *)
(* does not fire while a later job runs.  A JOB_TIMEOUT that was already   *)
(* in the channel when the job finished is not taken back, and stops the   *)
(* task (closeTimer in finished).                                          *)
NoLateExpiry ==
    [][\A j \in tjs :
           reloads = 0 /\ jobState[j] = "FINISHED" /\ ~jobCanceled[j]
               => (j \in expired' => j \in expired)]_vars

(* The store is never ahead of the task, in whatever order the saves       *)
(* arrive and however Wait changes the task while a save marshals it       *)
(* (updateTask): the stored task is FINISHED only after its end; and until *)
(* a reload or the end, a job stored FINISHED was finished by every        *)
(* participant or failed, so that the reload skips no work.                *)
StoreIsNotAhead ==
    /\ saved.task = "FINISHED" => published > 0
    /\ reloads = 0 /\ published = 0 =>
           \A j \in Job : saved.jobs[j] = "FINISHED" /\ ~Failed(j)
               => \A x \in Txns[j] : Answered("FINISHED", x)

(* The end of a task is announced at most once per load of the task (end). *)
OneEventPerLoad == published <= 1 + reloads

(* Once the task is canceled no job is scheduled any more (canceled sets   *)
(* jobIndex past the pending jobs).                                        *)
CancelStopsThePipeline == [][canceled /\ canceled' => jobs' \subseteq jobs]_vars

(* While no channel is full: a task that has been set up, or reloaded with *)
(* a job to run, ends, whatever mails and saves are lost and whichever     *)
(* participants never answer, unless the process dies first (the job timer *)
(* in start, stop, end).  It does not say that the task leaves memory,     *)
(* which takes an answer of the store, nor that it stays ended: a late     *)
(* meta reloads a task whose last save was lost.  A task reloaded with no  *)
(* unfinished job is excluded: nothing ends it (reload).                   *)
TaskEnds ==
    tasks \/ (loaded /\ pending # {})
        ~> taskState = "FINISHED" \/ ~(tasks \/ loaded)

(* What the comment "retry to finish on cancel" (task_manager.go:192)      *)
(* says: a participant of a canceled job that has not finished keeps a     *)
(* retry timer until its retries are used up or the task ends.             *)
CancelIsRetried ==
    loaded /\ taskState = "OPEN" =>
        \A j \in tjs : \A x \in Txns[j] :
            jobCanceled[j] /\ x \notin finished => timer[x] # NoTimer
=============================================================================
