# Verification of tarantula-tasking

TLA+ models of the clustered task runner in this repository, the TLC runs that
check them on small instances, and TLAPS proofs of the central properties for
every instance. Paths below are relative to the repository; `C/` stands for
`src/app/web/postoffice/clustering/`.

## 1. The system and its parts

A *task* is an ordered list of *jobs*: an optional validator first, then
`Task.Jobs`. A job is a set of *transactions*. Each transaction is executed by
an application process under the Try-Confirm-Cancel (TCC) protocol: it
reserves, and when all transactions of the job have reserved it is asked to
confirm; if one fails, all are asked to cancel.

| Part | Source | Role | Module |
|---|---|---|---|
| Task manager | `C/task_manager.go`, `C/job_resource.go` | the coordinator: one goroutine, `Wait`, fed by channels and timers | `TaskManager` |
| Transaction service | `C/transaction_service_provider.go`, `C/run_{ask_reserve,ask_finish,confirmed,canceled,finished,setup}_proxy.go` | carries asks to executors and answers to the node that owns the task; saves and loads tasks | network and saves of `TaskManager` |
| Executor | `src/internal/bootstrap/cluster_manager.go`, `src/internal/protocol/tcc_transaction_listener.go` | receives mails, runs the handlers, answers | `Execute` of `TaskManager`; the connection is planned |
| Id generator | `src/internal/util/snowflake.go` | ids of tasks, jobs, transactions, events | `Snowflake` |
| Post office service | `C/postoffice_service_provider.go` | issues tasks, serves the mail streams, subscriptions | `Issue` is `Init` of `TaskManager`; rest planned |
| Local data store | `C/local_data_service.go`, `C/key_index.go`, `C/set_data.go`, `C/get_data.go` | Badger store with revisions and tombstones | planned |
| Data service | `C/data_service_provider.go`, `C/run_{create,update,delete,reset,get,query}_proxy.go` | writes to the owner of a key and its replicas, range handoff | planned |
| Hash ring | `C/node_ring.go`, `C/member_hash_ring.go`, `C/member_list_*.go` | consistent hashing over the gossip members | planned |
| Dispatcher | `C/member_hash_ring_listener.go`, `C/subscription_registry.go` | one goroutine, `RingUpdated`, that owns ring, receivers and subscriptions | planned |
| RPC connection pool | `src/internal/core/rpc_conn_pool.go` | bounded connections per endpoint | planned |
| Cloud handlers | `src/internal/cloud/` | reserve, confirm and cancel of deployments | planned |
| Admin, cloud services, bootstrap, utilities, events | `src/app/web/admin`, `.../vultr_cloud`, `.../google_cloud`, `src/internal/{bootstrap,util,event}` | HTTP, SQL, SSH, provider APIs, wiring | not modelled: I/O without a protocol of its own |

`PROJECT.json` lists every part with its files, and the hazards of the code at
the lines where they bite.

How they interact: an application calls `Issue`; the node that receives it
creates the task in the replicated store and sends it to the owner of its ring
token (`Setup`). The owner's `Wait` runs the jobs one by one. Each ask goes
through the dispatcher to a subscriber and from there down a stream to an
executor; each answer goes back to the owner and into the channel `updates`.
`updateTask` goroutines save the task; a meta of a task that is not in memory
makes `Wait` reload it from the store.

## 2. TaskManager

One task is modelled, because tasks share nothing in the manager except its
channels. What other tasks can do to this one is fill a channel, so that a
non-blocking send drops; that is the constant `Congested`.

State. `tasks`, `jobs`, `expired`, `clears` are the contents of the channels;
`loaded`, `taskState`, `canceled`, `pending`, `cur` are the `TaskResource`
(`cur` is the job at `jobIndex`); `tjs`, `joined`, `jobCanceled` the
`JobResource`s; `confirmed`, `finished`, `txnState` the transactions; `timer`
and `jobTimers` the map `tms`; `armed` the transactions whose entry of `tms` has
a running `time.Timer`; `due` and `expired` the timeouts that nothing can stop
any more; `saves` the running `updateTask` goroutines and
`saved` the stored task; `asks` and `answers` every mail ever sent.

| Action | Code |
|---|---|
| `ReceiveTask`, `ReceiveJob` | cases `tasks` and `jobs` of `Wait`, with `set`, `schedule`, `NewJobResource`, `start` |
| `ReceiveConfirmed`, `ReceiveCanceled`, `ReceiveFinished` | `join`, `confirmed`, `canceled`, `finished`, `end`, `closeTimer` |
| `Fire`, `Expire` | a timer fires and posts its timeout in `updates`, or finds it full |
| `TransactionTimeout`, `JobTimeout` | the timeout is received: `timeout`, `stop` |
| `TaskClear` | `clearResource` |
| `Reload`, `IgnoreTimeout` | `reload`, `load`; the meta that caused the reload is handled next (`inbox`) |
| `NilJob`, the second half of `ReceiveJob` | a nil dereference in `Wait`: the process dies |
| `Marshal`, `UpdateTask` | `updateTask`: marshals the live task while `Wait` changes it, then writes, in any order, or fails unnoticed |
| `Execute` | `handleTranstion` and `OnTransaction` |
| `Restart` | the process stops, or dies outside `Wait` (a failed remote save dereferences a nil response in `runUpdate`), and starts again: memory is as at the start, the store and the mails are not |

The network loses, repeats and reorders: a mail stays in `asks` or `answers`
and may be received any number of times or never. This is what retry timers,
repeated dispatch after an RPC error, and one goroutine per mail produce.

Retry timers. The firing of a timer and the handling of its timeout are two
steps, with any other step between them, and an entry of `tms` is not the same
thing as its timer. `start`, `confirmed` and `timeout` replace a timer that may
still run (lines 122, 162, 267), and `timeout` deletes the entry of one (278):
it fires all the same. Such a timer is counted in `due` at once, together with
the timeouts that wait in the channel, since nothing can tell the two apart any
more; `Lose` does this. What a timeout does when it is received depends on the
entry of that moment, whichever timer posted it.

`Init` includes the task whose `Setup` failed after `Issue` created it: stored,
and in no channel.

Abstractions. A transaction is a model value, its job follows from it. The
duration of a timer is left out: a timer that runs may fire. Event builders,
descriptions and timestamps are left out; `published` counts task events. The
`recoveries` case of `Wait` is left out, because its only sender,
`recoverTasks`, is not called (`C/member_list_manager.go:108`). Which subscriber a mail
reaches is not modelled here.

Properties.

- `ConfirmNeedsReservations`: nobody is asked to confirm before all
  participants of the job have reserved, unless one failed.
- `ReservationInv`: its inductive form.
- `FinishedByAll`, `JobsInSequence`, `EndedTaskIsComplete`: what a finished
  job, a started job and a finished task say about the participants.
- `AnswersFindTheirJob`: the nil dereference is not reached.
- `FinishedIsNotRetried`: nobody is asked in a state without a handler. A finish
  retry sends the state the transaction has at that moment; were it FINISHED,
  the executor would answer CANCELED and cancel a job that is done.
- `NoLateExpiry`: the timer of a job that finished regularly does not fire any
  more. A JOB_TIMEOUT that already waits in the channel is another matter: it is
  handled, and stops the task although its job has finished.
- `StoreIsNotAhead`: the store never says more than was done, although saves
  overtake one another and marshal a task that changes meanwhile.
- `OneEventPerLoad`, `CancelStopsThePipeline`.
- `TaskEnds`: a task that was set up, or reloaded with a job to run, ends unless
  the process dies first. It need not leave memory, because that waits for a
  save, a remote call without a deadline; nor stay ended, because a late meta
  reloads a task whose last save was lost. A task reloaded without an unfinished
  job is excluded: `reload` puts it in `trs` and starts nothing (line 316).

Several of them say "until the task is reloaded". That is a limit of the code: a
reload starts the first unfinished job of the *stored* task, which may be older
than what was done, and answers of the earlier life then meet a job that has no
`JobResource`, or a timer of the earlier life stops the task.

## 3. Snowflake

Generators with a clock each. `UId` is a call that gets the lock and is not
refused; `Spin` is the end of the loop that waits for the next millisecond with
the lock held; `Tick` and `SetBack` move the clock. `Id` and `UId` have no other
steps, because a refused call changes nothing. Field widths are constants.

- `UniqueIds`: no id is returned twice, by one generator or by two.
- `Ascending`: a generator returns ever greater ids.
- `ParsesBack`: `Parse` recovers the fields.

A restart, which forgets `lastTimestamp`, is not modelled.

## 4. Runs

| Run | Instance | Shows |
|---|---|---|
| `tcc_join` | one job, two participants, one retry, drops, two failures | `TypeOK`, `ConfirmNeedsReservations`, `FinishedByAll`, `FinishedIsNotRetried` |
| `tcc_sequence` | a validator and a job, one participant each, drops, failures | `JobsInSequence`, `EndedTaskIsComplete`, `AnswersFindTheirJob`, `CancelStopsThePipeline`, `NoLateExpiry` |
| `tcc_restart` | one job of two, a restart, a reload, one failure | `ReservationInv` |
| `tcc_reload` | two jobs, a restart, a reload | `OneEventPerLoad`, `StoreIsNotAhead` |
| `tcc_live` | a validator and an empty job, one failure, a reload, no drops, `FairSpec` | `TaskEnds` |
| `tcc_cancel_retry` | as `tcc_join` | **violated**: `CancelIsRetried` |
| `snowflake` | two nodes, sequence of two, clocks to 3, one set back | `TypeOK`, `UniqueIds`, `ParsesBack`, `Ascending` |
| `snowflake_clock_back` | one node, clock set back while spinning | **violated**: `UniqueIds` |

Bounds. Two participants are enough for every race of the join, which only
counts; two jobs for every race between a job and its successor. `Retries` 1
lets a timer both retry and run out. `MaxDue` bounds the timers that have fired
for one transaction and not been handled: 1 in `tcc_join`, `tcc_sequence` and
`tcc_cancel_retry`, where lost timers come on top of it; 0 elsewhere, where only
lost timers make timeouts. `MaxFailures`, `MaxReloads` and
`MaxRestarts` keep the runs finite; `tcc_restart` and `tcc_reload` divide
failures and second job between them, because the product is too large. A
sequence field of two values wraps on the second call. `CHECK_DEADLOCK` is off:
a finished task has nothing left to do, and a bounded clock stops.
`tcc_join`, `tcc_restart` and `tcc_cancel_retry` use symmetry in the
participants; `tcc_live` does not.

Fairness (`tcc_live`). Weak fairness of the cases of `Wait` for tasks, jobs and
job timeouts, of the handling of the meta that caused a reload (the same pass of
`Wait`), and of job timers: `Wait` keeps selecting, and a timer that is not
stopped fires. Nothing is assumed of network, executors or store, not even that
a save returns, so the job timer alone must end the task. With `Congested` the
property is false, because a dropped job or JOB_TIMEOUT is not sent again; the
run excludes it.
The second job of the run has no transactions, so it never finishes and every
reload finds it. With two jobs of one participant each (`TwoJobs`) a reload may
find none: a save that reads the task before its end and the jobs after it leaves
an OPEN task whose jobs are all FINISHED. There `TaskEnds` holds as stated, and
without its `pending # {}` it does not.

### Findings

- `tcc_cancel_retry`. `Wait` closes the timer of a transaction on every
  CONFIRMED (`C/task_manager.go:383`). A CONFIRMED that was on its way when the
  job was canceled closes the timer of "retry to finish on cancel" (line 192),
  and the participant is not asked to cancel again if that mail was lost.
- `snowflake_clock_back`. The loop at `src/internal/util/snowflake.go:42` ends
  on an earlier timestamp as well as on a later one, although `Id` refuses an
  earlier clock at line 37; old ids are then returned again.

## 5. Proofs

`TaskManagerTypes`, `TaskManagerSteps` and `TaskManagerProofs`, each extending
the one before, from the assumptions `Shape` (the jobs have finite, disjoint
sets of transactions) and `Bounds`:

- `TypeCorrect`: `Spec => []TypeOK`. The step that is not immediate is that the
  next job, `Min(Later)` or `Min(Unfinished)`, is a job: a non-empty finite set
  of naturals has a least element (`MinIsLeast`).
- `ConfirmIsSafe`: `Spec => []ConfirmNeedsReservations`. Not inductive by itself:
  the coordinator knows a counter, not answers. `ReservationInv` relates them.
  While a job is fresh, neither failed nor asked to confirm, the counter equals
  the number of confirmed participants and no finish retry is armed; whoever is
  recorded as confirmed has answered; a CANCELED has a cause; a FINISHED was
  asked for. When the counter reaches the size of the job, a finite-set argument
  gives that all have answered. One lemma per action.

- `RetriesAreSupported`: `Spec => []FinishedIsNotRetried`. The mails alone do not
  carry the induction. `RetryInv` adds that an entry of `tms` that retries a
  finish belongs to a transaction that is CONFIRMED or CANCELED: `confirmed` and
  `canceled` set both together, and an answer that moves the transaction closes
  the entry. `due` and `armed` do not occur in it, which is the point: however
  many timers are lost, the entry decides what is asked.

`SnowflakeProofs`, from `Sizes` (the node ids fit their field) and
`~BackInSpin`:

- `IdsAreUnique`: `Spec => []UniqueIds`, for all widths. `PackOrder` shows that
  `Pack` orders by timestamp, then node, then sequence. The invariant
  `IssuedInv` says that each returned id is in the past of the generator, and
  that the clock of a spinning generator is not behind; then each new id is
  greater than all before it.

The hypothesis `~BackInSpin` is needed: `snowflake_clock_back` is the
counterexample without it.

Only model-checked: the other properties, among them liveness, which is out of
the prover's reach.

## 6. Plan

1. `NodeRing`: `ownerOf` and `keyRing` against reference definitions, `OnAdd`
   and `OnRemove` with the callbacks that may drop.
2. `DataStore`: `create`, `update`, `delete`, `get`, `reset`, `set` and `query`
   over revisions and tombstones, on an owner and its replicas; then `RingSync`,
   the handoff of ranges while writes go on.
3. `Dispatcher`: `RingUpdated` with receivers, the registry and subscription
   messages; deadlock freedom of its blocking sends, and reconnecting clients.
4. `Routing`: AskReserve and AskFinish over the registry, composed with the
   answers of `TaskManager`; whether a finish reaches the node that reserved.
5. `ClusterClient`, `ConnPool`, `CloudHandlers`.
6. `TaskPipeline`, an abstract specification of a task (jobs in order, all or
   cancel), implemented by `TaskManager` without reloads.
7. Proofs: `JobsInSequence`, `StoreIsNotAhead` and `FinishedByAll` by strengthening
   `ReservationInv`; `OneEventPerLoad`; `Ascending`; the refinement; lemmas on
   the ring search.
