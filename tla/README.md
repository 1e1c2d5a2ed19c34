# TLA+ models and proofs of the NemesisCode backend

NemesisCode runs AI development tasks. A task gets an environment (a VM on a
host, or a directory of the local machine), an agent engine works in it, users
watch and steer the agent, and idle environments are put to sleep and recycled.
The logic worth verifying is in the Go backend, `src/backend`: goroutines of
several replicas that meet in PostgreSQL, in Redis and on the hosts, with no
transaction across the three.

This directory holds TLA+ modules of that logic, TLC configurations that check
them on small instances, and TLAPS proofs of what matters most for every
instance.

    tlc -config DelayQueue_safety.cfg MCDelayQueue.tla
    tlapm DelayQueueProofs.tla

## The system

| Component | State | Operations | What is hard |
|---|---|---|---|
| Redis delay queue, `pkg/delayqueue` | per queue a sorted set of ids scored by run time, and one key per id with payload and attempts | `Enqueue`, `EnqueueIfMissing`, `Remove`, `RemoveByPrefix`, `StartConsumer`/`pollOnce` | only the claim and `EnqueueIfMissing` are scripts; the rest is several Redis commands that interleave, fail half-way, or stop with their process |
| VM recycling, `pkg/vmrecycle` | the VM row (`is_recycled`, `deleted_at`), the recycle record, tasks' status, Redis lock, lifecycle key and queues, the environment on the host | `Recycle`, `ForceRecycle`, record, deadline repair | seven kinds of callers at once, a lock with a TTL, a remote call that may fail or lose its answer, retries, a cleanup of many steps |
| VM idle timers, `biz/vmidle` | entries of the sleep, notify and recycle queues, `last_active_at` | `RecordActivity`, three consumers, compensation | deadlines moved while a consumer works on them; activity that is stale when used |
| Lifecycle managers and hooks, `pkg/lifecycle` | `lifecycle:<id>` hashes in Redis, tasks' status | `Transition`, task, VM, notify and recycle hooks | HGET, check and HSET are not atomic; the state stays when a hook fails; a start racing a stop |
| Tasks and hosts, `biz/task`, `biz/host` | rows of tasks, VMs and hosts | `Create`, `Stop`, `Delete`, `Continue`, `DeleteVM`, activity and agent authentication | each is a sequence of steps over database, Redis and host |
| Local engine, `pkg/taskflow/local` | processes, `stopped`/`ignored` flags, live stream buffer and subscribers, registry of VMs, shells | `Create`, `Stop`, `Cancel`, `Continue`, `Restart`, output streaming, attach | mutex held for parts of operations; a process that ends while it is cancelled |
| Task stream and control sockets, `biz/task/handler`, `pkg/ws` | attached clients, rounds replayed | attach, replay, subscribe, control calls | the gap between replay and subscription |
| Tasker, `pkg/tasker` | jobs in Redis, locks, delayed runs | create, transition, recover | a second queue with its own races, which nothing calls |
| Notification dispatcher, `pkg/notify` | subscriptions, send log, stream of events | publish, dispatch, retry | at-least-once delivery, duplicates |
| Task summaries, `biz/task/service` | a delay queue of tasks to summarise | enqueue, consume, reschedule | a queue user with its own retry policy |
| LLM proxy, MCP hub, teams, users, settings, projects, git, files, clients... | database rows | CRUD, forwarding | one transaction or one forwarded call each |

`PROJECT.json` lists all components with their status and reason, and the
hazards of this code at their lines.

How they meet around a task:

    Create -> row, VM, environment -> request in Redis -> pending      (TaskLifecycle)
    vm-ready (host) -> processing -> hook -> engine                    (LocalAgent)
    engine output -> live stream -> sockets of those who watch         (TaskStream)
    activity -> deadline and reminders -> dispatcher -> channels       (IdleReminders)

and around the recycling of its VM (VMRecycle, on queues as in DelayQueue):

    Stop / Delete task -> lifecycle manager -> VMRecycleHook --.
    DeleteVM ------------------------------- ForceRecycle -----+-> vmrecycle.recycle
    recycle consumer <- delay queue (claim, retry) ------------'     lock, load, remote delete,
    VMActivity / Continue -> RecordActivity -> move queue entry      mark, record, tasks, queues,
    deadline repair -> EnqueueIfMissing                              keys, recycle job, release
    agent of a recycled VM -> second remote delete

### What makes each component correct

* **Delay queue.** No payload is lost or duplicated without a failure; entries
  and keys stay in step; a claim is exclusive.
* **Recycling.** One recycler at a time; a VM counts as recycled only when its
  environment is gone or was knowingly given up; records are true; the recycle job
  is not given up while a task runs, unless one was started again; a recycle that
  failed is retried until it is done.
* **Idle timers.** A VM with recent activity is not put to sleep or recycled; one
  without is, and its user is told before, once for each time it was due.
* **Task lifecycle.** An engine is started once per task; a task fails for a
  reason; a stopped task stays stopped and leaves nothing behind; Redis and the
  database agree on it.
* **Local engine.** At most one live process per VM; every turn ends with
  exactly one end event.
* **Task stream.** A viewer sees the output in order, nothing twice and nothing
  skipped without a reason; it learns of the end of the turn; a connection that
  ends leaves nothing behind.

## Modules

| Module | Models |
|---|---|
| `DelayQueue` | `pkg/delayqueue/delayqueue.go`, one action per Redis command |
| `MCDelayQueue` | TLC instance: symmetry; callers that only use `Enqueue` |
| `DelayQueueProofs` | proofs about `DelayQueue` |
| `VMRecycle` | recycling a task VM, with all its callers and its queue |
| `MCVMRecycle` | TLC instance: symmetry; the restriction of the liveness run |
| `VMRecycleProofs` | proofs about `VMRecycle` |
| `VMRetryProofs` | the proof of its `RetryIsKept` |
| `LocalAgent` | the engine of a local VM: processes, readers, requests that stop them |
| `MCLocalAgent` | TLC instance: symmetry |
| `LocalAgentProofs` | proofs about `LocalAgent` |
| `TaskLifecycle` | a task from creation to its engine or its end: Create, vm-ready, vm-conditions, Stop, with their Redis state machine |
| `MCTaskLifecycle` | TLC instance: local and cloud backends in one state space |
| `TaskLifecycleProofs` | proofs about `TaskLifecycle` |
| `TaskStream` | the live output of a task and the WebSocket connections that show it |
| `MCTaskStream` | TLC instance: with and without a log store |
| `TaskStreamProofs` | proofs about `TaskStream` |
| `IdleReminders` | reminders before an idle VM is recycled: activity, delay queue, event stream, send log |
| `MCIdleReminders` | TLC instance: one tier, symmetric backends |
| `IdleRemindersProofs` | proofs about `IdleReminders` |
| `RecycleContract` | abstract specification: what recycling promises; `VMRecycle` implements it |
| `QueueContract` | abstract specification: what a delay queue promises; `DelayQueue` implements it |
| `QueueContractProofs` | the proof of that |
| `EngineContract` | abstract specification: what the engine of a local VM promises; `LocalAgent` implements it |

### DelayQueue

`entry` is the sorted set with scores abstracted to *later* (run time ahead) and
*due* (passed; `BecomesDue`), `job` the keys. A caller or consumer is a record
with the Redis command it sends next (`pc`) and its locals, so `Enqueue` is
`EnqueueSet`, `EnqueueZAdd` (or `EnqueueZAddFails`, `EnqueueUndo`); `Remove` is
`RemoveBegin`, `RemoveZRem`, `RemoveDel`; `RemoveByPrefix` is the same over the
ids its scan found. `pollOnce` is `ClaimDue` (the Lua script: at most
`BatchSize` due ids, all of them if there are fewer), `LoadJob`, the handler's
return (`HandlerSucceeds`, `HandlerFails` with or without
`ErrRetryAfterMaxAttempts`, `HandlerReschedules` for `ErrJobRescheduled`), then
`SaveJob`, `Requeue` or `DeleteJob`. Faults (a failed command, an expired key, a
dead process) are bounded by `MaxFaults`. The variables `faulted` and `raced`
are history: ids something failed on, and ids a caller began to work on while
another process had an unfinished operation on them.

### VMRecycle

One task VM. `vm`, `record` and `task` are rows; `remote` the environment on
its host; `vmState` the lifecycle key, `lock` the recycle lock, `entry` and `job`
the VM's id in the recycle queue; `active` says whether the tasks' last activity
is within the policy's recycle window. Every goroutine is a record: `pc` is the
next command, `op` the request it serves, the others are the locals of
`recycle` and of the consumer. The steps of `recycle` are actions in the code's
order, `Acquire` to `Release`, with early returns through `Leave`; `CloseTask`,
`Transition`, `HookReturns`, `CommitTask` are Stop and Delete of a task;
`DeleteVM...DeleteRow` the deletion of the VM, `ExpireVM` and `ExpireReturns` its
expiry; `RecordActivity`, `Repair`, `MoveDeadline` the deadline;
`ClaimJob...DeleteJob` the consumer. Callbacks of the VM set the status of its
tasks beside all this: `HookLooks` and `HookStarts` are the vm-ready hook's look at
the row and its update (a task that was finished in between runs again), with the
task's creation request (`request`, taken away by `RequestGoes` and by cleanup)
as its condition; `TaskFails` is a failed condition or hook.

Abstractions. A queue job is written and removed in one step (`DelayQueue` takes
that apart), but its key is deleted after the handler, apart from the claim. Sleep
and notify timers and the other Redis keys are left out: their consumers do
nothing on a recycled VM. So are the times of a VM with an expiry (`CountDown`):
its job may be of a time since renewed and its consumer does not look at the row,
so `ExpireVM` may come at any time. The debounce of activity reports is
covered by activity being optional. A look of the hook is never given up: what
may still start is `starting`, a set of tasks, whatever number of callbacks there are. A remote delete may fail any number of times
without counting as a fault; it may also have worked although it failed. Deleting
a task hides it and leaves its status alone, as in the repository. `overrun`,
`abandoned`, `owed` and `reopened` (who runs again since a goroutine loaded the VM)
are history.

### LocalAgent

One VM record of `pkg/taskflow/local`. A turn is one `opencode run`: `process`,
its reader goroutine `reader` and its `ignored` flag are functions (or sets) of
the turn's number; `agent` and `stopped` are the fields of the record. A request
is a goroutine with a program counter: `Begin` is the look-up in the registry,
then come `CheckAgent` (Continue), `SetStopped` (Cancel), `Take` and `Kill`
(`stopAgent`), `Launch` and `Attach` (the rest of `spawnAgent`) and
`PublishCancelled`. `streamOpenCode` is `Reap` (its critical section), `Decide`
(the `ignored` flag, read after it) and `PublishEnd`. `Exit` is the process and
the operating system. Continue's check and the engine start are steps of their
own, and so are Cancel's flag and its `stopAgent`, as each locks the mutex anew.

Abstractions. `live` keeps the `task-ended` chunks and no other output. The exit
code, the errors in the output and an unreadable output are one choice, success
or failed. The configuration files, the workspace and the terminals are left out.
A VM restored after `Delete` from a kept workspace is another record. `cancelled`
and `clash` (an engine was being started while another request on the VM was
under way) are history.

### TaskLifecycle

One task. `status` is the column, `state` the lifecycle hash in Redis,
`request` what Create leaves for the engine; `env`, `engine` are the host's,
`named` says that the VM's row has the id of its environment. Create is one
action per command, in the order of `TaskUsecase.Create`: the transaction of
`PrepareCreate`, `CreateEnvironment` and `CompleteCreate` (the host's answer and
what is written of it), `StoreRequest`, `MakePending`. A callback is a record with
its program counter: `Ready` is VmReady up to its transition, `Get` and `Set` the two
halves of `Manager.Transition`, then the hook `handleProcessing`, `Check` to `Drop`;
`Fail` to `FailUpdate` are the transition to error, which `withError` and
VmConditions ask for. Stop is `StopLoads` to `StopCommits`. `CommandFails`
puts one error into any of these and follows it to where the code returns it,
logs it or hides it; `Cut` and `Restart` are cancelled requests and restarts,
the latter with `reconcileOrphanTasks`.

Both backends are in one model (`mode`): locally the notifier calls VmReady in a
loop that ends at the first success, and environments have no id; in the cloud
callbacks come at any time, several at once. Abstractions: the engine is started
or not (`LocalAgent` has what follows); one VM and one task of it; the recycle of
Stop is its delete, cleanup and result (`VMRecycle` has its retries). `raced` and
`overtaken` are history and name the two overlaps the code does not defend against.

### TaskStream

A chunk is its position in the output, a turn ends with one that is task-ended.
`published`, `ends` and each viewer's `queue` are `LiveStream`; a viewer is a
connection of `TaskHandler.stream` with three goroutines, each a program counter:
`reader` (`readClientMessages`), `pump` (`TaskLive`, which writes to the socket
itself in new mode) and `consumer` (`attachStream`). `Copy`, `Replay`, `Subscribe`
are separate, as the code holds the stream's mutex for each alone. The channels
have their capacities. A log store, if there is one, lags behind (`ingested`); it
is asked twice, for the turn and for its entries. `Break`, `Ping` and `Close` end
connections from either side. A message of the user is `UserInput` and `Echo`, which may
fail to write and end the reader, or `OtherMessage`; then `HandleMessage`.

Abstractions: time is the order of chunks, so `attachNow` is the number of chunks
published; a chunk stamped by a host whose clock differs is not covered. The
select of a consumer that finds both a chunk and a cancelled context takes
either. Sequence numbers, the kinds of other chunks and the cursor for older
rounds are left out. `from` and `missed` are history: what a viewer
should see, in new mode all that follows its first user-input, and what passed it by.

### IdleReminders

A recycle time is a number. `entry` and `job` are the notify queue by tier,
`deadline` the entry of the recycle queue, `stream` the event stream, `log` the
send log. A refresher is `refresh` to `applyActivityPlan`, one action per queue
command, under the policy it has resolved; `Skip` is the recycle consumer that
finds activity. `Claim` to `DeleteJob` are the queue's consumer with
`notifyConsumer`, as in `VMRecycle` on a queue that `DelayQueue` models in detail;
`Read` to `Acknowledge` the dispatcher: the channels, the check of the send log, the
send, which may fail and have delivered, and the log entry, one goroutine per
subscription. `RefID` is the name an
event has in the send log, its tier and recycle time; the mutant `RefIDOfTier`
shows what the time in it is for.

Attempts are not counted: a handler that fails is retried or was at its last
attempt. A recycled VM is cleaned tier by tier. Nothing in the repository calls
`Dispatcher.Start`; the model is of the code as it would run.

### RecycleContract

What a reader of the database and the host may rely on, with no goroutines,
lock, queue or retry: an environment goes and does not come back; a VM is
recycled when its environment is gone or somebody entitled gave it up
(`waived`); then it gets one record, once, which is true unless something went
wrong (`doubt`); tasks end, and only one whose start was `asked` for
from the beginning runs again; a VM is deleted after that, its tasks ended. `VMRecycle` maps its state to these variables (`Contract`, an INSTANCE WITH)
and every step of it is one of the contract's or changes nothing there:
`ImplementsContract`.

### QueueContract

What those who use a delay queue count on, an id at a time and with no commands in
between: it is scheduled together with its job, comes due, is claimed by one
consumer, handed over with the job that was stored (`Deliver`), and then gone,
queued again with one attempt more, or rescheduled afresh. The promise is made of an id
while it is not in `doubt`: nothing failed on it, and its users took turns.

`DelayQueue` maps to it with views that look through an operation in progress: `When`
is the entry, or the one its owner is about to add (`AboutToAdd`), `Data` the
key, or what is about to be written there or deleted (`AboutToWrite`), `Hands` who
has claimed the id and the job it handles. So the first step of an operation
is the contract's and the others change nothing: where users take turns, nobody
can tell. `Doubt` is `raced` and `faulted`.

### EngineContract

What watchers and requests may rely on, with no mutex, record or reader: turns
start in order, when no other is at work and only while the VM is there (`Start`);
a Create that cannot start one is told so at once (`NoStart`), and a Continue
that cannot has made none; the end of a turn is
told once and as it was (`TellEnd`), as cancelled only for a turn a Cancel asked
for and stopped (`TellCancelled`), and not at all only for one that was stopped,
replaced or cancelled (`PassOver`). `LocalAgent` maps to it by renaming, with
`doubt` for `clash`: once an engine is started beside another request, nothing is
promised any more.

## Runs

| Run | Checks | Instance | Shows |
|---|---|---|---|
| `DelayQueue_safety` | `TypeOK`, `NoStrandedJob`, `NoOrphanInSequentialUse`, `ClaimedOnce`, `ImplementsContract` | 2 ids, 1 caller, 2 consumers, batch 2, 1 fault | the two structures stay in step, short of failures and overlapping use; claims are exclusive; the refinement of `QueueContract` |
| `DelayQueue_race` | `NoIsolatedEntry`, violated | 1 id, 1 caller, 1 consumer, no fault | finding 1 |
| `VMRecycle_faults` | `TypeOK`, `OneRecycler`, `JobOutlivesTasks` | 2 goroutines, 1 task that waits for its VM, 1 attempt, 1 fault, Stop, a policy that does not recycle | the protocol through a crash, a failed command or an overrun lock, with vm-ready at any point |
| `VMRecycle_retries` | `RecycledMeansGone`, `RecordIsTrue`, `ImplementsContract` | 2 goroutines, 1 task that waits for its VM, 2 attempts of an idle recycle, both policies, nobody closes the task | no environment is lost without a fault, however the host answers; the refinement of `RecycleContract` |
| `VMRecycle_live` | `RetryIsKept`, `StopRecycles` | 2 goroutines, 1 task, 2 attempts, Stop and Delete of the task, expiry, both policies | a Stop that had to be retried is kept and ends |
| `VMRecycle_policy` | `StopIsRetried`, violated | 1 goroutine, policy without recycling | finding 2 |
| `LocalAgent_turns` | `TypeOK`, `OneEngine`, `EndsOnce`, `SilentOnlyIfAsked`, `AgentIsRead`, `DeleteStopsEngine`, `ImplementsContract` | 2 goroutines, 2 turns | one process at a time, one end per turn, no turn silent unasked, in every order of the critical sections; the refinement of `EngineContract` |
| `LocalAgent_cancel` | `CancelEndsTurn`, violated | 1 goroutine, 1 turn | finding 3 |
| `TaskLifecycle_ready` | `TypeOK`, `SuccessIsTaken`, `StartedOnce`, `NoSpuriousError`, `StoresAgree`, `StopLeavesNothing`, `FinishedStays`, `ReadyIsDelivered` | local and cloud, 2 callbacks, 3 attempts, 1 fault | who starts or fails the task in every order of Create, callbacks and Stop; the stores agree at rest, after a completed Stop in what the row says |
| `TaskStream_view` | `TypeOK`, `InOrder`, `SeesAll`, `EndReaches`, `LeavesNoSubscriber` | 1 viewer, 3 chunks, buffer 2, queue and channel 1, with and without log store | order and completeness of what is shown, that the end is acted on, and that nothing is left behind |
| `TaskStream_end` | `ClosedAtEnd`, violated | 1 viewer, 1 chunk | finding 4 |
| `IdleReminders_notices` | `TypeOK`, `OncePerWindow`, `NoWindowSilenced`, `RemindersFollow` | 2 backends, 1 refresher, 1 tier, 1 subscription, 2 times, 2 faults | one reminder per recycle time, and none out of step with the deadline |
Each property is violated when a plausible bug is put into the code it is about;
the mutants are in the modules next to what they change, marked "Mutant".

**Bounds.** Two consumers and a caller are enough for every pair of operations
to interleave on an id and for batches to overlap; two attempts distinguish the
first, the last and a retry beyond it; one fault puts a failure or crash between
any two steps. In `LocalAgent` two turns are one that is replaced and the one that
replaces it, and two goroutines any two requests that overlap. Two goroutines in
`VMRecycle` give every pair of callers of recycle; the proofs remove these bounds
for the safety properties. `MaxFaults` bounds the faults of one behaviour and
nothing else is cut off. In `TaskLifecycle` two callbacks give every pair of transitions that overlap, and
a third attempt is one between the first and the last. In `TaskStream` the
connections share only what is published, so one viewer is enough; three chunks
exceed the buffer by one and the queue by two and leave room for an end between
them. `IdleReminders` has the two backends that duplicates need, and two recycle
times, an old one and a new one. A batch of one is as good as a longer one to the
properties, and longer ones exceed a reasonable time. Larger instances were run
once and pass: two refreshers in `IdleReminders` (1.5 million states), four chunks
for the invariants of `TaskStream` (2.8 million), the refinement of
`RecycleContract` under a fault (3.2 million), `VMRecycle_faults` with expiry (3.6
million).

`VMRecycle_faults` looks at states without the history its properties
do not read (`MCView`), and `VMRecycle_live` follows a behaviour up to the mark,
which no step takes back. The ways into a recycle are shared
among the three runs: with all of them at once a run is too long for its worth, as two
goroutines meet two at a time. The proofs cover all of them together. `CHECK_DEADLOCK FALSE` is set where the system may stop: once a VM is deleted,
or the turns of a behaviour are used up, there is nothing left to do.

**Fairness.** Consumers poll by ticker and are restarted after an error, a
goroutine that started an operation goes on with it (Go's scheduler, Redis and
database calls with timeouts), and time passes: weak fairness. In `VMRecycle` the claim
is strongly fair: a consumer that polls finds the VM's due job sooner or later,
however often it was moved before. `DelayQueue` has no liveness property: that
no id is passed over for ever rests on the order of scores, which it abstracts. Callers,
agents, activity and faults owe nothing. The premise of `StopRecycles` is that
activity ends: an idle VM with endless activity is rightly never recycled.
In `TaskLifecycle` the goroutines of Create, Stop and the callbacks go on, and so
does the local notifier, a loop in this process; the cloud's callbacks, users and
conditions come when they do. `ReadyIsDelivered` therefore speaks of local mode, and
allows the notifier to have used up its attempts: nothing bounds how long Create
takes. In `TaskStream` the goroutines of a connection go on and sockets take what
is written to them; output, the log store, messages and disconnections owe
nothing. `EndReaches` speaks of an end that is on its way, `ClosedAtEnd` (violated) of one
that was shown, `LeavesNoSubscriber` of a
connection whose reader is over: none assumes that a turn ends or that a user leaves.
`IdleReminders` has no fairness and no liveness property, as nothing starts the
dispatcher.

## Proofs

All by TLAPS, for every number of ids, callers, consumers, goroutines and tasks
and every bound on attempts, faults, turns, callbacks, viewers, chunks and
capacities. Assumptions: `QueueAssumption`, `RecycleAssumption`, `AgentAssumption`,
`LifecycleAssumption`, `StreamAssumption` and `RemindersAssumption` (bounds are naturals, capacities and batches
at least one, at least one attempt, the null values are none of the data).

* `DelayQueueProofs`: `TypeCorrect`; `NoPayloadLeftBehind`, inductive with the
  types; `SequentialUseKeepsJobs` and `ClaimIsExclusive`, from `SequentialInv`.
  That an entry has its key depends on who is in the middle of what: the
  invariant says that an id which is not raced is in one pair of hands
  (`Exclusive`) and what those hands have done so far (`CallerInStep`,
  `WorkerInStep`).
* `VMRecycleProofs`: `TypeCorrect`; and `RecycleInvariant`,
  from which `RecycleIsExclusive`, `NoEnvironmentIsLost`, `RecordsTellTheTruth`
  and `RecycleJobGoesLast` follow. `RecycleInv` says what each goroutine knows at
  each step: who is inside holds the lock or has overrun it (`HoldsLock`), who is
  about to mark has deleted the environment or was forced (`KnowsVM`), which
  tasks it has yet to finish, those started again since its load apart
  (`KnowsTasks`), and that a forced mark is on record
  or about to be by the holder of the lock (`ForcedIsRecorded`). None of the four
  properties is inductive alone: each speaks of the end of a sequence of steps
  whose middle it says nothing of. The proof goes action by action for the
  goroutine that moves, and uses that `KnowsVM` and `KnowsTasks` of the others only
  depend on facts that no step undoes (`Onward`), but for the start of a task by
  a hook, which has a lemma of its own.
* `LocalAgentProofs`: `AgentInvariant`, from which the six invariants of
  `LocalAgent_turns` follow. What a property says of a turn that is over depends
  on who had it in hand: `AgentInv` says that a turn is attached once and taken
  once (`AttachOnce`, `StopsOnce`), that `stopped` speaks of turns being read when
  a Cancel came (`Silence`), that without a clash an engine is started alone and
  after the old one was taken (`StartsAlone`), and that a turn a Cancel has taken
  gets no end from its reader (`CancelSilences`, `NoEndYet`). One lemma per action.
* `TaskLifecycleProofs`: `LifecycleInvariant`, in three layers. `Always` relates a
  callback's program counter to what it has read, and Create's to what it has
  written: a state other than none needs Create to have come that far. `UntilFault`
  holds until something fails (the request is stored before the task is pending;
  what is in the middle of a transition accounts for every difference of Redis and
  database), `UntilRace` until transitions overlap (one callback at a time is past its
  look). The layers are what the excuses `faults = 0` and `~raced` in the properties
  mean. `StoresAgree` needs Stop in them as well: one that has completed leaves the row finished
  and Redis behind. The six invariants follow, and `FinishedIsLeftAlone` from the types.
* `TaskStreamProofs`: `StreamInvariant`. A chunk travels along a path, replay, channel,
  queue for the stream and history beside it, and `InOrder` is about the end of that
  path: the invariant says that the whole path is ordered, sections included
  (what was written before what is in the channel before what is to be
  replayed or queued, all of it before what is yet to come), and for `SeesAll` that
  a chunk the viewer should see is on the path, written, or in `missed`. `Sorted`
  and `In` stay opaque in the steps, with lemmas on appending and taking.
* `VMRecycleProofs`, `RecycleImplementsContract`: the initial states map to an
  initial state of `RecycleContract` and each action to one of its steps or a stutter,
  from `RecycleInv`: that the environment is gone at the mark, and that a record is
  written once, is what the invariant says of the goroutine that is there.
* `VMRetryProofs`: `RetryStaysKept`. The retry goes from hand to hand: queued
  (`Pending`), handled, or dropped by a consumer that found the lock taken. The
  last is what needs an argument: `HandedOver` says that somebody else is then
  recycling, who recycles the VM or queues the retry again, and rests on
  `LockInUse` (the holder is inside), `Role` (what a goroutine recycles for and what may
  come of it) and `OneJob` (a second job would have been counted in `owed`). `KnowsVM`
  of `RecycleInv` supplies that a nil return means recycled.
* `IdleRemindersProofs`: `RemindersHold`, two invariants side by side. `DeliveryInv`
  says what stands behind the send log: an entry or a dispatcher about to write it for
  everything sent (`LogIsTrue`, `SentIsKnown`), and one dispatcher at a time
  (`SendsFirst`, `SendsAlone`), unless the delivery is in `unsure`, as after a send that
  was delivered and failed. `JobsInv` says who
  holds a job: one refresher moves the jobs unless `mixed`, one consumer has a
  tier in hand unless it is in `raced`, and what is queued, in hand or fired follows
  the plan of whoever moves it. What the jobs do leaves `DeliveryInv` alone.
* `LocalAgentProofs`, `EngineImplementsContract`: each action is one move of
  `EngineContract` or none; the moves' guards are what `AgentInv` says of the process,
  reader or request that moves. One more invariant is needed, `CancelAsked`: what a
  Cancel has taken was being read when the Cancel came, so that "cancelled" is never told of
  a turn that started later. It rests on `Silence` and `CancelStops`.
* `QueueContractProofs`: `QueueImplementsContract`. The views look at what all
  processes are about to do, and the invariants reduce that to one: an id not in
  doubt is used by nobody, by one caller or by one consumer (`Exclusive`), and
  the lemma `Viewed` says what the contract sees in each case. A step of a process then changes
  the view of the ids it uses only, as one step of the contract. `SequentialInv` does not
  say what a handler was given: that is `ClaimedJobsStay`, that a claimed id keeps its
  job until it is handled, and the job as it is stored.

Only model-checked: the liveness properties (`StopRecycles`,
`ReadyIsDelivered`, `EndReaches`, `LeavesNoSubscriber`), which TLAPS has no rules for
under fairness.

## What the models show

1. *Finding.* `Enqueue` does not always rebuild the job data when `pollOnce`
   deletes the old key, as its comment says: with SET and ZADD between the claim
   and that delete, the entry stays and the payload goes. `NoOrphanInSequentialUse`
   says what does hold.
2. *Finding.* The retry a failed Stop leaves to the recycle queue is removed by
   activity under a policy that does not recycle idle VMs. `RetryIsKept` says
   when it is safe.
3. *Finding.* The comment on `stopped` says that Cancel has published the end
   when the flag makes a reader silent. A process that ends between Cancel's two
   critical sections is silent, and Cancel then finds no process and publishes
   nothing. `SilentOnlyIfAsked` says what does hold: only a turn that somebody
   stopped, replaced or tried to cancel passes without an end.
4. *Finding.* The attach design
   (`backend/docs/superpowers/specs/2026-04-01-stream-attach-latest-round-design.md`, lines
   8, 10, 67 and 75) says that the WebSocket is closed immediately on task-ended. The code cancels
   the connection's context; its reader waits in `ReadMessage`, which no
   context ends, and the socket stays open until the user leaves or sends a message. That
   message is handled with the cancelled context and lost. `EndReaches` says what does hold:
   the context is cancelled.
Further observations:

* The first finding also reaches Stop: a hook that queues its retry while a
  consumer at its last attempt returns `ErrInProgress` loses it (`owed` =
  "overtaken").
* The compensation after the last attempt marks and records without the recycle
  lock; a recycle that overlaps it may record the environment as deleted. The
  same follows from a `ForceRecycle` that fails between mark and record.
  `RecordIsTrue` excuses both and nothing else.
* The compensation leaves the tasks of the VM as they are, and on a soft-deleted
  row it fails and is retried for ever, as its update does not see such rows.
* The lifecycle state stays "recycled" when the hook fails, so that a second
  Stop does not try again; the queue is the only retry.
* Five attempts a minute apart end before the ten minutes of a dead holder's
  lock: a job may use them up on `ErrInProgress` and be dropped.
* Two Continue requests that overlap both find no agent and both start a process;
  the one attached first is then out of reach of Cancel, Restart and Delete. A
  Delete that overlaps a start leaves the process behind too. `OneEngine` and
  `DeleteStopsEngine` excuse these overlaps (`clash`) and nothing else.
* The end of a turn is published after the mutex is released: it may come after
  the next turn has started.
* A Continue that cannot start the engine publishes no end, where Create does: those
  who watch the turn wait.
* A line of output above 4 MB ends the reading; the process may then block on the
  full pipe, and Continue is refused until somebody cancels.

* What is published between the replay of the live stream and the subscription is
  in neither, and a full queue drops chunks, a task-ended included: a viewer that
  misses it waits for the next. Chunks that the log store did not have when it was
  asked are dropped as history by their timestamps. In new mode the user's message is
  handled while the stream is being subscribed to: what its turn puts out before is
  lost to that viewer. `SeesAll` counts all four in `missed` and shows that nothing else is
  skipped.
* Without a log store a viewer is shown the whole buffer up to its first end of a
  turn, not the latest turn
  (`backend/docs/superpowers/specs/2026-04-01-stream-attach-latest-round-design.md` has
  the log store in mind).
* A connection registers under its task's id, one per task: the second replaces
  the first, and the first that ends removes the second.
* Two vm-ready callbacks between look and update start the engine twice; a failed
  condition or a Stop in the middle of a start leaves Redis and the database
  apart. A request that is cancelled between the two leaves Redis at processing and
  the row pending, after which every vm-ready is refused. `StartedOnce` and
  `StoresAgree` name these overlaps (`raced`, `faults`).
* With no fault and no overlap, too, Redis goes on saying pending or processing of a
  task that was stopped: neither Stop nor the cleanup of a recycle touches
  `lifecycle:<task>` (cleanup deletes `lifecycle:<vm>`, vmrecycle.go:227).
  `StoresAgree` says that this is the only difference, and that the row is then
  finished.
* A vm-ready that looked before a recycle deleted the creation request, and acts after
  it, sets a finished task processing on a VM without environment, and it is the
  host's answer to the hook's next call that decides about it. So a recycled VM may
  have a running task. `JobOutlivesTasks` and `RecycleContract`
  allow this task and no other.
* Locally environments have no id, and the recycle deletes by that id
  (vmrecycle.go:130-134): the local Delete finds nothing and reports no error
  (vm.go:195-204), so the VM is marked recycled and its record says deleted while engine
  and workspace stay. The same holds of a cloud Stop that loaded the VM before Create had
  written the id, if the host accepts it. `VMRecycle` speaks of a host that names its
  environments; `StopLeavesNothing` of the cloud.
* The periodic enqueue of expiries writes the times it has read: a renewal in
  between is overwritten by the old time, and the consumer recycles by force without
  another look. Its first database error ends it (host.go:82-104).
* A refresh that fails after its debounce key is set is not repeated for thirty
  seconds, and activity on a recycled VM plans reminders anew.
* A send that was delivered and answered with an error, as on a timeout, is logged as failed;
  the check of the send log counts successes only (sendlog.go:47-54), so that a second
  event of the same reminder is delivered again. `OncePerWindow` excuses it.
* A notification that fails to be sent is logged as failed and never retried; one
  whose channels cannot be read is acknowledged and gone. A dispatcher has a new consumer name at
  each start, so that what it had read when it stopped is never read again.

## Not modelled, and why

User interfaces, packaging, generated database code and adapters to external
services hold no protocol of this system. The CRUD use cases are one transaction
each. The remote taskflow service and the host are outside the repository: their
delete is an external step that may work, fail, or do both.

The sleep queue of an idle VM, the control channel, the paging of older rounds,
terminals, ports and files are each one forwarded call or one idempotent command.
The expiry times of a VM, their renewal and their periodic enqueue are left out for
an expiry that may come at any time. The tasker has no caller. The recycle analyzer
reads and reports. Task summaries are a consumer of the delay queue with one model
call each.

## What is left

* One composition of `TaskLifecycle` and `LocalAgent`, whose start of an engine is
  one step here and several there.
* The tool registry syncer of the MCP hub.
* Contracts like those of the queue, the recycle and the engine for `TaskLifecycle` (Redis
  and database as one state) and `TaskStream` (one output, read in order).
