----------------------------- MODULE VMRecycle ------------------------------
(***************************************************************************)
(* Recycling one task VM: vmrecycle.recycle and everything that calls it   *)
(* or feeds its queue.                                                     *)
(*                                                                         *)
(*   Stop, Delete of a task  -> vm lifecycle -> VMRecycleHook -> Recycle   *)
(*   DeleteVM                -> ForceRecycle -> delete the row             *)
(*   the expiry consumer     -> ForceRecycle                               *)
(*   the recycle consumer    -> handleRecycleJob -> Recycle                *)
(*   VMActivity, Continue    -> RecordActivity -> move the recycle job     *)
(*   the deadline repair     -> EnqueueIfMissing of the recycle job        *)
(*   an agent that comes back to a recycled VM -> remote delete            *)
(*   vm-ready and failed conditions -> the status of a task                *)
(*                                                                         *)
(* Each of these is a goroutine that may run beside the others; each       *)
(* command to the database, Redis or the host is a step.  A job of the     *)
(* delay queue is written and removed in one step here (module DelayQueue  *)
(* takes those apart) but its key is deleted after the handler, separately *)
(* from its entry, because that is what a concurrent Enqueue runs into.    *)
(***************************************************************************)
EXTENDS Naturals, FiniteSets

CONSTANTS
    Procs,        \* goroutines: requests, and consumers of the recycle queue
    Tasks,        \* tasks bound to the VM
    Asked,        \* those still waiting for their VM
    Closings,     \* how users close tasks: "task_stop", "task_delete"
    Policies,     \* values RecycleEnabled of the team's policy may take
    CountDown,    \* the VM has an expiry, as those made by hand or for git tasks
    MaxAttempts,  \* maxAttempts of the recycle queue
    MaxFaults,    \* bound: failed commands, crashes and overrun locks
    Nobody,       \* the lock is free
    NoJob,        \* no data under the job key
    NoRecord      \* no recycle record

Methods == {"idle", "task_stop", "task_delete", "manual_delete", "expired"}
Jobs == [method : Methods, attempts : 0 .. MaxAttempts - 1, exhausted : BOOLEAN]

ASSUME RecycleAssumption ==
    /\ Asked \subseteq Tasks
    /\ Closings \subseteq {"task_stop", "task_delete"}
    /\ Policies \subseteq BOOLEAN
    /\ CountDown \in BOOLEAN
    /\ MaxAttempts \in Nat \ {0}
    /\ MaxFaults \in Nat
    /\ Nobody \notin Procs
    /\ NoJob \notin Jobs
    /\ NoRecord \notin [method : Methods, remoteDeleted : BOOLEAN]

VARIABLES
    vm,        \* the row: is_recycled and deleted_at
    remote,    \* the environment exists on its host
    record,    \* the recycle record of the VM
    task,      \* each task: "running" or, finished or in error, "ended"
    vmState,   \* lifecycle:<vm> in Redis
    active,    \* some task was active within the recycle window
    request,   \* tasks whose task:create_req is in Redis
    starting,  \* tasks a vm-ready's hook is about to set processing
    lock,      \* vm:recycle:lock:<vm>
    entry,     \* vm:idle:recycle has the VM: "none" | "later" | "due"
    job,       \* the job key of the VM in that queue
    proc,      \* what each goroutine is doing
    faults,    \* number of faults so far
    \* History, read by properties only.
    overrun,   \* goroutines inside recycle whose lock has expired under them
    abandoned, \* who marked the VM recycled without its environment being gone
    owed,      \* whether a Stop or Delete left the VM to the recycle queue
    reopened   \* tasks set processing again since a goroutine loaded the VM

db == <<vm, remote, record, task>>
redis == <<vmState, lock, entry, job>>
use == <<active, request, starting>>
history == <<overrun, abandoned, owed, reopened>>
vars == <<db, redis, use, proc, faults, history>>

Errors == {"nil", "in progress", "remote delete", "other"}

\* Where a goroutine is: in Transition, in recycle, in its caller after it, in
\* the recycle consumer, or in applyActivityPlan.
Inside == {"load", "remote", "mark", "record", "tasks", "clean", "unqueue", "release"}
Loaded == Inside \ {"load", "release"}
PCs == {"idle", "transition", "acquire", "return", "commit"} \cup Inside
         \cup {"handle", "retry", "done", "compensate", "compensate record"}
         \cup {"deadline"}

Idle == [pc |-> "idle", op |-> "none", method |-> "idle", force |-> FALSE,
         enabled |-> FALSE, snapshot |-> {}, gone |-> FALSE, clean |-> TRUE,
         err |-> "nil", job |-> NoJob, task |-> {}]

ProcStates ==
    [pc : PCs,
     op : {"none", "task", "delete vm", "expire", "job", "activity", "repair"},
     method : Methods,          \* the method passed to recycle
     force : BOOLEAN,           \* ignoreRemoteDeleteFailure
     enabled : BOOLEAN,         \* policy.RecycleEnabled as resolved
     snapshot : SUBSET Tasks,   \* non-terminal tasks of the VM as loaded
     gone : BOOLEAN,            \* remoteDeleted
     clean : BOOLEAN,           \* cleanup has met no error
     err : Errors,              \* what recycle returns
     job : Jobs \cup {NoJob},   \* the job a consumer handles
     task : SUBSET Tasks]       \* the task a user stops

TypeOK ==
    /\ vm \in [recycled : BOOLEAN, deleted : BOOLEAN]
    /\ remote \in BOOLEAN
    /\ record \in [method : Methods, remoteDeleted : BOOLEAN] \cup {NoRecord}
    /\ task \in [Tasks -> {"running", "ended"}]
    /\ vmState \in {"none", "running", "recycled"}
    /\ active \in BOOLEAN
    /\ request \subseteq Tasks
    /\ starting \subseteq Tasks
    /\ lock \in Procs \cup {Nobody}
    /\ entry \in {"none", "later", "due"}
    /\ job \in Jobs \cup {NoJob}
    /\ proc \in [Procs -> ProcStates]
    /\ faults \in 0 .. MaxFaults
    /\ overrun \subseteq Procs
    /\ abandoned \in {"no", "forced", "compensated"}
    /\ owed \in {"no", "queued", "overtaken"}
    /\ reopened \in [Procs -> SUBSET Tasks]

\* A VM in use: its tasks run, those that wait for it have a creation request in
\* Redis; its idle deadline is scheduled if the policy recycles idle VMs.
Init ==
    /\ vm = [recycled |-> FALSE, deleted |-> FALSE]
    /\ remote = TRUE
    /\ record = NoRecord
    /\ task = [t \in Tasks |-> "running"]
    /\ vmState = "running"
    /\ active = TRUE
    /\ request = Asked
    /\ starting = {}
    /\ lock = Nobody
    /\ \/ entry = "none" /\ job = NoJob
       \/ /\ TRUE \in Policies
          /\ entry = "later"
          /\ job = [method |-> "idle", attempts |-> 0, exhausted |-> FALSE]
    /\ proc = [p \in Procs |-> Idle]
    /\ faults = 0
    /\ overrun = {}
    /\ abandoned = "no"
    /\ owed = "no"
    /\ reopened = [p \in Procs |-> {}]

-----------------------------------------------------------------------------
At(p, pc) == proc[p].pc = pc
Update(p, s) == proc' = [proc EXCEPT ![p] = s]
Goto(p, pc) == Update(p, [proc[p] EXCEPT !.pc = pc])
Finish(p) == Update(p, Idle)
Start(p, s) == At(p, "idle") /\ Update(p, s)

\* recycle returns err, its locals forgotten; its deferred release runs first.
Leave(p, err) ==
    Update(p, [proc[p] EXCEPT !.pc = "release", !.err = err,
                              !.snapshot = {}, !.gone = FALSE, !.clean = TRUE])

NewJob(method) == [method |-> method, attempts |-> 0, exhausted |-> FALSE]
Enqueue(method, at) == entry' = at /\ job' = NewJob(method)
Remove == entry' = "none" /\ job' = NoJob

Terminal(t) == task[t] # "running"
\* Another goroutine is handling the VM's job: whatever is queued now it may
\* overwrite or leave without data.
HandledBeside(p) == \E q \in Procs \ {p} : proc[q].op = "job"

Same == UNCHANGED <<faults, history>>
Fault == faults < MaxFaults /\ faults' = faults + 1

-----------------------------------------------------------------------------
(* vmrecycle.recycle.                                                      *)

Recycle(s, method, force) ==
    [s EXCEPT !.pc = "acquire", !.method = method, !.force = force]

Acquire(p) ==
    /\ At(p, "acquire")
    /\ lock = Nobody
    /\ lock' = p
    /\ overrun' = overrun \ {p}
    /\ Goto(p, "load")
    /\ UNCHANGED <<db, vmState, entry, job, use, faults, abandoned, owed, reopened>>

\* ErrInProgress; nothing to release.
AcquireHeld(p) ==
    /\ At(p, "acquire")
    /\ lock # Nobody
    /\ Update(p, [proc[p] EXCEPT !.pc = "return", !.err = "in progress"])
    /\ UNCHANGED <<db, redis, use>> /\ Same

\* Soft-deleted rows are loaded too.
LoadVM(p) ==
    /\ At(p, "load")
    /\ Update(p, [proc[p] EXCEPT
                     !.pc = IF vm.recycled THEN "record" ELSE "remote",
                     !.gone = vm.recycled,
                     !.snapshot = {t \in Tasks : ~Terminal(t)}])
    /\ UNCHANGED <<db, redis, use>> /\ Same

\* The host deletes the environment, or does not know it any more.
RemoteDelete(p) ==
    /\ At(p, "remote")
    /\ remote' = FALSE
    /\ Update(p, [proc[p] EXCEPT !.pc = "mark", !.gone = TRUE])
    /\ UNCHANGED <<vm, record, task, redis, use>> /\ Same

\* Mutant: a failed remote delete is ignored by every caller.
RemoteDeleteIgnored(p) ==
    /\ At(p, "remote")
    /\ remote' \in {remote, FALSE}
    /\ Goto(p, "mark")
    /\ UNCHANGED <<vm, record, task, redis, use>> /\ Same

\* The call fails; the host may have deleted the environment all the same.
RemoteDeleteFails(p) ==
    /\ At(p, "remote")
    /\ remote' \in {remote, FALSE}
    /\ IF proc[p].force THEN Goto(p, "mark") ELSE Leave(p, "remote delete")
    /\ UNCHANGED <<vm, record, task, redis, use>> /\ Same

MarkRecycled(p) ==
    /\ At(p, "mark")
    /\ vm' = [vm EXCEPT !.recycled = TRUE]
    /\ abandoned' = IF abandoned = "no" /\ proc[p].force /\ ~proc[p].gone
                    THEN "forced" ELSE abandoned
    /\ Goto(p, "record")
    /\ UNCHANGED <<remote, record, task, redis, use, faults, overrun, owed, reopened>>

\* INSERT ... ON CONFLICT DO NOTHING: the first record stays.
Insert(method, remoteDeleted) ==
    record' = IF record = NoRecord
              THEN [method |-> method, remoteDeleted |-> remoteDeleted]
              ELSE record

\* Mutant: what the load saw is recorded, not what the remote delete returned.
CreateRecordDeleted(p) ==
    /\ At(p, "record")
    /\ Insert(proc[p].method, vm.recycled)
    /\ Update(p, [proc[p] EXCEPT !.pc = "tasks", !.clean = TRUE])
    /\ UNCHANGED <<vm, remote, task, redis, use>> /\ Same

CreateRecord(p) ==
    /\ At(p, "record")
    /\ Insert(proc[p].method, proc[p].gone)
    /\ Update(p, [proc[p] EXCEPT !.pc = "tasks", !.clean = TRUE])
    /\ UNCHANGED <<vm, remote, task, redis, use>> /\ Same

\* Mutant: a task that cannot be finished is not remembered.
FinishTaskForgetful(p, t) ==
    /\ At(p, "tasks")
    /\ t \in proc[p].snapshot
    /\ \/ task' = [task EXCEPT ![t] = "ended"] /\ UNCHANGED faults
       \/ Fault /\ UNCHANGED task
    /\ Update(p, [proc[p] EXCEPT !.snapshot = @ \ {t}])
    /\ UNCHANGED <<vm, remote, record, redis, use, history>>

\* The tasks that were not terminal when the VM was loaded, one by one.  A
\* failure is remembered and the loop goes on.
FinishTask(p, t) ==
    /\ At(p, "tasks")
    /\ t \in proc[p].snapshot
    /\ \/ /\ task' = [task EXCEPT ![t] = "ended"]
          /\ Update(p, [proc[p] EXCEPT !.snapshot = @ \ {t}])
          /\ UNCHANGED faults
       \/ /\ Fault
          /\ Update(p, [proc[p] EXCEPT !.snapshot = @ \ {t}, !.clean = FALSE])
          /\ UNCHANGED task
    /\ UNCHANGED <<vm, remote, record, redis, use, history>>

TasksFinished(p) ==
    /\ At(p, "tasks")
    /\ proc[p].snapshot = {}
    /\ Goto(p, "clean")
    /\ UNCHANGED <<db, redis, use>> /\ Same

\* Of the jobs and keys cleanup deletes, the VM's lifecycle and the creation
\* requests of its tasks matter here.  With any error so far cleanup ends here.
DelKeys == vmState' = "none" /\ request' = {}
CleanRedis(p) ==
    /\ At(p, "clean")
    /\ \/ /\ DelKeys /\ UNCHANGED faults
          /\ IF proc[p].clean THEN Goto(p, "unqueue") ELSE Leave(p, "other")
       \/ /\ Fault
          /\ DelKeys \/ UNCHANGED <<vmState, request>>
          /\ Leave(p, "other")
    /\ UNCHANGED <<db, lock, entry, job, active, starting, history>>

\* The recycle job goes last.
RemoveRecycleJob(p) ==
    /\ At(p, "unqueue")
    /\ Remove
    /\ Leave(p, "nil")
    /\ UNCHANGED <<db, vmState, lock, use>> /\ Same

\* Mutant: DEL whoever holds the lock.
ReleaseAnyLock(p) ==
    /\ At(p, "release")
    /\ lock' = Nobody
    /\ overrun' = overrun \ {p}
    /\ reopened' = [reopened EXCEPT ![p] = {}]
    /\ Goto(p, "return")
    /\ UNCHANGED <<db, vmState, entry, job, use, faults, abandoned, owed>>

\* DEL if the lock still holds this call's token.
Release(p) ==
    /\ At(p, "release")
    /\ lock' = IF lock = p THEN Nobody ELSE lock
    /\ overrun' = overrun \ {p}
    /\ reopened' = [reopened EXCEPT ![p] = {}]
    /\ Goto(p, "return")
    /\ UNCHANGED <<db, vmState, entry, job, use, faults, abandoned, owed>>

\* A command of recycle fails.
RecycleFails(p) ==
    /\ proc[p].pc \in {"load", "mark", "record", "unqueue"}
    /\ Fault
    /\ Leave(p, "other")
    /\ UNCHANGED <<db, redis, use, history>>

AcquireFails(p) ==
    /\ At(p, "acquire")
    /\ Fault
    /\ Update(p, [proc[p] EXCEPT !.pc = "return", !.err = "other"])
    /\ UNCHANGED <<db, redis, use, history>>

RecycleStep(p) ==
    \/ Acquire(p) \/ AcquireHeld(p) \/ LoadVM(p)
    \/ RemoteDelete(p) \/ RemoteDeleteFails(p)
    \/ MarkRecycled(p) \/ CreateRecord(p)
    \/ \E t \in Tasks : FinishTask(p, t)
    \/ TasksFinished(p) \/ CleanRedis(p) \/ RemoveRecycleJob(p) \/ Release(p)

-----------------------------------------------------------------------------
(* Stop and Delete of a task: the lifecycle manager moves the VM to        *)
(* recycled, whose hook recycles it; then the task itself is closed.       *)

\* HGET of the lifecycle state; nothing leads out of recycled.  A failed HGET
\* reads as no state at all.
CloseTask(p, t, method) ==
    /\ ~vm.deleted
    /\ method = "task_delete" => ~vm.recycled
    /\ \/ Same /\ Start(p, [Idle EXCEPT !.op = "task", !.method = method, !.task = {t},
                     !.pc = IF vmState = "recycled" THEN "commit" ELSE "transition"])
       \/ /\ Fault /\ UNCHANGED history
          /\ Start(p, [Idle EXCEPT !.op = "task", !.method = method, !.task = {t},
                                   !.pc = "transition"])
    /\ UNCHANGED <<db, redis, use>>

\* HSET, then the hook calls Recycle.  Any error of a transition is logged.
Transition(p) ==
    /\ At(p, "transition")
    /\ \/ /\ vmState' = "recycled"
          /\ Update(p, Recycle(proc[p], proc[p].method, FALSE))
          /\ UNCHANGED faults
       \/ /\ Fault /\ UNCHANGED vmState
          /\ Goto(p, "commit")
    /\ UNCHANGED <<db, lock, entry, job, use, history>>

\* VMRecycleHook: a failed Recycle is left to the recycle queue, to run now.
HookReturns(p) ==
    /\ At(p, "return") /\ proc[p].op = "task"
    /\ Goto(p, "commit")
    /\ \/ /\ proc[p].err = "nil"
          /\ UNCHANGED <<entry, job>> /\ Same
       \/ /\ proc[p].err # "nil"
          /\ Enqueue(proc[p].method, "due")
          /\ owed' = IF HandledBeside(p) THEN "overtaken" ELSE "queued"
          /\ UNCHANGED <<faults, overrun, abandoned, reopened>>
       \/ /\ proc[p].err # "nil"
          /\ Fault /\ UNCHANGED <<entry, job, history>>
    /\ UNCHANGED <<db, vmState, lock, use>>

\* The transaction of Stop commits.  Delete hides the task, status unchanged.
CommitTask(p) ==
    /\ At(p, "commit") /\ proc[p].op = "task"
    /\ \/ /\ task' = [t \in Tasks |->
                        IF proc[p].method = "task_stop" /\ t \in proc[p].task
                        THEN "ended" ELSE task[t]]
          /\ UNCHANGED faults
       \/ Fault /\ UNCHANGED task
    /\ Finish(p)
    /\ UNCHANGED <<vm, remote, record, redis, use, history>>

-----------------------------------------------------------------------------
(* DeleteVM: ForceRecycle, then delete the row.                            *)

DeleteVM(p) ==
    /\ ~vm.deleted
    /\ Start(p, Recycle([Idle EXCEPT !.op = "delete vm"], "manual_delete", TRUE))
    /\ UNCHANGED <<db, redis, use>> /\ Same

\* Mutant: the row is deleted whatever ForceRecycle returned.
DeleteVMRegardless(p) ==
    /\ At(p, "return") /\ proc[p].op = "delete vm"
    /\ Goto(p, "commit")
    /\ UNCHANGED <<db, redis, use>> /\ Same

DeleteVMReturns(p) ==
    /\ At(p, "return") /\ proc[p].op = "delete vm"
    /\ IF proc[p].err = "nil" THEN Goto(p, "commit") ELSE Finish(p)
    /\ UNCHANGED <<db, redis, use>> /\ Same

\* One transaction; nothing is found if the row is deleted already.
DeleteRow(p) ==
    /\ At(p, "commit") /\ proc[p].op = "delete vm"
    /\ \/ /\ ~vm.deleted
          /\ vm' = [recycled |-> TRUE, deleted |-> TRUE]
          /\ task' = [t \in Tasks |-> IF Terminal(t) THEN task[t] ELSE "ended"]
          /\ UNCHANGED faults
       \/ vm.deleted /\ UNCHANGED <<vm, task, faults>>
       \/ Fault /\ UNCHANGED <<vm, task>>
    /\ Finish(p)
    /\ UNCHANGED <<remote, record, redis, use, history>>

-----------------------------------------------------------------------------
(* The expiry queue.  Its consumer does not look at the row: the job may   *)
(* be of a time that was renewed, or of a VM that was recycled meanwhile,  *)
(* so an expiry may come at any time.                                      *)

ExpireVM(p) ==
    /\ CountDown
    /\ Start(p, Recycle([Idle EXCEPT !.op = "expire"], "expired", TRUE))
    /\ UNCHANGED <<db, redis, use>> /\ Same

\* Whatever it returned: a failed job is queued again until its attempts end,
\* and the periodic enqueue renews it, which is another expiry.
ExpireReturns(p) ==
    /\ At(p, "return") /\ proc[p].op = "expire"
    /\ Finish(p)
    /\ UNCHANGED <<db, redis, use>> /\ Same

-----------------------------------------------------------------------------
(* Activity of the VM's tasks moves the recycle job; so does the consumer  *)
(* that finds such activity.  The deadline repair only adds a missing one. *)

\* VMActivity and Continue.  The state is_recycled is not looked at.
RecordActivity(p) ==
    /\ ~vm.deleted
    /\ active' = (active \/ \E t \in Tasks : ~Terminal(t))
    /\ \E enabled \in Policies :
          Start(p, [Idle EXCEPT !.op = "activity", !.pc = "deadline",
                                !.enabled = enabled])
    /\ UNCHANGED <<db, redis, request, starting>> /\ Same

Repair(p) ==
    /\ ~vm.deleted /\ ~vm.recycled
    /\ \E t \in Tasks : ~Terminal(t)
    /\ TRUE \in Policies
    /\ Start(p, [Idle EXCEPT !.op = "repair", !.pc = "deadline", !.enabled = TRUE])
    /\ UNCHANGED <<db, redis, use>> /\ Same

\* applyActivityPlan on the recycle queue, or EnqueueIfMissing.
MoveDeadline(p) ==
    /\ At(p, "deadline")
    /\ \/ /\ ~proc[p].enabled
          /\ Remove
          /\ owed' = IF owed = "no" THEN owed ELSE "overtaken"
       \/ /\ proc[p].enabled
          /\ IF proc[p].op = "repair" /\ entry # "none"
             THEN UNCHANGED <<entry, job>>
             ELSE Enqueue("idle", "later")
          /\ owed' = IF owed = "no" \/ ~HandledBeside(p) THEN owed ELSE "overtaken"
    /\ Finish(p)
    /\ UNCHANGED <<db, vmState, lock, use, faults, overrun, abandoned, reopened>>

-----------------------------------------------------------------------------
(* The recycle consumer: pollOnce of the delay queue and handleRecycleJob. *)

\* The claim takes the entry; without a job under the key that is all.
ClaimJob(p) ==
    /\ entry = "due"
    /\ entry' = "none"
    /\ At(p, "idle")
    /\ IF job = NoJob THEN UNCHANGED proc
       ELSE Start(p, [Idle EXCEPT !.op = "job", !.pc = "handle", !.job = job])
    /\ UNCHANGED <<db, vmState, lock, job, use>> /\ Same

IsFinalAttempt(j) == j.attempts + 1 >= MaxAttempts

\* Mutant: attempts keep counting beyond the limit.
RetryUnclamped(j) == [j EXCEPT !.attempts = @ + 1]

\* The job again, at its last attempt for as long as it takes.
RetryForever(j) ==
    [j EXCEPT !.attempts = IF IsFinalAttempt(j) THEN MaxAttempts - 1 ELSE @ + 1]

JobStep(p, pc, j) ==
    Update(p, [Idle EXCEPT !.op = "job", !.pc = pc, !.job = j])

\* An idle job gives way to activity: it moves its own deadline and ends.
HandleJob(p) ==
    /\ At(p, "handle")
    /\ LET j == proc[p].job
           recycle == Update(p, Recycle(proc[p], j.method, FALSE))
       IN  \/ j.exhausted /\ Goto(p, "compensate")
           \/ ~j.exhausted /\ j.method # "idle" /\ recycle
           \/ /\ ~j.exhausted /\ j.method = "idle"
              /\ \/ vm.deleted /\ Goto(p, "done")
                 \/ ~vm.deleted /\ vm.recycled /\ recycle
                 \/ /\ ~vm.deleted /\ ~vm.recycled
                    /\ \/ /\ active /\ TRUE \in Policies
                          /\ \E enabled \in Policies :
                               Update(p, [proc[p] EXCEPT !.pc = "deadline",
                                                         !.enabled = enabled])
                       \/ (~active \/ FALSE \in Policies) /\ recycle
    /\ UNCHANGED <<db, redis, use>> /\ Same

\* Mutant: the last attempt drops the job, whatever it failed with.
JobReturnsNoCompensation(p) ==
    /\ At(p, "return") /\ proc[p].op = "job"
    /\ LET j == proc[p].job
           err == proc[p].err
       IN  \/ /\ err = "nil" \/ IsFinalAttempt(j)
              /\ JobStep(p, "done", j)
           \/ /\ err # "nil" /\ ~IsFinalAttempt(j)
              /\ JobStep(p, "retry", [j EXCEPT !.attempts = @ + 1])
    /\ UNCHANGED <<db, redis, use>> /\ Same

\* At the last attempt a VM whose host does not answer is given up.
JobReturns(p) ==
    /\ At(p, "return") /\ proc[p].op = "job"
    /\ LET j == proc[p].job
           err == proc[p].err
       IN  \/ err = "nil" /\ JobStep(p, "done", j)
           \/ /\ err = "remote delete" /\ IsFinalAttempt(j)
              /\ JobStep(p, "compensate", [j EXCEPT !.exhausted = TRUE])
           \/ /\ err \notin {"nil", "remote delete"} /\ IsFinalAttempt(j)
              /\ JobStep(p, "done", j)
           \/ /\ err # "nil" /\ ~IsFinalAttempt(j)
              /\ JobStep(p, "retry", [j EXCEPT !.attempts = @ + 1])
    /\ UNCHANGED <<db, redis, use>> /\ Same

\* markRecycledForReconnectCompensation.  The update finds no deleted row,
\* which is an error like any other.
Compensate(p) ==
    /\ At(p, "compensate")
    /\ \/ /\ ~vm.deleted
          /\ vm' = [vm EXCEPT !.recycled = TRUE]
          /\ abandoned' = IF vm.recycled THEN abandoned ELSE "compensated"
          /\ Goto(p, "compensate record")
       \/ /\ vm.deleted
          /\ JobStep(p, "retry", RetryForever(proc[p].job))
          /\ UNCHANGED <<vm, abandoned>>
    /\ UNCHANGED <<remote, record, task, redis, use, faults, overrun, owed, reopened>>

CompensateRecord(p) ==
    /\ At(p, "compensate record")
    /\ Insert(proc[p].job.method, FALSE)
    /\ Goto(p, "done")
    /\ UNCHANGED <<vm, remote, task, redis, use>> /\ Same

\* A command of the handler outside recycle fails.
HandlerFails(p) ==
    /\ \/ /\ At(p, "handle")
          /\ proc[p].job.method = "idle" /\ ~proc[p].job.exhausted
       \/ proc[p].pc \in {"compensate", "compensate record"}
       \/ At(p, "deadline") /\ proc[p].op = "job"
    /\ Fault
    /\ JobStep(p, "retry", RetryForever(proc[p].job))
    /\ UNCHANGED <<db, redis, use, history>>

\* Mutant: a job whose handler failed is saved and not queued again.
SaveJobOnly(p) ==
    /\ At(p, "retry")
    /\ job' = proc[p].job
    /\ Finish(p)
    /\ UNCHANGED <<db, vmState, lock, entry, use>> /\ Same

RequeueJob(p) ==
    /\ At(p, "retry")
    /\ job' = proc[p].job /\ entry' = "later"
    /\ Finish(p)
    /\ UNCHANGED <<db, vmState, lock, use>> /\ Same

\* The key only: an entry made since the claim is left without a job.
DeleteJob(p) ==
    /\ At(p, "done")
    /\ job' = NoJob
    /\ Finish(p)
    /\ UNCHANGED <<db, vmState, lock, entry, use>> /\ Same

\* A last command fails and is only logged.
LastCommandFails(p) ==
    /\ \/ proc[p].pc \in {"retry", "done"}
       \/ At(p, "deadline") /\ proc[p].op # "job"
    /\ Fault
    /\ Finish(p)
    /\ UNCHANGED <<db, redis, use, history>>

-----------------------------------------------------------------------------
(* Callbacks of the VM that set the status of a task beside all this.  What *)
(* a callback loaded may be old, and neither Stop nor cleanup touches the  *)
(* task's own lifecycle, so a task that has ended is no obstacle to them.  *)

\* handleProcessing has found the row not processing and read the request.
HookLooks(t) ==
    /\ t \in request \ starting
    /\ starting' = starting \cup {t}
    /\ UNCHANGED <<db, redis, active, request, proc>> /\ Same

\* ... and now sets it processing, whatever it is by now.  The hook of another
\* callback may be as far.
HookStarts(t) ==
    /\ t \in starting
    /\ task' = [task EXCEPT ![t] = "running"]
    /\ starting' \in {starting, starting \ {t}}
    /\ reopened' = [p \in Procs |-> IF Terminal(t) /\ proc[p].pc \in Loaded
                                    THEN reopened[p] \cup {t} ELSE reopened[p]]
    /\ UNCHANGED <<vm, remote, record, redis, active, request, proc, faults,
                   overrun, abandoned, owed>>

\* The hook's deferred DEL of the request, or its TTL.
RequestGoes(t) ==
    /\ t \in request
    /\ request' = request \ {t}
    /\ UNCHANGED <<db, redis, active, starting, proc>> /\ Same

\* A failed condition of the VM, or a hook that failed, here also for want of
\* the request.
TaskFails(t) ==
    /\ ~Terminal(t)
    /\ task' = [task EXCEPT ![t] = "ended"]
    /\ UNCHANGED <<vm, remote, record, redis, use, proc>> /\ Same

TaskCallback(t) == HookLooks(t) \/ HookStarts(t) \/ RequestGoes(t) \/ TaskFails(t)

-----------------------------------------------------------------------------
(* The environment.                                                        *)

BecomesDue ==
    /\ entry = "later"
    /\ entry' = "due"
    /\ UNCHANGED <<db, vmState, lock, job, use, proc>> /\ Same

ActivityAges ==
    /\ active
    /\ active' = FALSE
    /\ UNCHANGED <<db, redis, request, starting, proc>> /\ Same

\* tryRecycledVMDelete: the agent of a recycled VM asks for access.
AgentReturns ==
    /\ vm.recycled /\ remote
    /\ remote' = FALSE
    /\ UNCHANGED <<vm, record, task, redis, use, proc>> /\ Same

\* recycleLockTTL has passed, with the holder dead or still at work.
LockExpires ==
    /\ lock # Nobody
    /\ lock' = Nobody
    /\ IF proc[lock].pc \in Inside
       THEN Fault /\ overrun' = overrun \cup {lock}
       ELSE UNCHANGED <<faults, overrun>>
    /\ UNCHANGED <<db, vmState, entry, job, use, proc, abandoned, owed, reopened>>

Crash(p) ==
    /\ ~At(p, "idle")
    /\ Fault
    /\ Finish(p)
    /\ overrun' = overrun \ {p}
    /\ reopened' = [reopened EXCEPT ![p] = {}]
    /\ UNCHANGED <<db, redis, use, abandoned, owed>>

-----------------------------------------------------------------------------
Begin(p) ==
    \/ \E t \in Tasks, m \in Closings : CloseTask(p, t, m)
    \/ DeleteVM(p) \/ ExpireVM(p) \/ RecordActivity(p) \/ Repair(p)

CallerStep(p) ==
    \/ Transition(p) \/ HookReturns(p) \/ CommitTask(p)
    \/ DeleteVMReturns(p) \/ DeleteRow(p) \/ ExpireReturns(p)
    \/ MoveDeadline(p)

ConsumerStep(p) ==
    \/ HandleJob(p) \/ JobReturns(p)
    \/ Compensate(p) \/ CompensateRecord(p)
    \/ RequeueJob(p) \/ DeleteJob(p)

Failure(p) ==
    \/ RecycleFails(p) \/ AcquireFails(p) \/ HandlerFails(p)
    \/ LastCommandFails(p) \/ Crash(p)

Next ==
    \/ \E p \in Procs :
         \/ Begin(p) \/ ClaimJob(p)
         \/ RecycleStep(p) \/ CallerStep(p) \/ ConsumerStep(p)
         \/ Failure(p)
    \/ \E t \in Tasks : TaskCallback(t)
    \/ BecomesDue \/ ActivityAges \/ AgentReturns \/ LockExpires

Spec == Init /\ [][Next]_vars

\* A goroutine that is doing something goes on; consumers keep polling and a
\* due job is claimed sooner or later; time passes, and a lock whose holder is
\* dead expires.  Requests, agents and faults are under no obligation.
Fairness ==
    /\ \A p \in Procs : WF_vars(RecycleStep(p) \/ CallerStep(p) \/ ConsumerStep(p))
    /\ SF_vars(\E p \in Procs : ClaimJob(p))
    /\ WF_vars(BecomesDue)
    /\ WF_vars(ActivityAges)
    /\ WF_vars(LockExpires /\ UNCHANGED faults)

FairSpec == Spec /\ Fairness

-----------------------------------------------------------------------------
(* Properties.                                                             *)

\* Two goroutines are inside recycle at the same time only when the lock of
\* one of them has run out under it: the NX lock and the compare-and-delete
\* release (vmrecycle.go:172-194) hold through crashes, late releases of an
\* expired lock and calls that find the lock taken.
OneRecycler ==
    \A p, q \in Procs :
       p # q /\ proc[p].pc \in Inside /\ proc[q].pc \in Inside
         => p \in overrun \/ q \in overrun

\* A VM counts as recycled while its environment still exists only when that
\* was decided knowingly: by ForceRecycle after a failed remote delete, or by
\* the consumer at the last attempt.  Plain Recycle never loses an environment.
RecycledMeansGone ==
    vm.recycled => ~remote \/ abandoned # "no"

\* The record says the environment was deleted only if it was: what ForceRecycle
\* marked recycled without deleting, no recycle that follows or overlaps records
\* as deleted.  The consumer's compensation marks and records without the
\* recycle lock, so after it (and after a failure between mark and record)
\* another recycle may take the mark for a deleted environment.
Excused == ~remote \/ abandoned = "compensated" \/ faults > 0
RecordIsTrue ==
    record # NoRecord /\ record.remoteDeleted => Excused

\* When recycle comes to the last step of its cleanup, removing the recycle
\* job, no task of the VM is left running but one that had ended and was set
\* processing again since recycle loaded the VM, by a vm-ready under way: a
\* failure to finish a task keeps the job, through any callback in between.
JobOutlivesTasks ==
    \A p \in Procs :
       At(p, "unqueue") =>
          vm.recycled /\ \A t \in Tasks : Terminal(t) \/ t \in reopened[p]

Pending == entry # "none" /\ job # NoJob
Handled == \E p \in Procs : proc[p].op = "job"
InRecycle == \E p \in Procs : proc[p].pc \in {"transition", "acquire", "return"} \cup Inside

\* What the design document says of a failed recycle after Stop: it is left to
\* the recycle queue for the consumer to retry.
StopIsRetried ==
    owed # "no" => vm.recycled \/ Pending \/ Handled \/ InRecycle \/ faults > 0

\* It is kept until the VM is recycled provided nobody queued a job while a
\* consumer was handling one, and no activity under a policy that does not
\* recycle removed it: requeues, activity, repairs, other users closing tasks
\* and calls that find the recycle in progress do not lose it.
RetryIsKept ==
    owed = "queued" => vm.recycled \/ Pending \/ Handled \/ InRecycle \/ faults > 0

\* Such a Stop ends with the VM recycled once its activity ends, however often
\* the host refuses to delete the environment.
Quiet == ~active /\ \A p \in Procs : proc[p].op \notin {"activity", "repair"}
StopRecycles ==
    <>[]Quiet => (owed = "queued" ~> vm.recycled \/ owed # "queued" \/ faults > 0)

\* Whatever the goroutines, the lock, the queue and the faults do, the
\* environment, the row, the record and the tasks change only as the contract
\* of RecycleContract allows: in its order, the record once and truthfully, the
\* row deleted only after it was recycled, and no task running again that is
\* not about to be started or may still be, by its request.
Contract == INSTANCE RecycleContract WITH
    env <- remote,
    recycled <- vm.recycled,
    deleted <- vm.deleted,
    open <- {t \in Tasks : ~Terminal(t)},
    asked <- request \cup starting,
    waived <- abandoned # "no",
    doubt <- faults > 0 \/ abandoned = "compensated"

ImplementsContract == Contract!Spec

-----------------------------------------------------------------------------
(* The inductive invariant behind the safety properties.                   *)

\* A goroutine that handles a job has one.
Consuming == {"handle", "retry", "compensate", "compensate record"}
HasJob(p) == proc[p].op = "job" \/ proc[p].pc \in Consuming => proc[p].job # NoJob

\* A goroutine inside recycle holds the lock, or has lost it to its TTL.
HoldsLock(p) == proc[p].pc \in Inside /\ p \notin overrun => lock = p

\* recycle believes the environment gone only when it is, and goes on without
\* only when forced.  What follows the mark knows the VM is recycled.
KnowsVM(p) ==
    LET s == proc[p]
    IN  /\ s.pc = "remote" => ~s.gone
        /\ s.pc = "mark" /\ s.gone => ~remote
        /\ s.pc = "record" /\ s.gone
             => Excused \/ record # NoRecord
        /\ s.pc = "mark" /\ ~s.gone => s.force
        /\ s.pc \in {"record", "tasks", "clean", "unqueue", "compensate record"} => vm.recycled
        /\ s.pc \in {"release", "return"} /\ s.err = "nil" => vm.recycled
        /\ s.pc = "commit" /\ s.op = "delete vm" => vm.recycled
        /\ s.pc = "transition" => s.op = "task"

\* The tasks still running are among those recycle is going to finish and those
\* started again since, unless it failed to finish one.
KnowsTasks(p) ==
    LET s == proc[p]
        running == {t \in Tasks : ~Terminal(t)} \ reopened[p]
    IN  /\ s.pc \in {"remote", "mark", "record"} => running \subseteq s.snapshot
        /\ s.pc = "tasks" /\ s.clean => running \subseteq s.snapshot
        /\ s.pc = "clean" /\ s.clean => running = {}
        /\ s.pc = "unqueue" => running = {}

\* What was marked by force is on record, or its recycler, which holds the
\* lock, is about to put it there.
ForcedIsRecorded ==
    /\ overrun # {} => faults > 0
    /\ abandoned = "forced"
         => record # NoRecord \/ faults > 0 \/ \E p \in Procs : At(p, "record")

RecycleInv ==
    /\ ForcedIsRecorded
    /\ RecycledMeansGone
    /\ RecordIsTrue
    /\ \A p \in Procs : HoldsLock(p) /\ KnowsVM(p) /\ KnowsTasks(p)

=============================================================================
