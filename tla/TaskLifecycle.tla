--------------------------- MODULE TaskLifecycle ---------------------------
(***************************************************************************)
(* One task from its creation to its engine, or to its end.                *)
(*                                                                         *)
(*   Create        commits the row, makes the environment on the host, and *)
(*                 leaves what the engine needs in Redis                   *)
(*   vm-ready      comes when the environment is up: the task state        *)
(*                 machine goes to processing, and its hook starts the     *)
(*                 engine with what Create left                            *)
(*   vm-conditions reports that the environment failed                     *)
(*   Stop          deletes the environment and finishes the task           *)
(*                                                                         *)
(* They are goroutines of one or more backends; a step is one command to   *)
(* the database, Redis or the host.  Locally the host is this process: it  *)
(* calls vm-ready itself, a bounded number of times, one after the other,  *)
(* and gives its environments no id.  In the cloud the callbacks come from *)
(* another service, as often as agents reconnect, several at a time.       *)
(*                                                                         *)
(* Stop calls vmrecycle.Recycle; module VMRecycle has its failures and     *)
(* retries, here the recycle goes through or the host refuses it.          *)
(***************************************************************************)
EXTENDS Naturals

CONSTANTS
    Callbacks,  \* callbacks served at a time
    Modes,      \* how the backend may run: "local", "cloud"
    Attempts,   \* attempts of notifyVMReady (15)
    MaxFaults   \* bound: failed commands, lost goroutines, restarts, expiries

ASSUME LifecycleAssumption ==
    /\ Modes \subseteq {"local", "cloud"}
    /\ Attempts \in Nat
    /\ MaxFaults \in Nat

VARIABLES
    mode,       \* how this backend runs
    status,     \* the status column; "none" before the row is committed
    state,      \* lifecycle:<task> in Redis; "none" is the zero value
    request,    \* task:create_req:<task> is in Redis
    named,      \* the VM's row has the id of its environment
    env,        \* the environment exists on the host
    engine,     \* the engine was started in it
    create,     \* where Create is
    stop,       \* where Stop is, with what its recycle loaded
    attempts,   \* attempts notifyVMReady has left
    callback,   \* where each callback is
    faults,     \* faults so far
    \* History, read by properties only.
    starts,     \* how many times the engine was started, up to 2
    answered,   \* a vm-ready was answered with success
    raced,      \* transitions overlapped where they should not, see Racing
    condition,  \* a failed condition was reported
    overtaken   \* Stop loaded the VM before it was named

stores == <<status, state, request>>
host == <<named, env, engine>>
history == <<starts, answered, raced, condition, overtaken>>
vars == <<mode, stores, host, create, stop, attempts, callback, faults, history>>

States == {"none", "pending", "processing", "finished", "error"}

IdleCallback == [pc |-> "idle", op |-> "ready", seen |-> "none", failed |-> FALSE]
CallbackStates ==
    [pc : {"idle", "get", "set", "check", "fetch", "update", "start", "drop",
           "fail", "fail set", "fail update"},
     op : {"ready", "condition"},
     seen : States,       \* the status vm-ready loaded
     failed : BOOLEAN]    \* the hook's function returns an error

IdleStop == [pc |-> "idle", open |-> FALSE, named |-> FALSE]

TypeOK ==
    /\ mode \in Modes
    /\ status \in States
    /\ state \in States \ {"finished"}
    /\ request \in BOOLEAN
    /\ named \in BOOLEAN
    /\ env \in BOOLEAN
    /\ engine \in BOOLEAN
    /\ create \in {"idle", "create", "complete", "store", "pending", "done"}
    /\ stop \in [pc : {"idle", "delete", "finish", "drop", "commit", "done"},
                 open : BOOLEAN,     \* the task it loaded was not terminal
                 named : BOOLEAN]    \* the VM it loaded was named
    /\ attempts \in 0 .. Attempts
    /\ callback \in [Callbacks -> CallbackStates]
    /\ faults \in 0 .. MaxFaults
    /\ starts \in 0 .. 2
    /\ answered \in BOOLEAN /\ raced \in BOOLEAN /\ condition \in BOOLEAN
    /\ overtaken \in BOOLEAN

Init ==
    /\ mode \in Modes
    /\ status = "none" /\ state = "none" /\ request = FALSE
    /\ named = FALSE /\ env = FALSE /\ engine = FALSE
    /\ create = "idle" /\ stop = IdleStop /\ attempts = 0
    /\ callback = [b \in Callbacks |-> IdleCallback]
    /\ faults = 0
    /\ starts = 0 /\ answered = FALSE /\ raced = FALSE /\ condition = FALSE
    /\ overtaken = FALSE

-----------------------------------------------------------------------------
Fault == faults < MaxFaults /\ faults' = faults + 1

At(b, pc) == callback[b].pc = pc
Become(b, s) == callback' = [callback EXCEPT ![b] = s]
Hold(b, pc, failed) ==
    Become(b, [pc |-> pc, op |-> callback[b].op, seen |-> callback[b].seen, failed |-> failed])
Goto(b, pc) == Hold(b, pc, callback[b].failed)

\* TaskTransitions.  Nothing asks for finished.
Transitions ==
    [none |-> {"pending"}, pending |-> {"processing", "error"},
     processing |-> {"finished", "error"}, error |-> {"processing"}]

\* A goroutine has read the state it is going to leave.
Transiting(b) == callback[b].pc \notin {"idle", "get", "fail"}

\* A callback is served; a local notifier stops at the first success.
Reply(b, ok) ==
    /\ Become(b, IdleCallback)
    /\ answered' = (answered \/ (ok /\ callback[b].op = "ready"))
    /\ attempts' = IF ok THEN 0 ELSE attempts

Silent == UNCHANGED <<attempts, answered>>
Undisturbed == UNCHANGED <<mode, named, env, create, stop, condition, overtaken>>

\* Two callbacks between the hook's look at the row and its update of it; or a
\* failure or a Stop in the middle of another callback's transition.
Racing(with) == raced' = (raced \/ with)

-----------------------------------------------------------------------------
(* Create.                                                                 *)

CreateStep(pc, next) == create = pc /\ create' = next
NoCallback == UNCHANGED <<mode, callback, starts, answered, raced, condition, overtaken>>

\* The row, its VM and their link, in one transaction.
PrepareCreate ==
    /\ CreateStep("idle", "create")
    /\ status' = "pending"
    /\ NoCallback /\ UNCHANGED <<state, request, host, stop, attempts, faults>>

CreateEnvironment ==
    /\ CreateStep("create", "complete")
    /\ env' = TRUE
    /\ attempts' = IF mode = "local" THEN Attempts ELSE 0
    /\ NoCallback /\ UNCHANGED <<stores, named, engine, stop, faults>>

\* A cloud host names its environment, the local one does not.
CompleteCreate ==
    /\ CreateStep("complete", "store")
    /\ named' = (mode = "cloud")
    /\ NoCallback /\ UNCHANGED <<stores, env, engine, stop, attempts, faults>>

StoreRequest ==
    /\ CreateStep("store", "pending")
    /\ request' = TRUE
    /\ NoCallback /\ UNCHANGED <<status, state, host, stop, attempts, faults>>

\* Mutant: the task may be pending before its request is stored.
MakePendingEarly ==
    /\ create \in {"store", "pending"}
    /\ create' = IF create = "pending" THEN "done" ELSE create
    /\ state' = IF state = "none" THEN "pending" ELSE state
    /\ NoCallback /\ UNCHANGED <<status, request, host, stop, attempts, faults>>

\* Transition to pending.  Its read and its write are one step: no other
\* transition leaves the zero value, so nobody writes in between.
MakePending ==
    /\ CreateStep("pending", "done")
    /\ state' = IF "pending" \in Transitions[state] THEN "pending" ELSE state
    /\ NoCallback /\ UNCHANGED <<status, request, host, stop, attempts, faults>>

\* An error before the request is stored makes Create return, the row stays
\* pending and the environment may exist; after it Create only warns.
CreateFails ==
    /\ Fault
    /\ create \in {"create", "complete", "store", "pending"}
    /\ create' = IF create = "store" THEN "pending" ELSE "done"
    /\ \/ UNCHANGED env
       \/ create = "create" /\ mode = "cloud" /\ env' = TRUE
    /\ NoCallback /\ UNCHANGED <<stores, named, engine, stop, attempts>>

\* The request has a TTL.
RequestExpires ==
    /\ Fault
    /\ request /\ request' = FALSE
    /\ NoCallback /\ UNCHANGED <<status, state, host, create, stop, attempts>>

-----------------------------------------------------------------------------
(* vm-ready and vm-conditions, and the transitions they ask for.           *)

\* Mutant: one call too many.
MayCallOnceMore(b) ==
    /\ At(b, "idle")
    /\ \/ mode = "cloud" /\ (env \/ stop.named)
       \/ mode = "local" /\ env /\ \A c \in Callbacks : At(c, "idle")

\* Mutant: the notifier calls once.
MayCallOnce(b) ==
    /\ At(b, "idle")
    /\ \/ mode = "cloud" /\ (env \/ stop.named)
       \/ mode = "local" /\ attempts = Attempts /\ \A c \in Callbacks : At(c, "idle")

\* Who may call: the host of an environment that is up, or was and has been
\* deleted meanwhile; the local notifier has one call under way at most.
MayCall(b) ==
    /\ At(b, "idle")
    /\ \/ mode = "cloud" /\ (env \/ stop.named)
       \/ mode = "local" /\ attempts > 0 /\ \A c \in Callbacks : At(c, "idle")

\* Mutant: only a task that is processing is passed over.
ReadyChecksProcessing(b) ==
    /\ MayCall(b)
    /\ IF status = "processing"
       THEN Reply(b, TRUE)
       ELSE /\ Become(b, [pc |-> "get", op |-> "ready", seen |-> status, failed |-> FALSE])
            /\ attempts' = IF mode = "local" THEN attempts - 1 ELSE attempts
            /\ UNCHANGED answered
    /\ UNCHANGED <<mode, stores, host, create, stop, faults, starts, raced, condition, overtaken>>

\* VmReady loads the VM with its task.
Ready(b) ==
    /\ MayCall(b)
    /\ IF status \in {"processing", "finished"}
       THEN Reply(b, TRUE)
       ELSE /\ Become(b, [pc |-> "get", op |-> "ready", seen |-> status, failed |-> FALSE])
            /\ attempts' = IF mode = "local" THEN attempts - 1 ELSE attempts
            /\ UNCHANGED answered
    /\ UNCHANGED <<mode, stores, host, create, stop, faults, starts, raced, condition, overtaken>>

\* VmConditions finds the VM by the id of its environment.
Condition(b) ==
    /\ At(b, "idle")
    /\ mode = "cloud" /\ named
    /\ Become(b, [pc |-> "fail", op |-> "condition", seen |-> status, failed |-> FALSE])
    /\ condition' = TRUE
    /\ UNCHANGED <<mode, stores, host, create, stop, attempts, faults, starts, answered, raced, overtaken>>

\* Mutant: a transition that is not allowed is no failure of the callback.
GetAnswersSuccess(b) ==
    /\ At(b, "get")
    /\ IF "processing" \in Transitions[state]
       THEN Goto(b, "set") /\ Silent
       ELSE Reply(b, TRUE)
    /\ Racing(\E c \in Callbacks : callback[c].pc \in {"fail set", "fail update"})
    /\ UNCHANGED <<stores, engine, faults, starts>> /\ Undisturbed

\* Transition to processing: read and check, ...
Get(b) ==
    /\ At(b, "get")
    /\ IF "processing" \in Transitions[state]
       THEN Goto(b, "set") /\ Silent
       ELSE Reply(b, FALSE)
    /\ Racing(\E c \in Callbacks : callback[c].pc \in {"fail set", "fail update"})
    /\ UNCHANGED <<stores, engine, faults, starts>> /\ Undisturbed

\* ... write, ...
Set(b) ==
    /\ At(b, "set")
    /\ state' = "processing"
    /\ Goto(b, "check") /\ Silent
    /\ UNCHANGED <<status, request, engine, faults, starts, raced>> /\ Undisturbed

\* Mutant: the hook does not look at the row.
CheckNothing(b) ==
    /\ At(b, "check")
    /\ Goto(b, "fetch") /\ Silent
    /\ Racing(\E c \in Callbacks \ {b} : callback[c].pc \in {"fetch", "update"})
    /\ UNCHANGED <<stores, engine, faults, starts>> /\ Undisturbed

\* ... and the hook, handleProcessing, passes over a task whose row is
\* processing already.
Check(b) ==
    /\ At(b, "check")
    /\ IF status = "processing"
       THEN Reply(b, TRUE) /\ UNCHANGED raced
       ELSE /\ Goto(b, "fetch") /\ Silent
            /\ Racing(\E c \in Callbacks \ {b} : callback[c].pc \in {"fetch", "update"})
    /\ UNCHANGED <<stores, engine, faults, starts>> /\ Undisturbed

\* The request Create left; without it the task fails.
Fetch(b) ==
    /\ At(b, "fetch")
    /\ Goto(b, IF request THEN "update" ELSE "fail") /\ Silent
    /\ UNCHANGED <<stores, engine, faults, starts, raced>> /\ Undisturbed

Update(b) ==
    /\ At(b, "update")
    /\ status' = "processing"
    /\ Goto(b, "start") /\ Silent
    /\ UNCHANGED <<state, request, engine, faults, starts, raced>> /\ Undisturbed

EngineStarts ==
    /\ engine' = TRUE
    /\ starts' = IF starts < 2 THEN starts + 1 ELSE starts

\* TaskManager.Create: an error without an environment.
StartEngine(b) ==
    /\ At(b, "start")
    /\ IF env THEN EngineStarts ELSE UNCHANGED <<engine, starts>>
    /\ Hold(b, "drop", ~env) /\ Silent
    /\ UNCHANGED <<stores, faults, raced>> /\ Undisturbed

\* The deferred delete of the request runs before the error is handled.
Drop(b) ==
    /\ At(b, "drop")
    /\ request' = FALSE
    /\ IF callback[b].failed THEN Goto(b, "fail") /\ Silent ELSE Reply(b, TRUE)
    /\ UNCHANGED <<status, state, engine, faults, starts, raced>> /\ Undisturbed

\* Transition to error, of withError or VmConditions: its failure is logged.
Fail(b) ==
    /\ At(b, "fail")
    /\ IF "error" \in Transitions[state]
       THEN Goto(b, "fail set") /\ Silent
       ELSE Reply(b, TRUE)
    /\ Racing(\E c \in Callbacks \ {b} : Transiting(c))
    /\ UNCHANGED <<stores, engine, faults, starts>> /\ Undisturbed

FailSet(b) ==
    /\ At(b, "fail set")
    /\ state' = "error"
    /\ Goto(b, "fail update") /\ Silent
    /\ UNCHANGED <<status, request, engine, faults, starts, raced>> /\ Undisturbed

\* Mutant: the hook of the error leaves the row as it is.
FailUpdatesNothing(b) ==
    /\ At(b, "fail update")
    /\ Reply(b, TRUE)
    /\ UNCHANGED <<stores, engine, faults, starts, raced>> /\ Undisturbed

FailUpdate(b) ==
    /\ At(b, "fail update")
    /\ status' = "error"
    /\ Reply(b, TRUE)
    /\ UNCHANGED <<state, request, engine, faults, starts, raced>> /\ Undisturbed

\* A command of a callback fails, or the engine does not start: where an error
\* is returned to withError the task fails, a failed write of the state is
\* returned to the caller, the rest is logged or hidden.  The engine may have
\* been started all the same, its answer lost.
CommandFails(b) ==
    /\ Fault
    /\ CASE callback[b].pc \in {"get", "set"} -> Reply(b, FALSE)
         [] callback[b].pc \in {"check", "fetch"} -> Goto(b, "fail") /\ Silent
         [] callback[b].pc \in {"update", "start"} -> Hold(b, "drop", TRUE) /\ Silent
         [] At(b, "drop") /\ callback[b].failed -> Goto(b, "fail") /\ Silent
         [] callback[b].pc \in {"drop", "fail", "fail set", "fail update"} -> Reply(b, TRUE)
         [] OTHER -> FALSE
    /\ \/ UNCHANGED <<engine, starts>>
       \/ At(b, "start") /\ env /\ EngineStarts
    /\ UNCHANGED <<stores, raced>> /\ Undisturbed

\* Its request is cancelled, by a timeout of the caller or a crash: the
\* commands that are left have no effect.
Cut(b) ==
    /\ Fault
    /\ ~At(b, "idle")
    /\ Reply(b, FALSE)
    /\ UNCHANGED <<stores, engine, starts, raced>> /\ Undisturbed

-----------------------------------------------------------------------------
(* Stop: the recycle of the VM, then the status.                           *)

StopStep(pc, next) == stop.pc = pc /\ stop' = [stop EXCEPT !.pc = next]
NotStop == UNCHANGED <<mode, create, attempts, callback, faults, starts, answered, condition>>

\* Recycle loads the VM with its tasks.
StopLoads ==
    /\ stop.pc = "idle" /\ status # "none"
    /\ stop' = [pc |-> "delete", open |-> status \notin {"finished", "error"}, named |-> named]
    /\ overtaken' = ~named
    /\ NotStop /\ UNCHANGED <<raced, stores, host>>

\* Mutant: a task that failed is taken to have no environment.
StopDeletesIfOpen ==
    /\ StopStep("delete", "finish")
    /\ env' = (env /\ ~(stop.named /\ stop.open))
    /\ engine' = (engine /\ ~(stop.named /\ stop.open))
    /\ NotStop /\ UNCHANGED <<raced, stores, named, overtaken>>

\* The delete names the environment by the id that was loaded: without one the
\* local host removes nothing and reports no error; a cloud host may refuse.
StopDeletes ==
    /\ StopStep("delete", "finish")
    /\ env' = (env /\ ~stop.named)
    /\ engine' = (engine /\ ~stop.named)
    /\ NotStop /\ UNCHANGED <<raced, stores, named, overtaken>>

\* Refused or failed, the recycle is left to its queue (VMRecycle).
StopRefused ==
    /\ StopStep("delete", "commit")
    /\ mode = "cloud"
    /\ \/ Fault
       \/ ~stop.named /\ UNCHANGED faults
    /\ UNCHANGED <<mode, stores, host, create, attempts, callback, history>>

StopFinishesTasks ==
    /\ StopStep("finish", "drop")
    /\ status' = IF stop.open THEN "finished" ELSE status
    /\ Racing(\E b \in Callbacks : Transiting(b))
    /\ NotStop /\ UNCHANGED <<state, request, host, overtaken>>

StopDropsRequest ==
    /\ StopStep("drop", "commit")
    /\ request' = FALSE
    /\ NotStop /\ UNCHANGED <<raced, status, state, host, overtaken>>

\* Stop finishes the task whatever it is by now.
StopCommits ==
    /\ StopStep("commit", "done")
    /\ status' = "finished"
    /\ Racing(\E b \in Callbacks : Transiting(b))
    /\ NotStop /\ UNCHANGED <<state, request, host, overtaken>>

-----------------------------------------------------------------------------
\* The backend is restarted: nothing of what it did goes on, and a local one
\* fails the tasks it finds open (reconcileOrphanTasks), in the database only.
\* A Stop that is cut is not made again here: that is VMRecycle's.
Restart ==
    /\ Fault
    /\ create' = IF create = "idle" THEN "idle" ELSE "done"
    /\ stop' = [stop EXCEPT !.pc = IF stop.pc = "idle" THEN "idle" ELSE "done"]
    /\ attempts' = 0
    /\ callback' = [b \in Callbacks |-> IdleCallback]
    /\ IF mode = "local"
       THEN /\ status' = IF status \in {"pending", "processing"} THEN "error" ELSE status
            /\ engine' = FALSE
       ELSE UNCHANGED <<status, engine>>
    /\ UNCHANGED <<mode, state, request, named, env, history>>

CreateNext ==
    CreateEnvironment \/ CompleteCreate \/ StoreRequest \/ MakePending

CallbackNext(b) ==
    \/ Get(b) \/ Set(b) \/ Check(b) \/ Fetch(b) \/ Update(b) \/ StartEngine(b) \/ Drop(b)
    \/ Fail(b) \/ FailSet(b) \/ FailUpdate(b)

StopNext == StopDeletes \/ StopFinishesTasks \/ StopDropsRequest \/ StopCommits

Faults ==
    \/ CreateFails \/ RequestExpires \/ Restart \/ StopRefused
    \/ \E b \in Callbacks : CommandFails(b) \/ Cut(b)

Next ==
    \/ PrepareCreate \/ CreateNext
    \/ \E b \in Callbacks : Ready(b) \/ Condition(b) \/ CallbackNext(b)
    \/ StopLoads \/ StopNext
    \/ Faults

Spec == Init /\ [][Next]_vars

\* Goroutines go on, and the local notifier keeps calling while it has
\* attempts.  Users, conditions and the cloud's vm-ready come when they do.
Fairness ==
    /\ WF_vars(CreateNext) /\ WF_vars(StopNext)
    /\ \A b \in Callbacks : WF_vars(CallbackNext(b))
    /\ WF_vars(mode = "local" /\ \E b \in Callbacks : Ready(b))

FairSpec == Spec /\ Fairness

-----------------------------------------------------------------------------
(* Properties.                                                             *)

Quiet ==
    create = "done" /\ stop.pc \in {"idle", "done"} /\ \A b \in Callbacks : At(b, "idle")

\* A vm-ready that was answered with success needs no other: the task has been
\* taken over from Create, started or failed.  notifyVMReady relies on it when
\* it stops at the first success.
SuccessIsTaken == answered /\ faults = 0 => status # "pending"

\* The engine is started twice only if two callbacks were between the hook's
\* look at the row and its update of it at the same time, or if a Stop or a
\* failed condition came in the middle of a start.
StartedOnce == starts > 1 => raced \/ faults > 0

\* A task does not fail by itself: not because vm-ready came before Create had
\* stored the request, not because it came again after the request was used.
NoSpuriousError ==
    status = "error" => raced \/ condition \/ stop.pc # "idle" \/ faults > 0

\* When nothing is under way and nothing has raced or failed, Redis and the
\* database agree on the task, unless Stop has finished it: Stop and cleanup
\* write the row, and nobody takes the task's state in Redis along.
StoresAgree ==
    Quiet /\ ~raced /\ faults = 0 =>
       state = status \/ (stop.pc = "done" /\ status = "finished")

\* A stopped task leaves nothing on a host that names its environments, unless
\* Stop loaded the VM before Create had written the name.
StopLeavesNothing ==
    stop.pc = "done" /\ mode = "cloud" /\ ~overtaken /\ faults = 0 => ~env /\ ~engine

\* A finished task is undone by a failed condition, or by a vm-ready that had
\* loaded it before it was finished; never by one that came after.
FinishedStays ==
    [][status = "finished" /\ status' # "finished" =>
         \E b \in Callbacks : /\ callback[b].pc \in {"update", "fail update"}
                              /\ \/ callback[b].seen # "finished"
                                 \/ callback[b].op = "condition"]_vars

GaveUp == attempts = 0 /\ ~answered /\ \A b \in Callbacks : At(b, "idle")

\* Locally, an environment that is up gets its task taken over, as long as
\* nothing fails and Create is done before the notifier gives up.
ReadyIsDelivered ==
    (mode = "local" /\ env) ~> (status # "pending" \/ GaveUp \/ faults > 0)

=============================================================================
