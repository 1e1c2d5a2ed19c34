----------------------------- MODULE DelayQueue -----------------------------
(***************************************************************************)
(* The Redis delay queue of backend/pkg/delayqueue/delayqueue.go.          *)
(*                                                                         *)
(* One queue is two Redis structures: a sorted set of ids scored by their  *)
(* run time, and one key per id with the payload and the attempts made.    *)
(* Only the claim and EnqueueIfMissing are Lua scripts; every other        *)
(* operation is a sequence of Redis commands, each an action here, so the  *)
(* operations of callers and consumers interleave between commands.        *)
(*                                                                         *)
(* Time is abstracted: an entry is "later" until its run time has passed   *)
(* and "due" from then on.  Any command may fail and any process may die,  *)
(* at most MaxFaults times in a behaviour.                                 *)
(***************************************************************************)
EXTENDS Naturals, FiniteSets

CONSTANTS
    Ids,          \* ids of jobs of one queue
    Payloads,     \* payloads a caller may enqueue
    Callers,      \* goroutines that call Enqueue, EnqueueIfMissing, Remove...
    Workers,      \* StartConsumer loops on this queue, one per backend replica
    MaxAttempts,  \* q.maxAttempts
    BatchSize,    \* q.batchSize
    MaxFaults,    \* bound: command failures, expiries and crashes per behaviour
    NoJob         \* what GET returns for a missing key

ASSUME QueueAssumption ==
    /\ MaxAttempts \in Nat \ {0}
    /\ BatchSize \in Nat \ {0}
    /\ MaxFaults \in Nat
    /\ NoJob \notin [payload : Payloads, attempts : 0 .. MaxAttempts - 1]

VARIABLES
    entry,    \* the sorted set: id -> "none" | "later" | "due"
    job,      \* the job keys: id -> job data or NoJob
    caller,   \* what each caller is in the middle of
    worker,   \* what each consumer is in the middle of
    faults,   \* number of faults so far
    \* History, read by properties only.
    faulted,  \* ids an operation of which failed, was cut short, or expired
    raced     \* ids on which a caller's operation overlapped another operation

store == <<entry, job>>
vars == <<store, caller, worker, faults, faulted, raced>>

Whens == {"later", "due"}
\* A handler can return nil, an error, an error that wraps
\* ErrRetryAfterMaxAttempts, or ErrJobRescheduled.
Job == [payload : Payloads, attempts : 0 .. MaxAttempts - 1]
NewJob(p) == [payload |-> p, attempts |-> 0]

(***************************************************************************)
(* A caller is "idle", or has one command of an operation still to send:   *)
(* "zadd" and "undo" of Enqueue, "zrem" (todo: the ids left) and "del" of  *)
(* Remove and RemoveByPrefix.                                              *)
(***************************************************************************)
IdleCaller == [pc |-> "idle"]
CallerStates ==
    {IdleCaller}
      \cup [pc : {"zadd"}, id : Ids, at : Whens]
      \cup [pc : {"undo"}, id : Ids]
      \cup [pc : {"zrem"}, todo : SUBSET Ids]
      \cup [pc : {"del"}, id : Ids, todo : SUBSET Ids]

(***************************************************************************)
(* A consumer has the claimed ids it has not looked at yet (batch) and is  *)
(* between jobs ("poll"), inside the handler ("handle", "zadd" when the    *)
(* handler is rescheduling its own job) or applying its result.            *)
(***************************************************************************)
WorkerStates ==
    [pc : {"poll"}, batch : SUBSET Ids]
      \cup [pc : {"handle", "save"}, batch : SUBSET Ids, id : Ids, job : Job]
      \cup [pc : {"zadd"}, batch : SUBSET Ids, id : Ids, at : Whens]
      \cup [pc : {"requeue", "delete"}, batch : SUBSET Ids, id : Ids]

\* The ids each process has an unfinished operation on.
CallerIds(c) ==
    CASE caller[c].pc = "idle" -> {}
      [] caller[c].pc = "zrem" -> caller[c].todo
      [] caller[c].pc = "del"  -> {caller[c].id} \cup caller[c].todo
      [] OTHER                 -> {caller[c].id}
WorkerIds(w) ==
    worker[w].batch \cup (IF worker[w].pc = "poll" THEN {} ELSE {worker[w].id})

CallersUse == UNION {CallerIds(c) : c \in Callers}
WorkersUse == UNION {WorkerIds(w) : w \in Workers}
InUse == CallersUse \cup WorkersUse

TypeOK ==
    /\ entry \in [Ids -> Whens \cup {"none"}]
    /\ job \in [Ids -> Job \cup {NoJob}]
    /\ caller \in [Callers -> CallerStates]
    /\ worker \in [Workers -> WorkerStates]
    /\ faults \in 0 .. MaxFaults
    /\ faulted \subseteq Ids
    /\ raced \subseteq Ids

Init ==
    /\ entry = [i \in Ids |-> "none"]
    /\ job = [i \in Ids |-> NoJob]
    /\ caller = [c \in Callers |-> IdleCaller]
    /\ worker = [w \in Workers |-> [pc |-> "poll", batch |-> {}]]
    /\ faults = 0
    /\ faulted = {}
    /\ raced = {}

-----------------------------------------------------------------------------
(* Bookkeeping.                                                            *)

\* A caller's operation on the ids S begins: those already in use are raced.
Begin(S) == raced' = raced \cup (S \cap InUse)

\* A fault that hits the ids S.
Fault(S) == /\ faults < MaxFaults
            /\ faults' = faults + 1
            /\ faulted' = faulted \cup S

NoFault == UNCHANGED <<faults, faulted>>
Ongoing == NoFault /\ UNCHANGED raced

Call(c, s) == caller' = [caller EXCEPT ![c] = s] /\ UNCHANGED worker
Work(w, s) == worker' = [worker EXCEPT ![w] = s] /\ UNCHANGED caller

\* The consumer goes on to the next claimed id.
NextJob(w) == Work(w, [pc |-> "poll", batch |-> worker[w].batch])

-----------------------------------------------------------------------------
(* Enqueue: SET the job key, then ZADD the entry; DEL the key if ZADD      *)
(* fails.  The two commands are not atomic.                                *)

EnqueueSet(c, i, p, at) ==
    /\ caller[c].pc = "idle"
    /\ Begin({i})
    /\ job' = [job EXCEPT ![i] = NewJob(p)]
    /\ Call(c, [pc |-> "zadd", id |-> i, at |-> at])
    /\ UNCHANGED entry /\ NoFault

EnqueueZAdd(c) ==
    /\ caller[c].pc = "zadd"
    /\ entry' = [entry EXCEPT ![caller[c].id] = caller[c].at]
    /\ Call(c, IdleCaller)
    /\ UNCHANGED job /\ Ongoing

EnqueueZAddFails(c) ==
    /\ caller[c].pc = "zadd"
    /\ Fault({caller[c].id})
    /\ Call(c, [pc |-> "undo", id |-> caller[c].id])
    /\ UNCHANGED <<store, raced>>

\* Best effort: the error of this DEL is discarded.
EnqueueUndo(c) ==
    /\ caller[c].pc = "undo"
    /\ \/ job' = [job EXCEPT ![caller[c].id] = NoJob] /\ NoFault
       \/ Fault({caller[c].id}) /\ UNCHANGED job
    /\ Call(c, IdleCaller)
    /\ UNCHANGED <<entry, raced>>

\* One Lua script: nothing happens when the entry exists.
EnqueueIfMissing(c, i, p, at) ==
    /\ caller[c].pc = "idle"
    /\ entry[i] = "none"
    /\ Begin({i})
    /\ job' = [job EXCEPT ![i] = NewJob(p)]
    /\ entry' = [entry EXCEPT ![i] = at]
    /\ UNCHANGED <<caller, worker>> /\ NoFault

-----------------------------------------------------------------------------
(* Remove: ZREM then DEL.  RemoveByPrefix scans the sorted set and removes *)
(* what it finds one by one, giving up at the first error.                 *)

RemoveBegin(c, S) ==
    /\ caller[c].pc = "idle"
    /\ S # {}
    /\ Begin(S)
    /\ Call(c, [pc |-> "zrem", todo |-> S])
    /\ UNCHANGED store /\ NoFault

Remove(c, i) == RemoveBegin(c, {i})
RemoveByPrefix(c, S) == (\A i \in S : entry[i] # "none") /\ RemoveBegin(c, S)

RemoveZRem(c, i) ==
    /\ caller[c].pc = "zrem"
    /\ i \in caller[c].todo
    /\ entry' = [entry EXCEPT ![i] = "none"]
    /\ Call(c, [pc |-> "del", id |-> i, todo |-> caller[c].todo \ {i}])
    /\ UNCHANGED job /\ Ongoing

RemoveDel(c) ==
    /\ caller[c].pc = "del"
    /\ job' = [job EXCEPT ![caller[c].id] = NoJob]
    /\ Call(c, IF caller[c].todo = {} THEN IdleCaller
               ELSE [pc |-> "zrem", todo |-> caller[c].todo])
    /\ UNCHANGED entry /\ Ongoing

RemoveFails(c) ==
    /\ caller[c].pc \in {"zrem", "del"}
    /\ Fault(CallerIds(c))
    /\ Call(c, IdleCaller)
    /\ UNCHANGED <<store, raced>>

-----------------------------------------------------------------------------
(* pollOnce: claim due ids, then load, handle and finish them in turn.     *)

Due == {i \in Ids : entry[i] = "due"}

\* Mutant: the script returns the ids without ZREM.
ClaimDueKeepingEntries(w, S) ==
    /\ worker[w].pc = "poll" /\ worker[w].batch = {}
    /\ S \subseteq Due /\ S # {}
    /\ Cardinality(S) <= BatchSize
    /\ Cardinality(S) = BatchSize \/ S = Due
    /\ raced' = raced \cup (S \cap CallersUse)
    /\ Work(w, [pc |-> "poll", batch |-> S])
    /\ UNCHANGED store /\ NoFault

\* One Lua script: ZRANGEBYSCORE ... LIMIT 0 count, then ZREM of each.
ClaimDue(w, S) ==
    /\ worker[w].pc = "poll" /\ worker[w].batch = {}
    /\ S \subseteq Due /\ S # {}
    /\ Cardinality(S) <= BatchSize
    /\ Cardinality(S) = BatchSize \/ S = Due
    /\ raced' = raced \cup (S \cap CallersUse)
    /\ entry' = [i \in Ids |-> IF i \in S THEN "none" ELSE entry[i]]
    /\ Work(w, [pc |-> "poll", batch |-> S])
    /\ UNCHANGED job /\ NoFault

\* Mutant: the attempts made are not read back.
LoadJobAfresh(w, i) ==
    /\ worker[w].pc = "poll" /\ i \in worker[w].batch
    /\ job[i] # NoJob
    /\ Work(w, [pc |-> "handle", batch |-> worker[w].batch \ {i},
                id |-> i, job |-> NewJob(job[i].payload)])
    /\ UNCHANGED store /\ Ongoing

LoadJob(w, i) ==
    /\ worker[w].pc = "poll" /\ i \in worker[w].batch
    /\ job[i] # NoJob
    /\ Work(w, [pc |-> "handle", batch |-> worker[w].batch \ {i},
                id |-> i, job |-> job[i]])
    /\ UNCHANGED store /\ Ongoing

\* The key is gone: the id is dropped without a word.
LoadNothing(w, i) ==
    /\ worker[w].pc = "poll" /\ i \in worker[w].batch
    /\ job[i] = NoJob
    /\ Work(w, [pc |-> "poll", batch |-> worker[w].batch \ {i}])
    /\ UNCHANGED store /\ Ongoing

LoadFails(w, i) ==
    /\ worker[w].pc = "poll" /\ i \in worker[w].batch
    /\ Fault({i})
    /\ Work(w, [pc |-> "poll", batch |-> worker[w].batch \ {i}])
    /\ UNCHANGED <<store, raced>>

\* The worker of the loaded job turns to deleting the job key.
ToDelete(w) == Work(w, [pc |-> "delete", batch |-> worker[w].batch,
                        id |-> worker[w].id])

HandlerSucceeds(w) ==
    /\ worker[w].pc = "handle"
    /\ ToDelete(w)
    /\ UNCHANGED store /\ Ongoing

\* Mutant: a retry beyond the last attempt keeps counting.
AttemptsUnclamped(made, retryAfterMax) == made + 1

\* What a failing handler leaves of the job: the attempts to store, where a
\* retry beyond the last attempt stays one short of the limit.
AttemptsAfter(made, retryAfterMax) ==
    IF retryAfterMax /\ made + 1 >= MaxAttempts
    THEN MaxAttempts - 1
    ELSE made + 1

\* A plain error drops the job at the last attempt; ErrRetryAfterMaxAttempts
\* never does.  The handler holds a pointer to the job and may have changed
\* the payload that is saved.
HandlerFails(w, retryAfterMax, p) ==
    /\ worker[w].pc = "handle"
    /\ LET made == worker[w].job.attempts
       IN  IF made + 1 >= MaxAttempts /\ ~retryAfterMax
           THEN ToDelete(w)
           ELSE Work(w, [worker[w] EXCEPT !.pc = "save",
                             !.job = [payload |-> p,
                                      attempts |-> AttemptsAfter(made, retryAfterMax)]])
    /\ UNCHANGED store /\ Ongoing

\* The handler calls Enqueue for its own id and returns ErrJobRescheduled.
HandlerReschedules(w, p, at) ==
    /\ worker[w].pc = "handle"
    /\ job' = [job EXCEPT ![worker[w].id] = NewJob(p)]
    /\ Work(w, [pc |-> "zadd", batch |-> worker[w].batch,
                id |-> worker[w].id, at |-> at])
    /\ UNCHANGED entry /\ Ongoing

\* Mutant: ErrJobRescheduled is taken for success, so the key is deleted.
RescheduleThenDelete(w) ==
    /\ worker[w].pc = "zadd"
    /\ entry' = [entry EXCEPT ![worker[w].id] = worker[w].at]
    /\ ToDelete(w)
    /\ UNCHANGED job /\ Ongoing

RescheduleZAdd(w) ==
    /\ worker[w].pc = "zadd"
    /\ entry' = [entry EXCEPT ![worker[w].id] = worker[w].at]
    /\ NextJob(w)
    /\ UNCHANGED job /\ Ongoing

\* Mutant: the job is saved and not queued again.
SaveJobOnly(w) ==
    /\ worker[w].pc = "save"
    /\ job' = [job EXCEPT ![worker[w].id] = worker[w].job]
    /\ NextJob(w)
    /\ UNCHANGED entry /\ Ongoing

SaveJob(w) ==
    /\ worker[w].pc = "save"
    /\ job' = [job EXCEPT ![worker[w].id] = worker[w].job]
    /\ Work(w, [pc |-> "requeue", batch |-> worker[w].batch, id |-> worker[w].id])
    /\ UNCHANGED entry /\ Ongoing

Requeue(w) ==
    /\ worker[w].pc = "requeue"
    /\ entry' = [entry EXCEPT ![worker[w].id] = "later"]
    /\ NextJob(w)
    /\ UNCHANGED job /\ Ongoing

DeleteJob(w) ==
    /\ worker[w].pc = "delete"
    /\ job' = [job EXCEPT ![worker[w].id] = NoJob]
    /\ NextJob(w)
    /\ UNCHANGED entry /\ Ongoing

\* saveJob, the requeueing ZADD or deleteJob fails: logged, next job.
FinishFails(w) ==
    /\ worker[w].pc \in {"save", "requeue", "delete"}
    /\ Fault({worker[w].id})
    /\ NextJob(w)
    /\ UNCHANGED <<store, raced>>

-----------------------------------------------------------------------------
(* The environment.                                                        *)

BecomesDue(i) ==
    /\ entry[i] = "later"
    /\ entry' = [entry EXCEPT ![i] = "due"]
    /\ UNCHANGED <<job, caller, worker>> /\ Ongoing

\* The job key outlives q.jobTTL without being set again.
KeyExpires(i) ==
    /\ job[i] # NoJob
    /\ Fault({i})
    /\ job' = [job EXCEPT ![i] = NoJob]
    /\ UNCHANGED <<entry, caller, worker, raced>>

\* The process of a goroutine stops; what it was doing is not resumed.
CallerDies(c) ==
    /\ caller[c].pc # "idle"
    /\ Fault(CallerIds(c))
    /\ Call(c, IdleCaller)
    /\ UNCHANGED <<store, raced>>

WorkerDies(w) ==
    /\ WorkerIds(w) # {}
    /\ Fault(WorkerIds(w))
    /\ Work(w, [pc |-> "poll", batch |-> {}])
    /\ UNCHANGED <<store, raced>>

-----------------------------------------------------------------------------
CallerStep(c) ==
    \/ \E i \in Ids, p \in Payloads, at \in Whens :
          EnqueueSet(c, i, p, at) \/ EnqueueIfMissing(c, i, p, at)
    \/ \E i \in Ids : Remove(c, i)
    \/ \E S \in SUBSET Ids : RemoveByPrefix(c, S)
    \/ EnqueueZAdd(c) \/ EnqueueUndo(c)
    \/ \E i \in Ids : RemoveZRem(c, i)
    \/ RemoveDel(c)
    \/ EnqueueZAddFails(c) \/ RemoveFails(c) \/ CallerDies(c)

HandlerReturns(w) ==
    \/ HandlerSucceeds(w)
    \/ \E r \in BOOLEAN, p \in Payloads : HandlerFails(w, r, p)
    \/ \E p \in Payloads, at \in Whens : HandlerReschedules(w, p, at)

FinishJob(w) == RescheduleZAdd(w) \/ SaveJob(w) \/ Requeue(w) \/ DeleteJob(w)

WorkerStep(w) ==
    \/ \E S \in SUBSET Ids : ClaimDue(w, S)
    \/ \E i \in Ids : LoadJob(w, i) \/ LoadNothing(w, i) \/ LoadFails(w, i)
    \/ HandlerReturns(w)
    \/ FinishJob(w)
    \/ FinishFails(w) \/ WorkerDies(w)

Next ==
    \/ \E c \in Callers : CallerStep(c)
    \/ \E w \in Workers : WorkerStep(w)
    \/ \E i \in Ids : BecomesDue(i) \/ KeyExpires(i)

Spec == Init /\ [][Next]_vars

-----------------------------------------------------------------------------
(* Properties.                                                             *)

\* Without failures no payload is left behind: a job key without an entry is
\* in the hands of some caller or consumer, or something failed on that id
\* (pollOnce drops the id on a load, save or requeue error; a claim does not
\* survive its process).  Holds whatever operations overlap.
NoStrandedJob ==
    \A i \in Ids : job[i] # NoJob /\ entry[i] = "none" => i \in InUse \cup faulted

\* A settled entry has its job, unless operations on the id overlapped or one
\* failed half-way: used by one process at a time, Enqueue, EnqueueIfMissing,
\* Remove, requeue and ErrJobRescheduled keep the two structures in step.
NoOrphanInSequentialUse ==
    \A i \in Ids : entry[i] # "none" /\ job[i] = NoJob
                     => i \in InUse \cup faulted \cup raced

\* The claim is exclusive: two consumers hold the same id only when a caller
\* scheduled it again while it was being handled or claimed.  A requeue, a
\* reschedule by the handler, a failure or a crash never leads there.
ClaimedOnce ==
    \A v, w \in Workers : v # w => WorkerIds(v) \cap WorkerIds(w) \subseteq raced

\* What Enqueue's comment promises (delayqueue.go:102-104): it rebuilds the
\* job data even if pollOnce deletes the old key when its handler is done, so
\* that the sorted set keeps no isolated entry.
NoIsolatedEntry ==
    \A i \in Ids : entry[i] # "none" /\ job[i] = NoJob => i \in InUse \cup faulted

\* What its users see of the queue.  An operation takes effect with its first
\* command, so what its remaining commands will write is already there: the run
\* time of a job that was set and not added yet, the job of one to be saved, no
\* job where it is about to be deleted.  A claimed id is in a consumer's hands
\* until its handler returns.
AboutToAdd(i) ==
    {caller[c].at : c \in {d \in Callers : caller[d].pc = "zadd" /\ caller[d].id = i}}
      \cup {worker[w].at : w \in {v \in Workers : worker[v].pc = "zadd" /\ worker[v].id = i}}
      \cup {"later" : w \in {v \in Workers : worker[v].pc \in {"save", "requeue"}
                                            /\ worker[v].id = i}}
AboutToWrite(i) ==
    {worker[w].job : w \in {v \in Workers : worker[v].pc = "save" /\ worker[v].id = i}}
      \cup {NoJob : w \in {v \in Workers : worker[v].pc = "delete" /\ worker[v].id = i}}
      \cup {NoJob : c \in {d \in Callers : caller[d].pc = "del" /\ caller[d].id = i}}
Pick(S, otherwise) == IF S = {} THEN otherwise ELSE CHOOSE x \in S : TRUE

Doubt == raced \cup faulted
When(i) == Pick(AboutToAdd(i), entry[i])
Data(i) == Pick(AboutToWrite(i), job[i])
Hands(i) ==
    {[by |-> w, job |-> NoJob] : w \in {v \in Workers : i \in worker[v].batch}}
      \cup {[by |-> w, job |-> worker[w].job] :
               w \in {v \in Workers : worker[v].pc = "handle" /\ worker[v].id = i}}

\* The commands of an operation add up to one step of QueueContract, which every
\* user of the queue counts on: a job comes with its entry, is claimed once, due
\* and with its data, its attempts are counted, and what was cancelled or
\* finished is gone.  Ids on which something failed, or whose users did not take
\* turns, are in doubt.
Contract == INSTANCE QueueContract WITH
    when <- [i \in Ids |-> When(i)],
    data <- [i \in Ids |-> Data(i)],
    hands <- [i \in Ids |-> Hands(i)],
    doubt <- Doubt

ImplementsContract == Contract!Spec

-----------------------------------------------------------------------------
(* The inductive invariant behind the safety properties.                   *)

\* An id that is not raced is in the hands of at most one process.
Exclusive ==
    /\ \A c, d \in Callers : c # d => CallerIds(c) \cap CallerIds(d) \subseteq raced
    /\ \A c \in Callers, w \in Workers : CallerIds(c) \cap WorkerIds(w) \subseteq raced
    /\ ClaimedOnce

\* A caller's unfinished operation has left the two structures as its commands
\* so far make them: ZREM but not DEL, SET but not ZADD, a failed ZADD.
CallerInStep(c) ==
    LET s == caller[c]
    IN  /\ s.pc = "del" /\ s.id \notin raced => entry[s.id] = "none"
        /\ s.pc = "zadd" /\ s.id \notin raced \cup faulted => job[s.id] # NoJob
        /\ s.pc = "undo" => s.id \in faulted

\* So has a consumer's: a claimed id has no entry, and its key is there once
\* the job is saved or rescheduled.
WorkerInStep(w) ==
    LET s == worker[w]
    IN  /\ s.pc # "poll" => s.id \notin s.batch
        /\ \A i \in WorkerIds(w) \ raced : entry[i] = "none"
        /\ s.pc \in {"zadd", "requeue"} /\ s.id \notin raced \cup faulted
             => job[s.id] # NoJob

SequentialInv ==
    /\ Exclusive
    /\ \A c \in Callers : CallerInStep(c)
    /\ \A w \in Workers : WorkerInStep(w)
    /\ NoOrphanInSequentialUse

\* For the contract: a claimed id has its job, and the handler has it as it is.
JobInHand(w) ==
    LET s == worker[w]
    IN  /\ \A i \in s.batch \ Doubt : job[i] # NoJob
        /\ s.pc = "handle" /\ s.id \notin Doubt => job[s.id] = s.job
JobsInHand == \A w \in Workers : JobInHand(w)

=============================================================================
