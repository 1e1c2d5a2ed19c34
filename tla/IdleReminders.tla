--------------------------- MODULE IdleReminders ---------------------------
(***************************************************************************)
(* Reminders that an idle task VM is going to be recycled.                 *)
(*                                                                         *)
(*   RecordActivity  plans a new recycle time, moves one reminder job per  *)
(*                   tier, and the recycle job                             *)
(*   notifyConsumer  publishes a due reminder as an event named after its  *)
(*                   task, tier and recycle time                           *)
(*   the dispatcher  sends an event to each subscription of the tier that  *)
(*                   the send log does not have for that name              *)
(*   recycle         marks the VM and removes its jobs (module VMRecycle   *)
(*                   has the rest of it)                                   *)
(*                                                                         *)
(* A recycle time is a number: later activity plans a larger one.  A job   *)
(* is written or removed in one step, and its key deleted apart from its   *)
(* entry, as in VMRecycle.  The attempts of a job are not counted: a       *)
(* handler that fails is retried, or was at its last attempt.  A backend   *)
(* handles its reminders one after the other, here tier by tier.           *)
(*                                                                         *)
(* Nothing in this repository calls Dispatcher.Start: the dispatcher here  *)
(* is the code as it would run once something does.                        *)
(***************************************************************************)
EXTENDS Naturals, Sequences, FiniteSets

CONSTANTS
    Backends,       \* each runs a notifyConsumer and a dispatcher
    Refreshers,     \* goroutines that refresh the timers
    Tiers,          \* the reminder tiers, in the order of the configuration
    Subscriptions,  \* subscriptions of the task's user, by channel
    Matches,        \* the subscriptions the channel kinds of a tier select
    Policies,       \* values RecycleEnabled of the team's policy may take
    BatchSize,      \* events a dispatcher reads at a time (10)
    MaxPlans,       \* bound: recycle times planned
    MaxFaults       \* bound: failed commands, crashes, trimmed events

Tier == {Tiers[i] : i \in 1 .. Len(Tiers)}
Plans == 1 .. MaxPlans
Events == [tier : Tier, plan : Plans]

ASSUME RemindersAssumption ==
    /\ Tiers \in Seq(Tier)
    /\ Matches \in [Tier -> SUBSET Subscriptions]
    /\ Policies \subseteq BOOLEAN
    /\ BatchSize \in Nat \ {0} /\ MaxPlans \in Nat \ {0} /\ MaxFaults \in Nat

VARIABLES
    plan,        \* the last recycle time planned
    debounce,    \* vm:idle:debounce:<vm>:activity
    entry,       \* by tier, its job is queued: "none" | "later" | "due"
    job,         \* by tier, the recycle time under its job key, 0 without
    deadline,    \* recycle time of the recycle job, 0 without
    recycled,    \* is_recycled of the VM
    refresher,   \* what each refresher is doing
    recycling,   \* where recycle is: "idle" | "clean" | "done"
    consumer,    \* by backend and tier, what the consumer does with its job
    stream,      \* events nobody has read
    dispatcher,  \* by backend, the events it has read and the one it is sending
    log,         \* the send log: what was sent to whom, by subscription and name
    faults,      \* faults so far
    \* History, read by properties only.
    sent,        \* how often each event was sent to each subscription, up to 2
    fired,       \* reminders published, with their recycle time
    raced,       \* tiers moved while their job was handled
    mixed,       \* two goroutines were moving the jobs at once
    unsure       \* deliveries the send log has not or as failed, or that overlapped

queues == <<entry, job, deadline>>
moving == <<plan, debounce, refresher, recycling, mixed>>
sending == <<dispatcher, log, sent, unsure>>
vars == <<queues, moving, recycled, consumer, stream, sending, faults, fired, raced>>

IdleRefresher == [pc |-> "idle", plan |-> 0, enabled |-> FALSE, todo |-> <<>>]
IdleConsumer == [pc |-> "idle", plan |-> 0]
AllDone == [s \in Subscriptions |-> "done"]
IdleDispatcher == [batch |-> <<>>, found |-> FALSE, at |-> AllDone]

TypeOK ==
    /\ plan \in 0 .. MaxPlans
    /\ debounce \in BOOLEAN
    /\ entry \in [Tier -> {"none", "later", "due"}]
    /\ job \in [Tier -> 0 .. MaxPlans]
    /\ deadline \in 0 .. MaxPlans
    /\ recycled \in BOOLEAN
    /\ refresher \in [Refreshers ->
                       [pc : {"idle", "load", "move"},
                        plan : 0 .. MaxPlans,
                        enabled : BOOLEAN,    \* RecycleEnabled as resolved
                        todo : Seq(Tier)]]    \* tiers it has not moved yet
    /\ recycling \in {"idle", "clean", "done"}
    /\ consumer \in [Backends \X Tier ->
                       [pc : {"idle", "check", "publish", "retry", "done"}, plan : 0 .. MaxPlans]]
    /\ stream \in Seq(Events)
    /\ dispatcher \in [Backends ->
                        [batch : Seq(Events),
                         found : BOOLEAN,     \* it has the channels of the event
                         at : [Subscriptions -> {"check", "send", "log", "done"}]]]
    /\ \A b \in Backends : Len(dispatcher[b].batch) <= BatchSize
    /\ log \subseteq Subscriptions \X (Tier \X Plans)
    /\ faults \in 0 .. MaxFaults
    /\ sent \in [Subscriptions \X Events -> 0 .. 2]
    /\ fired \subseteq Tier \X Plans
    /\ raced \subseteq Tier
    /\ mixed \in BOOLEAN
    /\ unsure \subseteq Subscriptions \X Events

Init ==
    /\ plan = 0 /\ debounce = FALSE
    /\ entry = [t \in Tier |-> "none"] /\ job = [t \in Tier |-> 0] /\ deadline = 0
    /\ recycled = FALSE
    /\ refresher = [r \in Refreshers |-> IdleRefresher]
    /\ recycling = "idle"
    /\ consumer = [c \in Backends \X Tier |-> IdleConsumer]
    /\ stream = <<>>
    /\ dispatcher = [b \in Backends |-> IdleDispatcher]
    /\ log = {}
    /\ faults = 0
    /\ sent = [x \in Subscriptions \X Events |-> 0]
    /\ fired = {} /\ raced = {} /\ mixed = FALSE /\ unsure = {}

-----------------------------------------------------------------------------
Fault == faults < MaxFaults /\ faults' = faults + 1

Handled(t) == \E b \in Backends : consumer[<<b, t>>].pc # "idle"
Moving == recycling = "clean" \/ \E r \in Refreshers : refresher[r].pc = "move"

\* Another job for a tier, or none (p = 0).
Move(t, p) ==
    /\ entry' = [entry EXCEPT ![t] = IF p = 0 THEN "none" ELSE "later"]
    /\ job' = [job EXCEPT ![t] = p]
    /\ raced' = IF Handled(t) THEN raced \cup {t} ELSE raced

-----------------------------------------------------------------------------
(* refresh, applyRefresh, applyActivityPlan.                               *)

AtRefresh(r, pc) == refresher[r].pc = pc
Refresh(r, s) == refresher' = [refresher EXCEPT ![r] = s]
NotRefresh == UNCHANGED <<recycled, consumer, stream, sending, fired>>

\* SetNX of the debounce key; with the key there nothing happens.
RecordActivity(r) ==
    /\ AtRefresh(r, "idle") /\ ~debounce
    /\ debounce' = TRUE
    /\ Refresh(r, [IdleRefresher EXCEPT !.pc = "load"])
    /\ NotRefresh /\ UNCHANGED <<plan, queues, recycling, faults, raced, mixed>>

\* applyRefresh: a new time, under the policy as it is resolved now.
Plan(r) ==
    /\ plan < MaxPlans /\ plan' = plan + 1
    /\ mixed' = (mixed \/ Moving)
    /\ \E enabled \in Policies :
          Refresh(r, [pc |-> "move", plan |-> plan + 1, enabled |-> enabled, todo |-> Tiers])
    /\ NotRefresh /\ UNCHANGED <<debounce, queues, recycling, faults, raced>>

\* The row is loaded; is_recycled is not looked at.
Load(r) == AtRefresh(r, "load") /\ Plan(r)

\* A recycled VM may be deleted, and its row is not found.
LoadNothing(r) ==
    /\ AtRefresh(r, "load") /\ recycled
    /\ Refresh(r, IdleRefresher)
    /\ NotRefresh /\ UNCHANGED <<plan, debounce, queues, recycling, faults, raced, mixed>>

\* The consumer of the recycle job finds activity of the task and refreshes
\* without the debounce.
Skip(r) ==
    /\ AtRefresh(r, "idle") /\ deadline # 0 /\ ~recycled
    /\ Plan(r)

\* A failed load gives the debounce key back; what fails later does not.
LoadFails(r) ==
    /\ AtRefresh(r, "load")
    /\ Fault
    /\ debounce' = FALSE
    /\ Refresh(r, IdleRefresher)
    /\ NotRefresh /\ UNCHANGED <<plan, queues, recycling, raced, mixed>>

\* A command on a queue fails: the error is kept, the refresh goes on.
Tolerating(move) ==
    \/ move /\ UNCHANGED faults
    \/ Fault /\ UNCHANGED <<entry, job, raced>>

PlanFor(r) == IF refresher[r].enabled THEN refresher[r].plan ELSE 0

\* Mutant: a reminder that is queued keeps its time.
MoveTierIfMissing(r) ==
    /\ AtRefresh(r, "move") /\ refresher[r].todo # <<>>
    /\ LET t == Head(refresher[r].todo)
       IN  IF entry[t] = "none" \/ PlanFor(r) = 0
           THEN Tolerating(Move(t, PlanFor(r)))
           ELSE UNCHANGED <<entry, job, raced, faults>>
    /\ Refresh(r, [refresher[r] EXCEPT !.todo = Tail(@)])
    /\ NotRefresh /\ UNCHANGED <<plan, debounce, deadline, recycling, mixed>>

MoveTier(r) ==
    /\ AtRefresh(r, "move") /\ refresher[r].todo # <<>>
    /\ Tolerating(Move(Head(refresher[r].todo), PlanFor(r)))
    /\ Refresh(r, [refresher[r] EXCEPT !.todo = Tail(@)])
    /\ NotRefresh /\ UNCHANGED <<plan, debounce, deadline, recycling, mixed>>

MoveDeadline(r) ==
    /\ AtRefresh(r, "move") /\ refresher[r].todo = <<>>
    /\ \/ deadline' = PlanFor(r) /\ UNCHANGED faults
       \/ Fault /\ UNCHANGED deadline
    /\ Refresh(r, IdleRefresher)
    /\ NotRefresh /\ UNCHANGED <<plan, debounce, entry, job, recycling, raced, mixed>>

\* Cancelled with its request, or lost with its backend.
RefreshCut(r) ==
    /\ ~AtRefresh(r, "idle")
    /\ Fault
    /\ Refresh(r, IdleRefresher)
    /\ NotRefresh /\ UNCHANGED <<plan, debounce, queues, recycling, raced, mixed>>

DebounceExpires ==
    /\ debounce /\ debounce' = FALSE
    /\ NotRefresh /\ UNCHANGED <<plan, queues, refresher, recycling, faults, raced, mixed>>

-----------------------------------------------------------------------------
(* recycle: the mark, and the cleanup of the jobs.                         *)

Recycle ==
    /\ recycling = "idle"
    /\ recycled' = TRUE /\ recycling' = "clean"
    /\ mixed' = (mixed \/ Moving)
    /\ UNCHANGED <<plan, debounce, queues, refresher, consumer, stream, sending,
                   faults, fired, raced>>

\* What is queued: a job that is being handled is in no queue.
CleanTier(t) ==
    /\ recycling = "clean" /\ entry[t] # "none"
    /\ Move(t, 0)
    /\ UNCHANGED <<deadline, moving, recycled, consumer, stream, sending, faults, fired>>

CleanDeadline ==
    /\ recycling = "clean" /\ \A t \in Tier : entry[t] = "none"
    /\ recycling' = "done"
    /\ deadline' = 0
    /\ UNCHANGED <<plan, debounce, entry, job, refresher, recycled, consumer, stream,
                   sending, faults, fired, raced, mixed>>

-----------------------------------------------------------------------------
(* notifyConsumer.                                                         *)

AtJob(c, pc) == consumer[c].pc = pc
Consume(c, s) == consumer' = [consumer EXCEPT ![c] = s]
GoOn(c, pc) == Consume(c, [pc |-> pc, plan |-> consumer[c].plan])
NotConsumer == UNCHANGED <<deadline, moving, recycled, sending>>

\* Retried, or dropped with its key at its last attempt.
HandlerFails(c) == \E pc \in {"retry", "done"} : GoOn(c, pc)

\* The run time of the job has passed.
BecomesDue(t) ==
    /\ entry[t] = "later"
    /\ entry' = [entry EXCEPT ![t] = "due"]
    /\ UNCHANGED <<job, consumer, stream, faults, fired, raced>> /\ NotConsumer

\* The claim takes the entry; without a job under the key that is all.
Claim(b, t) ==
    /\ AtJob(<<b, t>>, "idle") /\ entry[t] = "due"
    /\ entry' = [entry EXCEPT ![t] = "none"]
    /\ IF job[t] = 0 THEN UNCHANGED consumer
       ELSE Consume(<<b, t>>, [pc |-> "check", plan |-> job[t]])
    /\ UNCHANGED <<job, stream, faults, fired, raced>> /\ NotConsumer

\* A recycled VM needs no reminder.
CheckVM(b, t) ==
    /\ AtJob(<<b, t>>, "check")
    /\ \/ GoOn(<<b, t>>, IF recycled THEN "done" ELSE "publish") /\ UNCHANGED faults
       \/ Fault /\ HandlerFails(<<b, t>>)
    /\ UNCHANGED <<entry, job, stream, fired, raced>> /\ NotConsumer

\* XADD of the reminder; a failure may hide that the event was added.
Publish(b, t) ==
    /\ AtJob(<<b, t>>, "publish")
    /\ LET p == consumer[<<b, t>>].plan
           added == /\ stream' = Append(stream, [tier |-> t, plan |-> p])
                    /\ fired' = fired \cup {<<t, p>>}
       IN  \/ added /\ GoOn(<<b, t>>, "done") /\ UNCHANGED faults
           \/ /\ Fault /\ HandlerFails(<<b, t>>)
              /\ added \/ UNCHANGED <<stream, fired>>
    /\ UNCHANGED <<entry, job, raced>> /\ NotConsumer

\* Save the job and queue it again.
Requeue(b, t) ==
    /\ AtJob(<<b, t>>, "retry")
    /\ \/ /\ job' = [job EXCEPT ![t] = consumer[<<b, t>>].plan]
          /\ entry' = [entry EXCEPT ![t] = "later"]
          /\ UNCHANGED faults
       \/ Fault /\ UNCHANGED <<entry, job>>
    /\ Consume(<<b, t>>, IdleConsumer)
    /\ UNCHANGED <<stream, fired, raced>> /\ NotConsumer

\* The key only: an entry made since the claim is left without a job.
DeleteJob(b, t) ==
    /\ AtJob(<<b, t>>, "done")
    /\ \/ job' = [job EXCEPT ![t] = 0] /\ UNCHANGED faults
       \/ Fault /\ UNCHANGED job
    /\ Consume(<<b, t>>, IdleConsumer)
    /\ UNCHANGED <<entry, stream, fired, raced>> /\ NotConsumer

-----------------------------------------------------------------------------
(* The dispatcher: consume, handleMessage, dispatchOne.                    *)

Dispatch(b, s) == dispatcher' = [dispatcher EXCEPT ![b] = s]
NotDispatcher == UNCHANGED <<queues, moving, recycled, consumer, fired, raced>>

Current(b) == Head(dispatcher[b].batch)
AtSend(b, s, at) == dispatcher[b].at[s] = at
Step(b, s, at) == Dispatch(b, [dispatcher[b] EXCEPT !.at[s] = at])

\* The next event of the batch; the one before is acknowledged, whatever came
\* of it.
NextEvent(b) == Dispatch(b, [IdleDispatcher EXCEPT !.batch = Tail(dispatcher[b].batch)])

\* Mutant: the time is left out of the RefID.
RefIDOfTier(e) == <<e.tier, 1>>

\* What the send log knows an event by: task:tier:time.
RefID(e) == <<e.tier, e.plan>>

\* Mutant: no COUNT.
ReadAll(b) ==
    /\ dispatcher[b].batch = <<>> /\ stream # <<>>
    /\ Dispatch(b, [IdleDispatcher EXCEPT !.batch = stream])
    /\ stream' = <<>>
    /\ UNCHANGED <<log, faults, sent, unsure>> /\ NotDispatcher

\* XREADGROUP ">": what is read here, nobody else will ever read.
Read(b) ==
    /\ dispatcher[b].batch = <<>> /\ stream # <<>>
    /\ LET n == IF Len(stream) < BatchSize THEN Len(stream) ELSE BatchSize
       IN  /\ Dispatch(b, [IdleDispatcher EXCEPT !.batch = SubSeq(stream, 1, n)])
           /\ stream' = SubSeq(stream, n + 1, Len(stream))
    /\ UNCHANGED <<log, faults, sent, unsure>> /\ NotDispatcher

\* Without the channels the event is dropped.
FindChannels(b) ==
    /\ dispatcher[b].batch # <<>> /\ ~dispatcher[b].found
    /\ \/ /\ Dispatch(b, [dispatcher[b] EXCEPT
                 !.found = TRUE,
                 !.at = [s \in Subscriptions |->
                           IF s \in Matches[Current(b).tier] THEN "check" ELSE "done"]])
          /\ UNCHANGED faults
       \/ Fault /\ NextEvent(b)
    /\ UNCHANGED <<stream, log, sent, unsure>> /\ NotDispatcher

\* Another dispatcher is sending the same.
Overlaps(b, s) ==
    \E d \in Backends \ {b} : /\ dispatcher[d].found /\ Current(d) = Current(b)
                              /\ dispatcher[d].at[s] \in {"send", "log"}

Doubt(b, s, why) ==
    unsure' = IF why THEN unsure \cup {<<s, Current(b)>>} ELSE unsure

\* Mutant: the send log is not looked at.
CheckNothing(b, s) ==
    /\ AtSend(b, s, "check")
    /\ Step(b, s, "send")
    /\ Doubt(b, s, Overlaps(b, s))
    /\ UNCHANGED <<faults, stream, log, sent>> /\ NotDispatcher

\* A subscription that has had the event is passed over; if that cannot be
\* found out, it is not.
CheckLog(b, s) ==
    /\ AtSend(b, s, "check")
    /\ \/ /\ Step(b, s, IF <<s, RefID(Current(b))>> \in log THEN "done" ELSE "send")
          /\ Doubt(b, s, Overlaps(b, s))
          /\ UNCHANGED faults
       \/ Fault /\ Step(b, s, "send") /\ Doubt(b, s, TRUE)
    /\ UNCHANGED <<stream, log, sent>> /\ NotDispatcher

\* In a goroutine of its own.  A failure is logged as such, which counts for
\* nothing, and is not made good; the message may have been delivered all the
\* same, its answer late or unreadable.
Send(b, s) ==
    /\ AtSend(b, s, "send")
    /\ LET x == <<s, Current(b)>>
           delivered == sent' = [sent EXCEPT ![x] = IF @ < 2 THEN @ + 1 ELSE @]
       IN  \/ /\ delivered /\ Step(b, s, "log")
              /\ UNCHANGED <<faults, unsure>>
           \/ /\ Fault /\ Step(b, s, "done")
              /\ \/ delivered /\ Doubt(b, s, TRUE)
                 \/ UNCHANGED <<sent, unsure>>
    /\ UNCHANGED <<stream, log>> /\ NotDispatcher

Log(b, s) ==
    /\ AtSend(b, s, "log")
    /\ \/ /\ log' = log \cup {<<s, RefID(Current(b))>>}
          /\ Doubt(b, s, FALSE)
          /\ UNCHANGED faults
       \/ Fault /\ UNCHANGED log /\ Doubt(b, s, TRUE)
    /\ Step(b, s, "done")
    /\ UNCHANGED <<stream, sent>> /\ NotDispatcher

\* All its goroutines are done.
Acknowledge(b) ==
    /\ dispatcher[b].found /\ dispatcher[b].at = AllDone
    /\ NextEvent(b)
    /\ UNCHANGED <<stream, log, faults, sent, unsure>> /\ NotDispatcher

-----------------------------------------------------------------------------
\* The stream is cut at its limits, in length and in age, read or not.
Trim ==
    /\ stream # <<>>
    /\ Fault
    /\ stream' = Tail(stream)
    /\ UNCHANGED sending /\ NotDispatcher

\* A backend stops: what it had claimed or read is lost, and what it had sent
\* without logging it may be sent again.
Crash(b) ==
    /\ dispatcher[b].batch # <<>> \/ \E t \in Tier : ~AtJob(<<b, t>>, "idle")
    /\ Fault
    /\ consumer' = [c \in Backends \X Tier |-> IF c[1] = b THEN IdleConsumer ELSE consumer[c]]
    /\ dispatcher' = [dispatcher EXCEPT ![b] = IdleDispatcher]
    /\ unsure' = unsure \cup
          {x \in Subscriptions \X Events :
              dispatcher[b].found /\ x[2] = Current(b) /\ dispatcher[b].at[x[1]] = "log"}
    /\ UNCHANGED <<queues, moving, recycled, stream, log, sent, fired, raced>>

RefreshNext(r) == Load(r) \/ LoadNothing(r) \/ MoveTier(r) \/ MoveDeadline(r)

ConsumerNext(b, t) ==
    CheckVM(b, t) \/ Publish(b, t) \/ Requeue(b, t) \/ DeleteJob(b, t)

SendNext(b, s) == CheckLog(b, s) \/ Send(b, s) \/ Log(b, s)
DispatcherNext(b) ==
    Read(b) \/ FindChannels(b) \/ (\E s \in Subscriptions : SendNext(b, s)) \/ Acknowledge(b)

Next ==
    \/ \E r \in Refreshers :
          RecordActivity(r) \/ RefreshNext(r) \/ Skip(r) \/ LoadFails(r) \/ RefreshCut(r)
    \/ DebounceExpires
    \/ Recycle \/ (\E t \in Tier : CleanTier(t)) \/ CleanDeadline
    \/ \E t \in Tier : BecomesDue(t)
    \/ \E b \in Backends, t \in Tier : Claim(b, t) \/ ConsumerNext(b, t)
    \/ \E b \in Backends : DispatcherNext(b) \/ Crash(b)
    \/ Trim

Spec == Init /\ [][Next]_vars

-----------------------------------------------------------------------------
(* Properties.                                                             *)

\* The comment on VmIdleInfo.RecycleAt, and the dispatcher's check: a reminder
\* is sent to a subscription once for each recycle time, though the event may
\* be published twice, unless a send that was delivered returned an error, the
\* send log was not written or not readable, or two dispatchers sent the same
\* at once.
OncePerWindow ==
    \A x \in Subscriptions \X Events : sent[x] > 1 => x \in unsure

\* ... and every recycle time has a reminder of its own: what the dispatcher is
\* through with was sent, unless something failed.
NoWindowSilenced ==
    \A b \in Backends, s \in Subscriptions :
       /\ dispatcher[b].found /\ AtSend(b, s, "done") /\ s \in Matches[Current(b).tier]
       => sent[<<s, Current(b)>>] > 0 \/ faults > 0

\* With nobody at work on the jobs, no queued reminder is of another time than
\* the recycle job, a recycled VM has none that no later activity asked for,
\* and a recycle that is coming has all its reminders: queued, in the hands of a
\* consumer or published.  Unless a command failed, two goroutines moved the
\* jobs at once, or a reminder was moved while an older one was handled.
RemindersFollow ==
    (~Moving /\ ~mixed /\ faults = 0)
       => \A t \in Tier \ raced :
             /\ entry[t] # "none" => job[t] = deadline
             /\ deadline # 0 /\ ~recycled =>
                   \/ entry[t] # "none"
                   \/ \E b \in Backends : consumer[<<b, t>>].plan = deadline
                   \/ <<t, deadline>> \in fired

=============================================================================
