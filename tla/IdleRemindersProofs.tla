------------------------ MODULE IdleRemindersProofs -------------------------
(***************************************************************************)
(* Proofs about IdleReminders, for any number of backends, refreshers,     *)
(* tiers, subscriptions and recycle times, and batches of any size.        *)
(*                                                                         *)
(* There are two inductive invariants.  DeliveryInv is about the           *)
(* dispatchers and the send log, and no step of anybody else disturbs it.  *)
(* JobsInv is about who moves and who handles the reminder jobs.           *)
(***************************************************************************)
EXTENDS IdleReminders, TLAPS

-----------------------------------------------------------------------------
(* The inductive invariant, of the dispatchers and of the jobs.            *)

\* b has the channels of the event of delivery x, and is at one of the steps.
On(b, x, steps) ==
    /\ dispatcher[b].found
    /\ Current(b) = x[2]
    /\ dispatcher[b].at[x[1]] \in steps

Deliveries == Subscriptions \X Events
Logged(x) == <<x[1], RefID(x[2])>> \in log

\* What a dispatcher and a consumer have in hand.
Reading ==
    \A b \in Backends :
       /\ dispatcher[b].found => dispatcher[b].batch # <<>>
       /\ ~dispatcher[b].found => dispatcher[b].at = AllDone

Holding == \A c \in Backends \X Tier : ~AtJob(c, "idle") => consumer[c].plan # 0

\* The send log is behind what was sent by what is about to be logged, and by
\* what is unsure: a delivery it has as failed among them.
LogIsTrue == \A x \in Deliveries : Logged(x) => sent[x] > 0
LogIsDue == \A b \in Backends, x \in Deliveries : On(b, x, {"log"}) => sent[x] > 0
SentIsKnown ==
    \A x \in Deliveries :
       sent[x] > 0 => x \in unsure \/ Logged(x) \/ \E b \in Backends : On(b, x, {"log"})

\* Who is about to send is the first to, and alone.
SendsFirst ==
    \A b \in Backends, x \in Deliveries : On(b, x, {"send"}) => sent[x] = 0 \/ x \in unsure
SendsAlone ==
    \A b, d \in Backends, x \in Deliveries :
       On(b, x, {"send", "log"}) /\ On(d, x, {"send", "log"}) => b = d \/ x \in unsure

DeliveryInv ==
    /\ Reading /\ LogIsTrue /\ LogIsDue /\ SentIsKnown /\ SendsFirst /\ SendsAlone
    /\ OncePerWindow /\ NoWindowSilenced

\* The jobs are moved by one goroutine at a time, unless mixed.
OneMover ==
    ~mixed =>
       /\ recycling = "clean" => \A r \in Refreshers : ~AtRefresh(r, "move")
       /\ \A q, r \in Refreshers : AtRefresh(q, "move") /\ AtRefresh(r, "move") => q = r

MarkedFirst == recycling # "idle" => recycled

\* The job of a tier is queued or in one pair of hands, unless raced.
OneHandler ==
    \A t \in Tier \ raced : \A b, d \in Backends :
       ~AtJob(<<b, t>>, "idle") /\ ~AtJob(<<d, t>>, "idle") => b = d
HandledNotQueued == \A t \in Tier \ raced : Handled(t) => entry[t] = "none"

\* Short of a failure a handler is done when the reminder is published, or
\* not needed.
Reminded ==
    faults = 0 => \A c \in Backends \X Tier :
       /\ ~AtJob(c, "retry")
       /\ AtJob(c, "done") => recycled \/ <<c[2], consumer[c].plan>> \in fired

\* The reminder of tier t is the one of recycle time p.
Follows(t, p) ==
    /\ entry[t] # "none" => job[t] = p
    /\ p # 0 /\ ~recycled =>
          \/ entry[t] # "none"
          \/ \E b \in Backends : consumer[<<b, t>>].plan = p
          \/ <<t, p>> \in fired

In(s, t) == \E i \in DOMAIN s : s[i] = t

InStep ==
    ~Moving /\ ~mixed /\ faults = 0 => \A t \in Tier \ raced : Follows(t, deadline)
MovedFollow ==
    ~mixed /\ faults = 0 => \A r \in Refreshers : AtRefresh(r, "move") =>
       \A t \in Tier \ raced : ~In(refresher[r].todo, t) => Follows(t, PlanFor(r))

JobsInv ==
    /\ OneMover /\ MarkedFirst /\ OneHandler /\ HandledNotQueued
    /\ Reminded /\ InStep /\ MovedFollow

-----------------------------------------------------------------------------
(* Types.                                                                  *)

RefresherStates ==
    [pc : {"idle", "load", "move"}, plan : 0 .. MaxPlans, enabled : BOOLEAN, todo : Seq(Tier)]
JobStates ==
    [pc : {"idle", "check", "publish", "retry", "done"}, plan : 0 .. MaxPlans]
DispatcherStates ==
    [batch : Seq(Events), found : BOOLEAN,
     at : [Subscriptions -> {"check", "send", "log", "done"}]]

LEMMA Bounds == MaxPlans \in Nat /\ MaxFaults \in Nat /\ BatchSize \in Nat \ {0} /\ MaxPlans # 0
BY RemindersAssumption

LEMMA RefreshEffect ==
    ASSUME TypeOK, NEW r \in Refreshers, NEW s, Refresh(r, s)
    PROVE  /\ refresher'[r] = s
           /\ \A q \in Refreshers : q # r => refresher'[q] = refresher[q]
BY DEF TypeOK, Refresh

LEMMA RefreshTyped ==
    ASSUME TypeOK, NEW r \in Refreshers, NEW s \in RefresherStates, Refresh(r, s)
    PROVE  refresher' \in [Refreshers -> RefresherStates]
<1>1. refresher \in [Refreshers -> RefresherStates] /\ refresher' = [refresher EXCEPT ![r] = s]
  BY DEF TypeOK, Refresh, RefresherStates
<1> QED
  BY <1>1

LEMMA ConsumeEffect ==
    ASSUME TypeOK, NEW c \in Backends \X Tier, NEW s, Consume(c, s)
    PROVE  /\ consumer'[c] = s
           /\ \A d \in Backends \X Tier : d # c => consumer'[d] = consumer[d]
BY DEF TypeOK, Consume

LEMMA ConsumeTyped ==
    ASSUME TypeOK, NEW c \in Backends \X Tier, NEW s \in JobStates, Consume(c, s)
    PROVE  consumer' \in [Backends \X Tier -> JobStates]
<1>1. consumer \in [Backends \X Tier -> JobStates] /\ consumer' = [consumer EXCEPT ![c] = s]
  BY DEF TypeOK, Consume, JobStates
<1> QED
  BY <1>1

LEMMA GoOnEffect ==
    ASSUME TypeOK, NEW c \in Backends \X Tier, NEW pc, GoOn(c, pc)
    PROVE  /\ consumer'[c].pc = pc /\ consumer'[c].plan = consumer[c].plan
           /\ \A d \in Backends \X Tier : d # c => consumer'[d] = consumer[d]
BY ConsumeEffect DEF GoOn

LEMMA GoOnTyped ==
    ASSUME TypeOK, NEW c \in Backends \X Tier,
           NEW pc \in {"check", "publish", "retry", "done"}, GoOn(c, pc)
    PROVE  consumer' \in [Backends \X Tier -> JobStates]
<1>1. consumer[c] \in JobStates
  BY DEF TypeOK, JobStates
<1>2. consumer[c].plan \in 0 .. MaxPlans
  BY <1>1 DEF JobStates
<1>3. [pc |-> pc, plan |-> consumer[c].plan] \in JobStates
  BY <1>2 DEF JobStates
<1> QED
  BY <1>3, ConsumeTyped DEF GoOn

LEMMA DispatchEffect ==
    ASSUME TypeOK, NEW b \in Backends, NEW s, Dispatch(b, s)
    PROVE  /\ dispatcher'[b] = s
           /\ \A d \in Backends : d # b => dispatcher'[d] = dispatcher[d]
BY DEF TypeOK, Dispatch

LEMMA DispatchTyped ==
    ASSUME TypeOK, NEW b \in Backends, NEW s \in DispatcherStates, Len(s.batch) <= BatchSize,
           Dispatch(b, s)
    PROVE  /\ dispatcher' \in [Backends -> DispatcherStates]
           /\ \A d \in Backends : Len(dispatcher'[d].batch) <= BatchSize
<1>1. dispatcher \in [Backends -> DispatcherStates]
      /\ dispatcher' = [dispatcher EXCEPT ![b] = s]
  BY DEF TypeOK, Dispatch, DispatcherStates
<1>2. \A d \in Backends : Len(dispatcher[d].batch) <= BatchSize
  BY DEF TypeOK
<1> QED
  BY <1>1, <1>2

LEMMA IdleTyped ==
    /\ IdleRefresher \in RefresherStates /\ IdleConsumer \in JobStates
    /\ IdleDispatcher \in DispatcherStates /\ IdleDispatcher.batch = <<>>
    /\ Len(IdleDispatcher.batch) <= BatchSize
<1>1. 0 \in 0 .. MaxPlans
  BY Bounds
<1>2. IdleRefresher \in RefresherStates
  BY <1>1 DEF IdleRefresher, RefresherStates
<1>3. IdleConsumer \in JobStates
  BY <1>1 DEF IdleConsumer, JobStates
<1>4. IdleDispatcher \in DispatcherStates /\ IdleDispatcher.batch = <<>>
  BY DEF IdleDispatcher, DispatcherStates, AllDone
<1> QED
  BY <1>2, <1>3, <1>4, Bounds

LEMMA CurrentTyped ==
    ASSUME TypeOK, NEW b \in Backends, dispatcher[b].batch # <<>>
    PROVE  /\ Current(b) \in Events /\ Current(b).tier \in Tier /\ Current(b).plan \in Plans
           /\ dispatcher[b].batch \in Seq(Events) /\ Tail(dispatcher[b].batch) \in Seq(Events)
           /\ Len(Tail(dispatcher[b].batch)) <= BatchSize
<1>1. dispatcher[b].batch \in Seq(Events) /\ Len(dispatcher[b].batch) <= BatchSize
  BY DEF TypeOK
<1>2. Current(b) \in Events
  BY <1>1 DEF Current
<1>3. Tail(dispatcher[b].batch) \in Seq(Events)
      /\ Len(Tail(dispatcher[b].batch)) = Len(dispatcher[b].batch) - 1
  BY <1>1
<1>4. Len(Tail(dispatcher[b].batch)) <= BatchSize
  BY <1>1, <1>3, Bounds
<1> QED
  BY <1>1, <1>2, <1>3, <1>4 DEF Events

LEMMA FaultTyped ==
    ASSUME TypeOK, Fault \/ UNCHANGED faults
    PROVE  faults' \in 0 .. MaxFaults /\ faults' >= faults /\ (Fault => faults' > 0)
BY Bounds DEF TypeOK, Fault

LEMMA FaultsGrow ==
    ASSUME TypeOK, Fault \/ UNCHANGED faults
    PROVE  /\ faults > 0 => faults' > 0
           /\ faults' = 0 => faults = 0 /\ UNCHANGED faults
<1>1. faults \in 0 .. MaxFaults
  BY DEF TypeOK
<1> QED
  BY <1>1, Bounds DEF Fault

LEMMA MoveTyped ==
    ASSUME TypeOK, NEW t \in Tier, NEW p \in 0 .. MaxPlans, Move(t, p)
    PROVE  /\ entry' \in [Tier -> {"none", "later", "due"}]
           /\ job' \in [Tier -> 0 .. MaxPlans]
           /\ raced' \subseteq Tier
BY DEF TypeOK, Move

LEMMA PlanTyped ==
    ASSUME TypeOK, NEW r \in Refreshers
    PROVE  PlanFor(r) \in 0 .. MaxPlans
<1>1. refresher[r].plan \in 0 .. MaxPlans
  BY DEF TypeOK
<1> QED
  BY <1>1, Bounds DEF PlanFor

LEMMA HeadTyped ==
    ASSUME TypeOK, NEW r \in Refreshers, refresher[r].todo # <<>>
    PROVE  /\ refresher[r].todo \in Seq(Tier)
           /\ Head(refresher[r].todo) \in Tier /\ Tail(refresher[r].todo) \in Seq(Tier)
<1>1. refresher[r].todo \in Seq(Tier)
  BY DEF TypeOK
<1> QED
  BY <1>1

\* By the part of the state a step is about.
LEMMA RefreshStepTyped ==
    ASSUME TypeOK, NotRefresh,
           refresher' \in [Refreshers -> RefresherStates],
           plan' \in 0 .. MaxPlans, debounce' \in BOOLEAN,
           entry' \in [Tier -> {"none", "later", "due"}], job' \in [Tier -> 0 .. MaxPlans],
           deadline' \in 0 .. MaxPlans, recycling' \in {"idle", "clean", "done"},
           faults' \in 0 .. MaxFaults, raced' \subseteq Tier, mixed' \in BOOLEAN
    PROVE  TypeOK'
BY DEF TypeOK, NotRefresh, sending, RefresherStates

LEMMA ConsumerStepTyped ==
    ASSUME TypeOK, NotConsumer,
           consumer' \in [Backends \X Tier -> JobStates],
           entry' \in [Tier -> {"none", "later", "due"}], job' \in [Tier -> 0 .. MaxPlans],
           stream' \in Seq(Events), fired' \subseteq Tier \X Plans,
           faults' \in 0 .. MaxFaults, raced' \subseteq Tier
    PROVE  TypeOK'
BY DEF TypeOK, NotConsumer, moving, sending, JobStates

LEMMA DispatcherStepTyped ==
    ASSUME TypeOK, NotDispatcher,
           dispatcher' \in [Backends -> DispatcherStates],
           \A b \in Backends : Len(dispatcher'[b].batch) <= BatchSize,
           stream' \in Seq(Events), log' \subseteq Subscriptions \X (Tier \X Plans),
           sent' \in [Subscriptions \X Events -> 0 .. 2],
           unsure' \subseteq Subscriptions \X Events, faults' \in 0 .. MaxFaults
    PROVE  TypeOK'
BY DEF TypeOK, NotDispatcher, queues, moving, DispatcherStates

\* The same state, for the components a step leaves alone.
LEMMA Typed ==
    ASSUME TypeOK
    PROVE  /\ refresher \in [Refreshers -> RefresherStates]
           /\ consumer \in [Backends \X Tier -> JobStates]
           /\ dispatcher \in [Backends -> DispatcherStates]
           /\ \A b \in Backends : Len(dispatcher[b].batch) <= BatchSize
BY DEF TypeOK, RefresherStates, JobStates, DispatcherStates

LEMMA InitTyped ==
    ASSUME Init
    PROVE  TypeOK
<1>1. /\ 0 \in 0 .. MaxPlans /\ 0 \in 0 .. MaxFaults /\ 0 \in 0 .. 2
      /\ <<>> \in Seq(Events)
  BY Bounds
<1>2. /\ refresher \in [Refreshers -> RefresherStates]
      /\ consumer \in [Backends \X Tier -> JobStates]
      /\ dispatcher \in [Backends -> DispatcherStates]
      /\ \A b \in Backends : Len(dispatcher[b].batch) <= BatchSize
  BY IdleTyped DEF Init
<1> QED
  BY <1>1, <1>2 DEF Init, TypeOK, RefresherStates, JobStates, DispatcherStates

LEMMA RecordActivityTyped ==
    ASSUME TypeOK, NEW r \in Refreshers, RecordActivity(r)
    PROVE  TypeOK'
<1>1. [IdleRefresher EXCEPT !.pc = "load"] \in RefresherStates
  BY IdleTyped DEF RefresherStates
<1>2. refresher' \in [Refreshers -> RefresherStates]
  BY <1>1, RefreshTyped DEF RecordActivity
<1> QED
  BY <1>2, RefreshStepTyped DEF RecordActivity, TypeOK, queues

LEMMA PlanStepTyped ==
    ASSUME TypeOK, NEW r \in Refreshers, Plan(r)
    PROVE  TypeOK'
<1>1. plan + 1 \in 0 .. MaxPlans
  BY Bounds DEF TypeOK, Plan
<1>2. PICK enabled \in Policies :
         Refresh(r, [pc |-> "move", plan |-> plan + 1, enabled |-> enabled, todo |-> Tiers])
  BY DEF Plan
<1>3. enabled \in BOOLEAN /\ Tiers \in Seq(Tier)
  BY RemindersAssumption
<1>4. [pc |-> "move", plan |-> plan + 1, enabled |-> enabled, todo |-> Tiers]
      \in RefresherStates
  BY <1>1, <1>3 DEF RefresherStates
<1>5. refresher' \in [Refreshers -> RefresherStates]
  BY <1>2, <1>4, RefreshTyped
<1>6. mixed' \in BOOLEAN
  BY DEF TypeOK, Plan
<1> QED
  BY <1>1, <1>5, <1>6, RefreshStepTyped DEF Plan, TypeOK, queues

LEMMA LoadNothingTyped ==
    ASSUME TypeOK, NEW r \in Refreshers, LoadNothing(r)
    PROVE  TypeOK'
<1>1. refresher' \in [Refreshers -> RefresherStates]
  BY IdleTyped, RefreshTyped DEF LoadNothing
<1> QED
  BY <1>1, RefreshStepTyped DEF LoadNothing, TypeOK, queues

LEMMA LoadFailsTyped ==
    ASSUME TypeOK, NEW r \in Refreshers, LoadFails(r)
    PROVE  TypeOK'
<1>1. refresher' \in [Refreshers -> RefresherStates]
  BY IdleTyped, RefreshTyped DEF LoadFails
<1>2. faults' \in 0 .. MaxFaults
  BY FaultTyped DEF LoadFails
<1> QED
  BY <1>1, <1>2, RefreshStepTyped DEF LoadFails, TypeOK, queues

LEMMA RestTyped ==
    ASSUME TypeOK, NEW r \in Refreshers, refresher[r].todo # <<>>
    PROVE  [refresher[r] EXCEPT !.todo = Tail(@)] \in RefresherStates
<1>1. refresher[r] \in RefresherStates
  BY Typed
<1>2. Tail(refresher[r].todo) \in Seq(Tier)
  BY HeadTyped
<1> QED
  BY <1>1, <1>2 DEF RefresherStates

LEMMA MoveTierTyped ==
    ASSUME TypeOK, NEW r \in Refreshers, MoveTier(r)
    PROVE  TypeOK'
<1> DEFINE t == Head(refresher[r].todo)
<1>1. t \in Tier
  BY HeadTyped DEF MoveTier
<1>2. refresher' \in [Refreshers -> RefresherStates]
  BY RestTyped, RefreshTyped DEF MoveTier
<1>3. /\ entry' \in [Tier -> {"none", "later", "due"}]
      /\ job' \in [Tier -> 0 .. MaxPlans]
      /\ raced' \subseteq Tier
  <2>1. CASE Move(t, PlanFor(r))
    BY <1>1, <2>1, PlanTyped, MoveTyped
  <2>2. CASE UNCHANGED <<entry, job, raced>>
    BY <2>2 DEF TypeOK
  <2> QED
    BY <2>1, <2>2 DEF MoveTier, Tolerating
<1>4. faults' \in 0 .. MaxFaults
  BY FaultTyped DEF MoveTier, Tolerating
<1> QED
  BY <1>2, <1>3, <1>4, RefreshStepTyped DEF MoveTier, TypeOK

LEMMA MoveDeadlineTyped ==
    ASSUME TypeOK, NEW r \in Refreshers, MoveDeadline(r)
    PROVE  TypeOK'
<1>1. refresher' \in [Refreshers -> RefresherStates]
  BY IdleTyped, RefreshTyped DEF MoveDeadline
<1>2. deadline' \in 0 .. MaxPlans
  BY PlanTyped DEF MoveDeadline, TypeOK
<1>3. faults' \in 0 .. MaxFaults
  BY FaultTyped DEF MoveDeadline
<1> QED
  BY <1>1, <1>2, <1>3, RefreshStepTyped DEF MoveDeadline, TypeOK

LEMMA RefreshCutTyped ==
    ASSUME TypeOK, NEW r \in Refreshers, RefreshCut(r)
    PROVE  TypeOK'
<1>1. refresher' \in [Refreshers -> RefresherStates]
  BY IdleTyped, RefreshTyped DEF RefreshCut
<1>2. faults' \in 0 .. MaxFaults
  BY FaultTyped DEF RefreshCut
<1> QED
  BY <1>1, <1>2, RefreshStepTyped DEF RefreshCut, TypeOK, queues

LEMMA DebounceExpiresTyped ==
    ASSUME TypeOK, DebounceExpires
    PROVE  TypeOK'
BY Typed, RefreshStepTyped DEF DebounceExpires, TypeOK, queues

LEMMA RecycleTyped ==
    ASSUME TypeOK, Recycle
    PROVE  TypeOK'
BY DEF TypeOK, Recycle, queues, sending

LEMMA CleanTierTyped ==
    ASSUME TypeOK, NEW t \in Tier, CleanTier(t)
    PROVE  TypeOK'
<1>1. /\ entry' \in [Tier -> {"none", "later", "due"}]
      /\ job' \in [Tier -> 0 .. MaxPlans]
      /\ raced' \subseteq Tier
  BY Bounds, MoveTyped DEF CleanTier
<1> QED
  BY <1>1 DEF TypeOK, CleanTier, moving, sending

LEMMA CleanDeadlineTyped ==
    ASSUME TypeOK, CleanDeadline
    PROVE  TypeOK'
BY Bounds DEF TypeOK, CleanDeadline, sending

LEMMA BecomesDueTyped ==
    ASSUME TypeOK, NEW t \in Tier, BecomesDue(t)
    PROVE  TypeOK'
<1>1. entry' \in [Tier -> {"none", "later", "due"}]
  BY DEF TypeOK, BecomesDue
<1> QED
  BY <1>1, Typed, ConsumerStepTyped DEF BecomesDue, TypeOK

LEMMA ClaimTyped ==
    ASSUME TypeOK, NEW b \in Backends, NEW t \in Tier, Claim(b, t)
    PROVE  TypeOK'
<1>1. entry' \in [Tier -> {"none", "later", "due"}] /\ job[t] \in 0 .. MaxPlans
  BY DEF TypeOK, Claim
<1>2. [pc |-> "check", plan |-> job[t]] \in JobStates
  BY <1>1 DEF JobStates
<1>3. consumer' \in [Backends \X Tier -> JobStates]
  BY <1>2, Typed, ConsumeTyped DEF Claim
<1> QED
  BY <1>1, <1>3, ConsumerStepTyped DEF Claim, TypeOK

LEMMA CheckVMTyped ==
    ASSUME TypeOK, NEW b \in Backends, NEW t \in Tier, CheckVM(b, t)
    PROVE  TypeOK'
<1>1. PICK pc \in {"check", "publish", "retry", "done"} : GoOn(<<b, t>>, pc)
  BY DEF CheckVM, HandlerFails
<1>2. consumer' \in [Backends \X Tier -> JobStates]
  BY <1>1, GoOnTyped
<1>3. faults' \in 0 .. MaxFaults
  BY FaultTyped DEF CheckVM
<1> QED
  BY <1>2, <1>3, ConsumerStepTyped DEF CheckVM, TypeOK

LEMMA PublishTyped ==
    ASSUME TypeOK, NEW b \in Backends, NEW t \in Tier, Publish(b, t),
           consumer[<<b, t>>].plan \in Plans
    PROVE  TypeOK'
<1> DEFINE p == consumer[<<b, t>>].plan
<1>1. [tier |-> t, plan |-> p] \in Events /\ <<t, p>> \in Tier \X Plans
  BY DEF Events
<1>2. PICK pc \in {"check", "publish", "retry", "done"} : GoOn(<<b, t>>, pc)
  BY DEF Publish, HandlerFails
<1>3. consumer' \in [Backends \X Tier -> JobStates]
  BY <1>2, GoOnTyped
<1>4. \/ stream' = Append(stream, [tier |-> t, plan |-> p]) /\ fired' = fired \cup {<<t, p>>}
      \/ UNCHANGED <<stream, fired>>
  BY DEF Publish
<1>5. stream' \in Seq(Events) /\ fired' \subseteq Tier \X Plans
  <2> DEFINE e == [tier |-> t, plan |-> p]
             f == <<t, p>>
  <2>1. /\ stream \in Seq(Events) /\ fired \subseteq Tier \X Plans
        /\ e \in Events /\ f \in Tier \X Plans
    BY <1>1 DEF TypeOK
  <2>2. \/ stream' = Append(stream, e) /\ fired' = fired \cup {f}
        \/ stream' = stream /\ fired' = fired
    BY <1>4
  <2> HIDE DEF e, f
  <2>3. Append(stream, e) \in Seq(Events) /\ fired \cup {f} \subseteq Tier \X Plans
    BY <2>1
  <2> QED
    BY <2>1, <2>2, <2>3
<1>6. faults' \in 0 .. MaxFaults
  BY FaultTyped DEF Publish
<1> QED
  BY <1>3, <1>5, <1>6, ConsumerStepTyped DEF Publish, TypeOK

LEMMA RequeueTyped ==
    ASSUME TypeOK, NEW b \in Backends, NEW t \in Tier, Requeue(b, t)
    PROVE  TypeOK'
<1>1. consumer' \in [Backends \X Tier -> JobStates]
  BY IdleTyped, ConsumeTyped DEF Requeue
<1>2. consumer[<<b, t>>].plan \in 0 .. MaxPlans
  BY Typed DEF JobStates
<1>3. entry' \in [Tier -> {"none", "later", "due"}] /\ job' \in [Tier -> 0 .. MaxPlans]
  BY <1>2 DEF TypeOK, Requeue
<1>4. faults' \in 0 .. MaxFaults
  BY FaultTyped DEF Requeue
<1> QED
  BY <1>1, <1>3, <1>4, ConsumerStepTyped DEF Requeue, TypeOK

LEMMA DeleteJobTyped ==
    ASSUME TypeOK, NEW b \in Backends, NEW t \in Tier, DeleteJob(b, t)
    PROVE  TypeOK'
<1>1. consumer' \in [Backends \X Tier -> JobStates]
  BY IdleTyped, ConsumeTyped DEF DeleteJob
<1>2. job' \in [Tier -> 0 .. MaxPlans]
  <2>1. 0 \in 0 .. MaxPlans /\ job \in [Tier -> 0 .. MaxPlans]
    BY Bounds DEF TypeOK
  <2>2. job' = [job EXCEPT ![t] = 0] \/ job' = job
    BY DEF DeleteJob
  <2> QED
    BY <2>1, <2>2
<1>3. faults' \in 0 .. MaxFaults
  BY FaultTyped DEF DeleteJob
<1> QED
  BY <1>1, <1>2, <1>3, ConsumerStepTyped DEF DeleteJob, TypeOK

\* The next event, or none.
LEMMA NextEventTyped ==
    ASSUME TypeOK, NEW b \in Backends, dispatcher[b].batch # <<>>, NextEvent(b)
    PROVE  /\ dispatcher' \in [Backends -> DispatcherStates]
           /\ \A d \in Backends : Len(dispatcher'[d].batch) <= BatchSize
<1> DEFINE s == [IdleDispatcher EXCEPT !.batch = Tail(dispatcher[b].batch)]
<1>1. s \in DispatcherStates /\ Len(s.batch) <= BatchSize
  BY IdleTyped, CurrentTyped DEF DispatcherStates
<1> QED
  BY <1>1, DispatchTyped DEF NextEvent

LEMMA StepTyped ==
    ASSUME TypeOK, NEW b \in Backends, NEW s \in Subscriptions,
           NEW at \in {"check", "send", "log", "done"}, Step(b, s, at)
    PROVE  /\ dispatcher' \in [Backends -> DispatcherStates]
           /\ \A d \in Backends : Len(dispatcher'[d].batch) <= BatchSize
<1> DEFINE n == [dispatcher[b] EXCEPT !.at[s] = at]
<1>1. dispatcher[b] \in DispatcherStates /\ Len(dispatcher[b].batch) <= BatchSize
  BY Typed
<1>2. dispatcher[b].at \in [Subscriptions -> {"check", "send", "log", "done"}]
  BY <1>1 DEF DispatcherStates
<1>3. [dispatcher[b].at EXCEPT ![s] = at]
      \in [Subscriptions -> {"check", "send", "log", "done"}]
  BY <1>2
<1>4. n \in DispatcherStates /\ n.batch = dispatcher[b].batch
  BY <1>1, <1>3 DEF DispatcherStates
<1> QED
  BY <1>1, <1>4, DispatchTyped DEF Step

LEMMA ReadTyped ==
    ASSUME TypeOK, NEW b \in Backends, Read(b)
    PROVE  TypeOK'
<1> DEFINE n == IF Len(stream) < BatchSize THEN Len(stream) ELSE BatchSize
           s == [IdleDispatcher EXCEPT !.batch = SubSeq(stream, 1, n)]
<1>1. stream \in Seq(Events) /\ n \in Nat /\ n <= Len(stream) /\ n <= BatchSize
  BY Bounds DEF TypeOK
<1>2. SubSeq(stream, 1, n) \in Seq(Events) /\ Len(SubSeq(stream, 1, n)) = n
  <2>1. \A i \in 1 .. n : stream[i] \in Events
    BY <1>1
  <2>2. SubSeq(stream, 1, n) = [i \in 1 .. n |-> stream[i]]
    BY <1>1
  <2> QED
    BY <1>1, <2>1, <2>2
<1>3. SubSeq(stream, n + 1, Len(stream)) \in Seq(Events)
  BY <1>1
<1>4. s \in DispatcherStates /\ Len(s.batch) <= BatchSize
  BY <1>1, <1>2, IdleTyped DEF DispatcherStates
<1>5. /\ dispatcher' \in [Backends -> DispatcherStates]
      /\ \A d \in Backends : Len(dispatcher'[d].batch) <= BatchSize
  BY <1>4, DispatchTyped DEF Read
<1>6. stream' \in Seq(Events)
  BY <1>3 DEF Read
<1> QED
  BY <1>5, <1>6, DispatcherStepTyped DEF Read, TypeOK

LEMMA FindChannelsTyped ==
    ASSUME TypeOK, NEW b \in Backends, FindChannels(b)
    PROVE  TypeOK'
<1> DEFINE at == [s \in Subscriptions |->
                    IF s \in Matches[Current(b).tier] THEN "check" ELSE "done"]
           s == [dispatcher[b] EXCEPT !.found = TRUE, !.at = at]
<1>1. dispatcher[b] \in DispatcherStates /\ Len(dispatcher[b].batch) <= BatchSize
  BY Typed
<1>2. s \in DispatcherStates /\ s.batch = dispatcher[b].batch
  BY <1>1 DEF DispatcherStates
<1>3. /\ dispatcher' \in [Backends -> DispatcherStates]
      /\ \A d \in Backends : Len(dispatcher'[d].batch) <= BatchSize
  <2>1. CASE Dispatch(b, s)
    BY <1>1, <1>2, <2>1, DispatchTyped
  <2>2. CASE NextEvent(b)
    BY <2>2, NextEventTyped DEF FindChannels
  <2> QED
    BY <2>1, <2>2 DEF FindChannels
<1>4. faults' \in 0 .. MaxFaults
  BY FaultTyped DEF FindChannels
<1> QED
  BY <1>3, <1>4, DispatcherStepTyped DEF FindChannels, TypeOK

LEMMA DeliveryTyped ==
    ASSUME TypeOK, NEW b \in Backends, NEW s \in Subscriptions, dispatcher[b].batch # <<>>
    PROVE  <<s, Current(b)>> \in Subscriptions \X Events
BY CurrentTyped

LEMMA DoubtTyped ==
    ASSUME TypeOK, NEW b \in Backends, NEW s \in Subscriptions, dispatcher[b].batch # <<>>,
           NEW why, Doubt(b, s, why)
    PROVE  unsure' \subseteq Subscriptions \X Events
BY DeliveryTyped DEF Doubt, TypeOK

LEMMA CheckLogTyped ==
    ASSUME TypeOK, NEW b \in Backends, NEW s \in Subscriptions, dispatcher[b].batch # <<>>,
           CheckLog(b, s)
    PROVE  TypeOK'
<1>1. PICK at \in {"check", "send", "log", "done"} : Step(b, s, at)
  BY DEF CheckLog
<1>2. PICK why : Doubt(b, s, why)
  BY DEF CheckLog
<1>3. faults' \in 0 .. MaxFaults
  BY FaultTyped DEF CheckLog
<1>4. /\ dispatcher' \in [Backends -> DispatcherStates]
      /\ \A d \in Backends : Len(dispatcher'[d].batch) <= BatchSize
  BY <1>1, StepTyped
<1>5. unsure' \subseteq Subscriptions \X Events
  BY <1>2, DoubtTyped
<1> QED
  BY <1>3, <1>4, <1>5, DispatcherStepTyped DEF CheckLog, TypeOK

LEMMA SendTyped ==
    ASSUME TypeOK, NEW b \in Backends, NEW s \in Subscriptions, dispatcher[b].batch # <<>>,
           Send(b, s)
    PROVE  TypeOK'
<1> DEFINE x == <<s, Current(b)>>
<1>1. PICK at \in {"check", "send", "log", "done"} : Step(b, s, at)
  BY DEF Send
<1>2. /\ dispatcher' \in [Backends -> DispatcherStates]
      /\ \A d \in Backends : Len(dispatcher'[d].batch) <= BatchSize
  BY <1>1, StepTyped
<1>3. x \in Subscriptions \X Events
  BY DeliveryTyped
<1>4. sent \in [Subscriptions \X Events -> 0 .. 2]
  BY DEF TypeOK
<1>5. (IF sent[x] < 2 THEN sent[x] + 1 ELSE sent[x]) \in 0 .. 2
  <2> HIDE DEF x
  <2> QED
    BY <1>3, <1>4
<1>6. sent' \in [Subscriptions \X Events -> 0 .. 2]
  <2>1. CASE sent' = [sent EXCEPT ![x] = IF @ < 2 THEN @ + 1 ELSE @]
    <3> HIDE DEF x
    <3> QED
      BY <1>3, <1>4, <1>5, <2>1
  <2>2. CASE UNCHANGED sent
    BY <1>4, <2>2
  <2> QED
    BY <2>1, <2>2 DEF Send
<1>7. faults' \in 0 .. MaxFaults
  BY FaultTyped DEF Send
<1>8. unsure' \subseteq Subscriptions \X Events
  BY DoubtTyped DEF Send, TypeOK
<1> QED
  BY <1>2, <1>6, <1>7, <1>8, DispatcherStepTyped DEF Send, TypeOK

LEMMA LogTyped ==
    ASSUME TypeOK, NEW b \in Backends, NEW s \in Subscriptions, dispatcher[b].batch # <<>>,
           Log(b, s)
    PROVE  TypeOK'
<1>1. /\ dispatcher' \in [Backends -> DispatcherStates]
      /\ \A d \in Backends : Len(dispatcher'[d].batch) <= BatchSize
  BY StepTyped DEF Log
<1>2. PICK why : Doubt(b, s, why)
  BY DEF Log
<1>3. unsure' \subseteq Subscriptions \X Events
  BY <1>2, DoubtTyped
<1>4. <<s, RefID(Current(b))>> \in Subscriptions \X (Tier \X Plans)
  BY CurrentTyped DEF RefID
<1>5. log' \subseteq Subscriptions \X (Tier \X Plans)
  BY <1>4 DEF Log, TypeOK
<1>6. faults' \in 0 .. MaxFaults
  BY FaultTyped DEF Log
<1> QED
  BY <1>1, <1>3, <1>5, <1>6, DispatcherStepTyped DEF Log, TypeOK

LEMMA AcknowledgeTyped ==
    ASSUME TypeOK, NEW b \in Backends, dispatcher[b].batch # <<>>, Acknowledge(b)
    PROVE  TypeOK'
<1>1. /\ dispatcher' \in [Backends -> DispatcherStates]
      /\ \A d \in Backends : Len(dispatcher'[d].batch) <= BatchSize
  BY NextEventTyped DEF Acknowledge
<1> QED
  BY <1>1, DispatcherStepTyped DEF Acknowledge, TypeOK

LEMMA TrimTyped ==
    ASSUME TypeOK, Trim
    PROVE  TypeOK'
<1>1. stream' \in Seq(Events)
  BY DEF Trim, TypeOK
<1>2. faults' \in 0 .. MaxFaults
  BY FaultTyped DEF Trim
<1> QED
  BY <1>1, <1>2, Typed, DispatcherStepTyped DEF Trim, TypeOK, sending

LEMMA CrashTyped ==
    ASSUME TypeOK, NEW b \in Backends, Crash(b)
    PROVE  TypeOK'
<1>1. /\ dispatcher' \in [Backends -> DispatcherStates]
      /\ \A d \in Backends : Len(dispatcher'[d].batch) <= BatchSize
  BY IdleTyped, DispatchTyped DEF Crash, Dispatch
<1>2. consumer' \in [Backends \X Tier -> JobStates]
  BY IdleTyped, Typed DEF Crash
<1>3. unsure' \subseteq Subscriptions \X Events
  BY DEF Crash, TypeOK
<1>4. faults' \in 0 .. MaxFaults
  BY FaultTyped DEF Crash
<1> QED
  BY <1>1, <1>2, <1>3, <1>4 DEF Crash, TypeOK, queues, moving, JobStates, DispatcherStates

-----------------------------------------------------------------------------
(* What a step has in hand, and the steps by whose they are.               *)

TypeInv == TypeOK /\ Reading /\ Holding

LEMMA HasEvent ==
    ASSUME TypeInv, NEW b \in Backends, NEW s \in Subscriptions,
           \/ dispatcher[b].found
           \/ AtSend(b, s, "check") \/ AtSend(b, s, "send") \/ AtSend(b, s, "log")
    PROVE  dispatcher[b].found /\ dispatcher[b].batch # <<>>
BY DEF TypeInv, Reading, AtSend, AllDone

\* A step of the refreshers or of the recycle.
MoverStep ==
    \/ \E r \in Refreshers :
          RecordActivity(r) \/ RefreshNext(r) \/ Skip(r) \/ LoadFails(r) \/ RefreshCut(r)
    \/ DebounceExpires
    \/ Recycle \/ (\E t \in Tier : CleanTier(t)) \/ CleanDeadline

\* Of the queue and its consumers.
JobStep ==
    \/ \E t \in Tier : BecomesDue(t)
    \/ \E b \in Backends, t \in Tier : Claim(b, t) \/ ConsumerNext(b, t)

\* Of the dispatchers.
DispatchStep == (\E b \in Backends : DispatcherNext(b)) \/ Trim

LEMMA NextSteps ==
    Next => MoverStep \/ JobStep \/ DispatchStep \/ \E b \in Backends : Crash(b)
BY DEF Next, MoverStep, JobStep, DispatchStep

LEMMA MoverLeaves ==
    ASSUME MoverStep
    PROVE  /\ UNCHANGED sending
           /\ UNCHANGED consumer
           /\ UNCHANGED stream
           /\ UNCHANGED fired
BY DEF MoverStep, RefreshNext, RecordActivity, Load, LoadNothing, MoveTier, MoveDeadline, Skip,
   Plan,
       LoadFails, RefreshCut, DebounceExpires, Recycle, CleanTier, CleanDeadline, NotRefresh

LEMMA JobLeaves ==
    ASSUME JobStep
    PROVE  /\ UNCHANGED sending
           /\ UNCHANGED moving
           /\ UNCHANGED deadline
           /\ UNCHANGED recycled
BY DEF JobStep, ConsumerNext, BecomesDue, Claim, CheckVM, Publish, Requeue, DeleteJob,
   NotConsumer

LEMMA DispatchLeaves ==
    ASSUME DispatchStep
    PROVE  NotDispatcher
BY DEF DispatchStep, DispatcherNext, SendNext, Read, FindChannels, CheckLog, Send, Log,
   Acknowledge, Trim

LEMMA MoverTyped ==
    ASSUME TypeInv, MoverStep
    PROVE  TypeInv'
<1> USE DEF TypeInv
<1>1. TypeOK'
  BY RecordActivityTyped, PlanStepTyped, LoadNothingTyped, MoveTierTyped, MoveDeadlineTyped,
     LoadFailsTyped, RefreshCutTyped, DebounceExpiresTyped, RecycleTyped, CleanTierTyped,
     CleanDeadlineTyped DEF MoverStep, RefreshNext, Load, Skip
<1>2. UNCHANGED <<dispatcher, consumer>>
  BY MoverLeaves DEF sending
<1> QED
  BY <1>1, <1>2 DEF Reading, Holding, AtJob

LEMMA JobTyped ==
    ASSUME TypeInv, JobStep
    PROVE  TypeInv'
<1> USE DEF TypeInv
<1>1. UNCHANGED dispatcher
  BY JobLeaves DEF sending
<1>2. ASSUME NEW t \in Tier, BecomesDue(t)
      PROVE  TypeOK' /\ Holding'
  BY <1>2, BecomesDueTyped DEF BecomesDue, Holding, AtJob
<1>3. ASSUME NEW b \in Backends, NEW t \in Tier, Claim(b, t)
      PROVE  TypeOK' /\ Holding'
  <2>1. CASE UNCHANGED consumer
    BY <1>3, <2>1, ClaimTyped DEF Holding, AtJob
  <2>2. CASE job[t] # 0 /\ Consume(<<b, t>>, [pc |-> "check", plan |-> job[t]])
    <3>1. consumer'[<<b, t>>].plan # 0
      BY <2>2, ConsumeEffect
    <3>2. \A d \in Backends \X Tier : d # <<b, t>> => consumer'[d] = consumer[d]
      BY <2>2, ConsumeEffect
    <3> QED
      BY <1>3, <3>1, <3>2, ClaimTyped DEF Holding, AtJob
  <2> QED
    BY <1>3, <2>1, <2>2 DEF Claim
<1>4. ASSUME NEW b \in Backends, NEW t \in Tier, NEW pc,
             GoOn(<<b, t>>, pc), ~AtJob(<<b, t>>, "idle")
      PROVE  Holding'
  <2>1. /\ consumer'[<<b, t>>].plan = consumer[<<b, t>>].plan
        /\ \A d \in Backends \X Tier : d # <<b, t>> => consumer'[d] = consumer[d]
    BY <1>4, GoOnEffect
  <2> QED
    BY <1>4, <2>1 DEF Holding, AtJob
<1>5. ASSUME NEW b \in Backends, NEW t \in Tier, CheckVM(b, t)
      PROVE  TypeOK' /\ Holding'
  <2>1. (\E pc : GoOn(<<b, t>>, pc)) /\ ~AtJob(<<b, t>>, "idle")
    BY <1>5 DEF CheckVM, HandlerFails, AtJob
  <2> QED
    BY <1>4, <1>5, <2>1, CheckVMTyped
<1>6. ASSUME NEW b \in Backends, NEW t \in Tier, Publish(b, t)
      PROVE  TypeOK' /\ Holding'
  <2>1. (\E pc : GoOn(<<b, t>>, pc)) /\ ~AtJob(<<b, t>>, "idle")
    BY <1>6 DEF Publish, HandlerFails, AtJob
  <2>2. consumer[<<b, t>>].plan \in 0 .. MaxPlans /\ consumer[<<b, t>>].plan # 0
    BY <2>1, Typed DEF Holding, JobStates
  <2>3. consumer[<<b, t>>].plan \in Plans
    BY <2>2, Bounds DEF Plans
  <2> QED
    BY <1>4, <1>6, <2>1, <2>3, PublishTyped
<1>7. ASSUME NEW b \in Backends, NEW t \in Tier, Consume(<<b, t>>, IdleConsumer)
      PROVE  Holding'
  <2>1. /\ consumer'[<<b, t>>].pc = "idle"
        /\ \A d \in Backends \X Tier : d # <<b, t>> => consumer'[d] = consumer[d]
    BY <1>7, ConsumeEffect DEF IdleConsumer
  <2> QED
    BY <2>1 DEF Holding, AtJob
<1>8. ASSUME NEW b \in Backends, NEW t \in Tier, Requeue(b, t)
      PROVE  TypeOK' /\ Holding'
  BY <1>7, <1>8, RequeueTyped DEF Requeue
<1>9. ASSUME NEW b \in Backends, NEW t \in Tier, DeleteJob(b, t)
      PROVE  TypeOK' /\ Holding'
  BY <1>7, <1>9, DeleteJobTyped DEF DeleteJob
<1>10. TypeOK' /\ Holding'
  BY <1>2, <1>3, <1>5, <1>6, <1>8, <1>9 DEF JobStep, ConsumerNext
<1> QED
  BY <1>1, <1>10 DEF Reading

-----------------------------------------------------------------------------
(* Deliveries.                                                             *)

LEMMA OthersOn ==
    ASSUME TypeOK, NEW b \in Backends, NEW n, Dispatch(b, n),
           NEW d \in Backends, d # b, NEW x, NEW steps
    PROVE  On(d, x, steps)' <=> On(d, x, steps)
BY DispatchEffect DEF On, Current

\* Not to be sent or logged by b, after the step.
LEMMA Withdrawn ==
    ASSUME TypeInv, DeliveryInv, NEW b \in Backends, NEW n, Dispatch(b, n),
           UNCHANGED <<log, sent>>, unsure \subseteq unsure', faults > 0 => faults' > 0,
           \A x \in Deliveries : On(b, x, {"log"}) => x \in unsure',
           \A x \in Deliveries : ~On(b, x, {"send", "log"})',
           \A s \in Subscriptions :
              /\ dispatcher'[b].found /\ dispatcher'[b].at[s] = "done"
              /\ s \in Matches[Current(b)'.tier]
              => sent[<<s, Current(b)'>>] > 0 \/ faults' > 0,
           Reading'
    PROVE  DeliveryInv'
<1>1. \A d \in Backends : d # b =>
        \A x, steps : On(d, x, steps)' <=> On(d, x, steps)
  BY OthersOn DEF TypeInv
<1>2. \A x : On(b, x, {"send"})' \/ On(b, x, {"log"})' => On(b, x, {"send", "log"})'
  BY DEF On
<1>3. \A x \in Deliveries : ~On(b, x, {"send"})' /\ ~On(b, x, {"log"})'
  BY <1>2
<1>4. \A x : Logged(x)' <=> Logged(x)
  BY DEF Logged, RefID
<1>5. LogIsTrue' /\ LogIsDue'
  BY <1>1, <1>3, <1>4 DEF DeliveryInv, LogIsTrue, LogIsDue
<1>6. SentIsKnown'
  <2> SUFFICES ASSUME NEW x \in Deliveries, sent[x] > 0
               PROVE  x \in unsure' \/ Logged(x)' \/ \E d \in Backends : On(d, x, {"log"})'
    BY DEF SentIsKnown
  <2>1. x \in unsure \/ Logged(x) \/ \E d \in Backends : On(d, x, {"log"})
    BY DEF DeliveryInv, SentIsKnown
  <2> QED
    BY <1>1, <1>4, <2>1
<1>7. SendsFirst'
  BY <1>1, <1>3 DEF DeliveryInv, SendsFirst
<1>8. SendsAlone'
  BY <1>1 DEF DeliveryInv, SendsAlone
<1>9. OncePerWindow'
  BY DEF DeliveryInv, OncePerWindow
<1>10. NoWindowSilenced'
  <2> SUFFICES ASSUME NEW d \in Backends, NEW s \in Subscriptions,
                      (dispatcher[d].found /\ AtSend(d, s, "done")
                         /\ s \in Matches[Current(d).tier])'
               PROVE  (sent[<<s, Current(d)>>] > 0 \/ faults > 0)'
    BY DEF NoWindowSilenced
  <2>1. CASE d = b
    BY <2>1 DEF AtSend
  <2>2. CASE d # b
    <3>1. dispatcher'[d] = dispatcher[d]
      BY <2>2, DispatchEffect DEF TypeInv
    <3>2. Current(d)' = Current(d)
      BY <3>1 DEF Current
    <3>3. dispatcher[d].found /\ AtSend(d, s, "done") /\ s \in Matches[Current(d).tier]
      BY <3>1, <3>2 DEF AtSend
    <3>4. sent[<<s, Current(d)>>] > 0 \/ faults > 0
      BY <3>3 DEF DeliveryInv, NoWindowSilenced
    <3> QED
      BY <3>2, <3>4
  <2> QED
    BY <2>1, <2>2
<1> QED
  BY <1>5, <1>6, <1>7, <1>8, <1>9, <1>10 DEF DeliveryInv

\* b has no event found, after the step.
LEMMA GivenUp ==
    ASSUME TypeInv, DeliveryInv, NEW b \in Backends, NEW n, Dispatch(b, n),
           ~n.found, n.at = AllDone,
           UNCHANGED <<log, sent>>, unsure \subseteq unsure', faults > 0 => faults' > 0,
           \A x \in Deliveries : On(b, x, {"log"}) => x \in unsure'
    PROVE  Reading' /\ DeliveryInv'
<1>1. /\ dispatcher'[b] = n
      /\ \A d \in Backends : d # b => dispatcher'[d] = dispatcher[d]
  BY DispatchEffect DEF TypeInv
<1>2. Reading'
  BY <1>1 DEF TypeInv, Reading
<1>3. \A x : ~On(b, x, {"send", "log"})'
  BY <1>1 DEF On
<1> QED
  BY <1>1, <1>2, <1>3, Withdrawn

LEMMA NotLogging ==
    ASSUME TypeInv, NEW b \in Backends, ~dispatcher[b].found \/ dispatcher[b].at = AllDone
    PROVE  \A x \in Deliveries : ~On(b, x, {"log"})
BY DEF On, AllDone, Deliveries

LEMMA NextEventIdle ==
    ASSUME NEW b \in Backends, NextEvent(b)
    PROVE  \E n : Dispatch(b, n) /\ ~n.found /\ n.at = AllDone
<1> DEFINE n == [IdleDispatcher EXCEPT !.batch = Tail(dispatcher[b].batch)]
<1>1. ~n.found /\ n.at = AllDone
  BY DEF IdleDispatcher
<1> QED
  BY <1>1 DEF NextEvent

LEMMA ReadDelivers ==
    ASSUME TypeInv, DeliveryInv, NEW b \in Backends, Read(b)
    PROVE  Reading' /\ DeliveryInv'
<1>1. PICK q : Dispatch(b, [IdleDispatcher EXCEPT !.batch = q])
  BY DEF Read
<1>2. ~dispatcher[b].found
  BY DEF Read, TypeInv, Reading
<1>3. ~[IdleDispatcher EXCEPT !.batch = q].found
      /\ [IdleDispatcher EXCEPT !.batch = q].at = AllDone
  BY DEF IdleDispatcher
<1> QED
  BY <1>1, <1>2, <1>3, NotLogging, GivenUp DEF Read

LEMMA FindChannelsDelivers ==
    ASSUME TypeInv, DeliveryInv, NEW b \in Backends, FindChannels(b)
    PROVE  Reading' /\ DeliveryInv'
<1> DEFINE at == [s \in Subscriptions |->
                    IF s \in Matches[Current(b).tier] THEN "check" ELSE "done"]
           n == [dispatcher[b] EXCEPT !.found = TRUE, !.at = at]
<1>1. faults > 0 => faults' > 0
  BY FaultsGrow DEF FindChannels, TypeInv
<1>2. ~dispatcher[b].found /\ dispatcher[b].batch # <<>> /\ UNCHANGED <<log, sent, unsure>>
  BY DEF FindChannels
<1>3. \A x \in Deliveries : ~On(b, x, {"log"})
  BY <1>2, NotLogging
<1>4. CASE NextEvent(b)
  BY <1>1, <1>2, <1>3, <1>4, NextEventIdle, GivenUp
<1>5. CASE Dispatch(b, n)
  <2>1. n.found /\ n.at = at /\ n.batch = dispatcher[b].batch
    BY Typed DEF TypeInv, DispatcherStates
  <2>2. /\ dispatcher'[b] = n
        /\ \A d \in Backends : d # b => dispatcher'[d] = dispatcher[d]
    BY <1>5, DispatchEffect DEF TypeInv
  <2>3. Reading'
    BY <1>2, <2>1, <2>2, ZenonT(30) DEF TypeInv, Reading
  <2>4. Current(b)' = Current(b)
    BY <2>1, <2>2 DEF Current
  <2>5. \A s \in Subscriptions : at[s] \notin {"send", "log"}
                                 /\ (s \in Matches[Current(b).tier] => at[s] # "done")
    OBVIOUS
  <2>6. \A x \in Deliveries : ~On(b, x, {"send", "log"})'
    <3> TAKE x \in Deliveries
    <3>1. x[1] \in Subscriptions
      BY DEF Deliveries
    <3> QED
      BY <2>1, <2>2, <2>5, <3>1 DEF On
  <2>7. \A s \in Subscriptions :
           ~(dispatcher'[b].at[s] = "done" /\ s \in Matches[Current(b)'.tier])
    BY <2>1, <2>2, <2>4, <2>5
  <2> HIDE DEF n
  <2> QED
    BY <1>1, <1>2, <1>3, <1>5, <2>3, <2>6, <2>7, Withdrawn
<1> QED
  BY <1>4, <1>5 DEF FindChannels

LEMMA AcknowledgeDelivers ==
    ASSUME TypeInv, DeliveryInv, NEW b \in Backends, Acknowledge(b)
    PROVE  Reading' /\ DeliveryInv'
BY NotLogging, NextEventIdle, GivenUp DEF Acknowledge

LEMMA CrashDelivers ==
    ASSUME TypeInv, DeliveryInv, NEW b \in Backends, Crash(b)
    PROVE  Reading' /\ DeliveryInv'
<1>1. faults > 0 => faults' > 0
  BY FaultsGrow DEF Crash, TypeInv
<1>2. Dispatch(b, IdleDispatcher)
  BY DEF Crash, Dispatch
<1>3. ~IdleDispatcher.found /\ IdleDispatcher.at = AllDone
  BY DEF IdleDispatcher
<1>4. \A x \in Deliveries : On(b, x, {"log"}) => x \in unsure'
  BY DEF Crash, On, Deliveries
<1>5. unsure \subseteq unsure' /\ UNCHANGED <<log, sent>>
  BY DEF Crash
<1> QED
  BY <1>1, <1>2, <1>3, <1>4, <1>5, GivenUp

\* A delivery of b goes on, the others stay where they are.
LEMMA StepOn ==
    ASSUME TypeInv, NEW b \in Backends, NEW s \in Subscriptions, NEW at, Step(b, s, at),
           dispatcher[b].found
    PROVE  /\ Reading'
           /\ dispatcher'[b].found /\ Current(b)' = Current(b)
           /\ dispatcher'[b].at[s] = at
           /\ \A q \in Subscriptions : q # s => dispatcher'[b].at[q] = dispatcher[b].at[q]
           /\ \A d \in Backends : d # b => dispatcher'[d] = dispatcher[d]
           /\ \A steps : On(b, <<s, Current(b)>>, steps)' <=> at \in steps
           /\ \A d \in Backends, x \in Deliveries :
                 d # b \/ x # <<s, Current(b)>>
                   => \A steps : On(d, x, steps)' <=> On(d, x, steps)
<1> DEFINE n == [dispatcher[b] EXCEPT !.at[s] = at]
<1>1. dispatcher[b] \in DispatcherStates
  BY Typed DEF TypeInv
<1>2. /\ n.found = dispatcher[b].found /\ n.batch = dispatcher[b].batch
      /\ n.at[s] = at /\ \A q \in Subscriptions : q # s => n.at[q] = dispatcher[b].at[q]
  BY <1>1 DEF DispatcherStates
<1>3. /\ dispatcher'[b] = n
      /\ \A d \in Backends : d # b => dispatcher'[d] = dispatcher[d]
  BY DispatchEffect DEF Step, TypeInv
<1> HIDE DEF n
<1>4. dispatcher'[b].found /\ Current(b)' = Current(b)
  BY <1>2, <1>3 DEF Current
<1>5. Reading'
  BY <1>2, <1>3 DEF TypeInv, Reading
<1>6. \A steps : On(b, <<s, Current(b)>>, steps)' <=> at \in steps
  BY <1>2, <1>3, <1>4 DEF On
<1>7. ASSUME NEW d \in Backends, NEW x \in Deliveries, NEW steps,
             d # b \/ x # <<s, Current(b)>>
      PROVE  On(d, x, steps)' <=> On(d, x, steps)
  <2>1. CASE d # b
    BY <1>3, <2>1 DEF On, Current
  <2>2. CASE d = b /\ x # <<s, Current(b)>>
    <3>1. x[1] \in Subscriptions /\ (x[1] # s \/ x[2] # Current(b))
      BY <2>2 DEF Deliveries
    <3> QED
      BY <1>2, <1>3, <1>4, <2>2, <3>1 DEF On
  <2> QED
    BY <1>7, <2>1, <2>2
<1> QED
  BY <1>2, <1>3, <1>4, <1>5, <1>6, <1>7

\* What is the same for every step of a delivery.
LEMMA StepKeeps ==
    ASSUME TypeInv, DeliveryInv, NEW b \in Backends, NEW s \in Subscriptions,
           NEW at, Step(b, s, at),
           dispatcher[b].found, faults > 0 => faults' > 0,
           \A x \in Deliveries : sent[x] > 0 => sent'[x] > 0,
           at = "done" /\ s \in Matches[Current(b).tier] =>
              sent'[<<s, Current(b)>>] > 0 \/ faults' > 0
    PROVE  NoWindowSilenced'
<1> SUFFICES ASSUME NEW d \in Backends, NEW q \in Subscriptions,
                    (dispatcher[d].found /\ AtSend(d, q, "done")
                       /\ q \in Matches[Current(d).tier])'
             PROVE  sent'[<<q, Current(d)'>>] > 0 \/ faults' > 0
  BY DEF NoWindowSilenced
<1>1. CASE d = b /\ q = s
  BY <1>1, StepOn DEF AtSend
<1>2. CASE d # b \/ q # s
  <2>1. Current(d)' = Current(d) /\ dispatcher[d].found
        /\ dispatcher[d].at[q] = dispatcher'[d].at[q]
    BY <1>2, StepOn, ZenonT(30) DEF Current
  <2>2. sent[<<q, Current(d)>>] > 0 \/ faults > 0
    BY <2>1 DEF DeliveryInv, NoWindowSilenced, AtSend
  <2>3. <<q, Current(d)>> \in Deliveries
    BY <2>1, CurrentTyped DEF TypeInv, Reading, Deliveries
  <2> QED
    BY <2>1, <2>2, <2>3
<1> QED
  BY <1>1, <1>2

\* ... and of the invariant, by what the step does to its own delivery y.
LEMMA StepDelivers ==
    ASSUME TypeInv, DeliveryInv, NEW b \in Backends, NEW s \in Subscriptions,
           dispatcher[b].found, NEW y \in Deliveries, y = <<s, Current(b)>>,
           NEW at, Step(b, s, at),
           unsure \subseteq unsure', faults > 0 => faults' > 0,
           \A x \in Deliveries : sent[x] > 0 => sent'[x] > 0,
           \A x \in Deliveries : x # y => sent'[x] = sent[x] /\ (Logged(x)' <=> Logged(x)),
           Logged(y)' => sent'[y] > 0,
           at = "log" => sent'[y] > 0,
           sent'[y] > 0 => \/ y \in unsure' \/ Logged(y)' \/ at = "log"
                           \/ \E d \in Backends : d # b /\ On(d, y, {"log"}),
           at = "send" => sent'[y] = 0 \/ y \in unsure',
           \A d \in Backends : d # b /\ On(d, y, {"send"}) => sent'[y] = 0 \/ y \in unsure',
           at \in {"send", "log"} =>
              y \in unsure' \/ \A d \in Backends : d # b => ~On(d, y, {"send", "log"}),
           sent'[y] > 1 => y \in unsure',
           at = "done" /\ s \in Matches[Current(b).tier] => sent'[y] > 0 \/ faults' > 0
    PROVE  Reading' /\ DeliveryInv'
<1>1. \A steps : On(b, y, steps)' <=> at \in steps
  BY StepOn
<1>2. ASSUME NEW d \in Backends, NEW x \in Deliveries, NEW steps, d # b \/ x # y
      PROVE  On(d, x, steps)' <=> On(d, x, steps)
  BY <1>2, StepOn
<1>3. Reading'
  BY StepOn
<1>4. LogIsTrue'
  <2> SUFFICES ASSUME NEW x \in Deliveries, Logged(x)'
               PROVE  sent'[x] > 0
    BY DEF LogIsTrue
  <2>1. CASE x = y
    BY <2>1
  <2>2. CASE x # y
    BY <2>2 DEF DeliveryInv, LogIsTrue
  <2> QED
    BY <2>1, <2>2
<1>5. LogIsDue'
  <2> SUFFICES ASSUME NEW d \in Backends, NEW x \in Deliveries, On(d, x, {"log"})'
               PROVE  sent'[x] > 0
    BY DEF LogIsDue
  <2>1. CASE d = b /\ x = y
    BY <1>1, <2>1
  <2>2. CASE d # b \/ x # y
    BY <1>2, <2>2 DEF DeliveryInv, LogIsDue
  <2> QED
    BY <2>1, <2>2
<1>6. SentIsKnown'
  <2> SUFFICES ASSUME NEW x \in Deliveries, sent'[x] > 0
               PROVE  x \in unsure' \/ Logged(x)' \/ \E d \in Backends : On(d, x, {"log"})'
    BY DEF SentIsKnown
  <2>1. CASE x = y
    <3>1. at = "log" => On(b, y, {"log"})'
      BY <1>1
    <3>2. \A d \in Backends : d # b /\ On(d, y, {"log"}) => On(d, y, {"log"})'
      BY <1>2
    <3> QED
      BY <2>1, <3>1, <3>2
  <2>2. CASE x # y
    <3>1. x \in unsure \/ Logged(x) \/ \E d \in Backends : On(d, x, {"log"})
      BY <2>2 DEF DeliveryInv, SentIsKnown
    <3> QED
      BY <1>2, <2>2, <3>1
  <2> QED
    BY <2>1, <2>2
<1>7. SendsFirst'
  <2> SUFFICES ASSUME NEW d \in Backends, NEW x \in Deliveries, On(d, x, {"send"})'
               PROVE  sent'[x] = 0 \/ x \in unsure'
    BY DEF SendsFirst
  <2>1. CASE d = b /\ x = y
    BY <1>1, <2>1
  <2>2. CASE d # b /\ x = y
    BY <1>2, <2>2
  <2>3. CASE x # y
    BY <1>2, <2>3 DEF DeliveryInv, SendsFirst
  <2> QED
    BY <2>1, <2>2, <2>3
<1>8. SendsAlone'
  <2>1. ASSUME NEW d \in Backends, d # b, On(b, y, {"send", "log"})', On(d, y, {"send", "log"})'
        PROVE  y \in unsure'
    <3>1. at \in {"send", "log"}
      BY <1>1, <2>1
    <3>2. On(d, y, {"send", "log"})
      BY <1>2, <2>1
    <3> QED
      BY <2>1, <3>1, <3>2
  <2> SUFFICES ASSUME NEW d \in Backends, NEW e \in Backends, NEW x \in Deliveries, d # e,
                      On(d, x, {"send", "log"})', On(e, x, {"send", "log"})'
               PROVE  x \in unsure'
    BY DEF SendsAlone
  <2>2. CASE x = y /\ (d = b \/ e = b)
    BY <2>1, <2>2
  <2>3. CASE x # y \/ (d # b /\ e # b)
    BY <1>2, <2>3 DEF DeliveryInv, SendsAlone
  <2> QED
    BY <2>2, <2>3
<1>9. OncePerWindow'
  <2> SUFFICES ASSUME NEW x \in Deliveries, sent'[x] > 1
               PROVE  x \in unsure'
    BY DEF OncePerWindow, Deliveries
  <2>1. CASE x # y
    BY <2>1 DEF DeliveryInv, OncePerWindow, Deliveries
  <2> QED
    BY <2>1
<1>10. NoWindowSilenced'
  BY StepKeeps
<1> QED
  BY <1>3, <1>4, <1>5, <1>6, <1>7, <1>8, <1>9, <1>10 DEF DeliveryInv

LEMMA OfDelivery ==
    ASSUME TypeInv, NEW b \in Backends, NEW s \in Subscriptions,
           AtSend(b, s, "check") \/ AtSend(b, s, "send") \/ AtSend(b, s, "log")
    PROVE  /\ dispatcher[b].found
           /\ <<s, Current(b)>> \in Deliveries
           /\ \A at : On(b, <<s, Current(b)>>, {at}) <=> AtSend(b, s, at)
           /\ \A at : AtSend(b, s, at) /\ at \in {"send", "log"}
                         => On(b, <<s, Current(b)>>, {"send", "log"})
<1>1. dispatcher[b].found /\ dispatcher[b].batch # <<>>
  BY HasEvent
<1>2. Current(b) \in Events
  BY <1>1, CurrentTyped DEF TypeInv
<1> QED
  BY <1>1, <1>2 DEF On, AtSend, Deliveries

LEMMA SentTyped ==
    ASSUME TypeOK, NEW x \in Deliveries
    PROVE  sent[x] \in 0 .. 2
BY DEF TypeOK, Deliveries

LEMMA CheckLogDelivers ==
    ASSUME TypeInv, DeliveryInv, NEW b \in Backends, NEW s \in Subscriptions, CheckLog(b, s)
    PROVE  Reading' /\ DeliveryInv'
<1>1. AtSend(b, s, "check")
  BY DEF CheckLog
<1>2. PICK y \in Deliveries : y = <<s, Current(b)>>
  BY <1>1, OfDelivery
<1>3. dispatcher[b].found /\ ~On(b, y, {"log"})
  <2>1. ~AtSend(b, s, "log")
    BY <1>1 DEF AtSend
  <2>2. dispatcher[b].found /\ (On(b, <<s, Current(b)>>, {"log"}) <=> AtSend(b, s, "log"))
    BY <1>1, OfDelivery
  <2> QED
    BY <1>2, <2>1, <2>2
<1>4. Logged(y) <=> <<s, RefID(Current(b))>> \in log
  BY <1>2 DEF Logged
<1>5. PICK at \in {"send", "done"} :
         /\ Step(b, s, at)
         /\ at = "done" => Logged(y)
         /\ at = "send" => \/ Doubt(b, s, TRUE)
                           \/ ~Logged(y) /\ Doubt(b, s, Overlaps(b, s))
  BY <1>4 DEF CheckLog
<1>6. UNCHANGED <<log, sent>> /\ \A x : Logged(x)' <=> Logged(x)
  BY DEF CheckLog, Logged, RefID
<1>7. unsure \subseteq unsure' /\ (faults > 0 => faults' > 0)
  BY FaultsGrow DEF CheckLog, Doubt, TypeInv
<1>8. ASSUME at = "send", y \notin unsure'
      PROVE  /\ ~Logged(y)
             /\ \A d \in Backends : d # b => ~On(d, y, {"send", "log"})
  <2>1. ~Logged(y) /\ ~Overlaps(b, s)
    BY <1>2, <1>5, <1>8 DEF Doubt
  <2> QED
    BY <1>2, <2>1 DEF Overlaps, On
<1>9. sent[y] \in 0 .. 2
  BY SentTyped DEF TypeInv
<1>10. sent[y] > 0 => \/ y \in unsure \/ Logged(y)
                      \/ \E d \in Backends : d # b /\ On(d, y, {"log"})
  BY <1>3 DEF DeliveryInv, SentIsKnown
<1>11. \A d \in Backends : On(d, y, {"log"}) => On(d, y, {"send", "log"})
  BY DEF On
<1>12. at = "send" => sent[y] = 0 \/ y \in unsure'
  BY <1>7, <1>8, <1>9, <1>10, <1>11
<1>13. \A d \in Backends : On(d, y, {"send"}) => sent[y] = 0 \/ y \in unsure
  BY DEF DeliveryInv, SendsFirst
<1>14. Logged(y) => sent[y] > 0
  BY DEF DeliveryInv, LogIsTrue
<1>15. sent[y] > 1 => y \in unsure
  BY DEF DeliveryInv, OncePerWindow, Deliveries
<1> QED
  BY <1>2, <1>3, <1>5, <1>6, <1>7, <1>8, <1>10, <1>12, <1>13, <1>14, <1>15, StepDelivers

LEMMA SendDelivers ==
    ASSUME TypeInv, DeliveryInv, NEW b \in Backends, NEW s \in Subscriptions, Send(b, s)
    PROVE  Reading' /\ DeliveryInv'
<1>1. AtSend(b, s, "send")
  BY DEF Send
<1>2. PICK y \in Deliveries : y = <<s, Current(b)>>
  BY <1>1, OfDelivery
<1>3. /\ dispatcher[b].found /\ ~On(b, y, {"log"})
      /\ On(b, y, {"send"}) /\ On(b, y, {"send", "log"})
  BY <1>1, <1>2, OfDelivery DEF AtSend
<1>4. UNCHANGED log /\ \A x : Logged(x)' <=> Logged(x)
  BY DEF Send, Logged, RefID
<1>5. faults > 0 => faults' > 0
  BY FaultsGrow DEF Send, TypeInv
<1>6. sent[y] \in 0 .. 2 /\ sent \in [Deliveries -> 0 .. 2]
  BY DEF TypeInv, TypeOK, Deliveries
<1>7. Logged(y) => sent[y] > 0
  BY DEF DeliveryInv, LogIsTrue
<1>8. \A d \in Backends : On(d, y, {"send"}) => sent[y] = 0 \/ y \in unsure
  BY DEF DeliveryInv, SendsFirst
<1>9. \A d \in Backends : d # b => ~On(d, y, {"send", "log"}) \/ y \in unsure
  BY <1>3 DEF DeliveryInv, SendsAlone
<1>10. sent[y] > 0 => y \in unsure
  BY <1>3, <1>6, <1>8
<1>11. sent[y] > 1 => y \in unsure
  BY DEF DeliveryInv, OncePerWindow, Deliveries
<1>12. CASE Fault /\ Step(b, s, "done") /\ UNCHANGED <<sent, unsure>>
  <2>1. faults' > 0
    BY <1>12, FaultTyped DEF TypeInv
  <2> QED
    BY <1>2, <1>3, <1>4, <1>5, <1>7, <1>8, <1>10, <1>11, <1>12, <2>1, StepDelivers
<1>13. ASSUME sent' = [sent EXCEPT ![y] = IF @ < 2 THEN @ + 1 ELSE @]
       PROVE  /\ \A x \in Deliveries : x # y => sent'[x] = sent[x]
              /\ sent'[y] > 0 /\ (sent'[y] > 1 => sent[y] > 0)
              /\ \A x \in Deliveries : sent[x] > 0 => sent'[x] > 0
  <2>1. sent'[y] = IF sent[y] < 2 THEN sent[y] + 1 ELSE sent[y]
    BY <1>6, <1>13
  <2>2. \A x \in Deliveries : x # y => sent'[x] = sent[x]
    BY <1>6, <1>13
  <2>3. sent'[y] > 0 /\ (sent'[y] > 1 => sent[y] > 0)
    BY <1>6, <2>1
  <2> QED
    BY <2>2, <2>3
<1>14. \A d \in Backends : On(d, y, {"send"}) => On(d, y, {"send", "log"})
  BY DEF On
<1>15. CASE /\ sent' = [sent EXCEPT ![y] = IF @ < 2 THEN @ + 1 ELSE @]
            /\ Step(b, s, "log") /\ UNCHANGED unsure
  BY <1>2, <1>3, <1>4, <1>5, <1>7, <1>9, <1>10, <1>13, <1>14, <1>15, StepDelivers
\* Delivered, and an error all the same.
<1>16. CASE /\ sent' = [sent EXCEPT ![y] = IF @ < 2 THEN @ + 1 ELSE @]
            /\ Step(b, s, "done") /\ Doubt(b, s, TRUE)
  <2>1. unsure \subseteq unsure' /\ y \in unsure'
    BY <1>2, <1>16 DEF Doubt
  <2> QED
    BY <1>2, <1>3, <1>4, <1>5, <1>7, <1>9, <1>10, <1>13, <1>14, <1>16, <2>1, StepDelivers
<1> QED
  BY <1>2, <1>12, <1>15, <1>16 DEF Send

LEMMA LogDelivers ==
    ASSUME TypeInv, DeliveryInv, NEW b \in Backends, NEW s \in Subscriptions, Log(b, s)
    PROVE  Reading' /\ DeliveryInv'
<1>1. AtSend(b, s, "log") /\ Step(b, s, "done")
  BY DEF Log
<1>2. PICK y \in Deliveries : y = <<s, Current(b)>>
  BY <1>1, OfDelivery
<1>3. dispatcher[b].found /\ On(b, y, {"log"}) /\ On(b, y, {"send", "log"})
  BY <1>1, <1>2, OfDelivery DEF AtSend
<1>4. sent[y] > 0
  BY <1>3 DEF DeliveryInv, LogIsDue
<1>5. UNCHANGED sent
  BY DEF Log
<1>6. faults > 0 => faults' > 0
  BY FaultsGrow DEF Log, TypeInv
<1>7. /\ unsure \subseteq unsure'
      /\ \A x \in Deliveries : x # y => (Logged(x)' <=> Logged(x))
      /\ Logged(y)' \/ y \in unsure'
  <2>1. CASE log' = log \cup {<<s, RefID(Current(b))>>} /\ UNCHANGED unsure
    <3>1. Logged(y)'
      BY <1>2, <2>1 DEF Logged, RefID
    <3>2. ASSUME NEW x \in Deliveries, x # y
          PROVE  Logged(x)' <=> Logged(x)
      <4>1. x = <<x[1], x[2]>> /\ x[2] \in Events
        BY DEF Deliveries
      <4>2. Current(b) \in Events
        BY <1>2 DEF Deliveries
      <4>3. <<x[1], RefID(x[2])>> # <<s, RefID(Current(b))>>
        BY <1>2, <3>2, <4>1, <4>2 DEF RefID, Events
      <4> QED
        BY <2>1, <4>3 DEF Logged, RefID
    <3> QED
      BY <2>1, <3>1, <3>2
  <2>2. CASE UNCHANGED log /\ unsure' = unsure \cup {y}
    BY <2>2 DEF Logged, RefID
  <2> QED
    BY <1>2, <2>1, <2>2 DEF Log, Doubt
<1>8. \A d \in Backends : On(d, y, {"send"}) => sent[y] = 0 \/ y \in unsure
  BY DEF DeliveryInv, SendsFirst
<1>9. sent[y] > 1 => y \in unsure
  BY DEF DeliveryInv, OncePerWindow, Deliveries
<1> QED
  BY <1>1, <1>2, <1>3, <1>4, <1>5, <1>6, <1>7, <1>8, <1>9, StepDelivers

\* A step that touches none of it.
LEMMA SendingKept ==
    ASSUME TypeInv, DeliveryInv, UNCHANGED sending, faults > 0 => faults' > 0
    PROVE  DeliveryInv'
<1>1. \A b, x, steps : On(b, x, steps)' <=> On(b, x, steps)
  BY DEF On, Current, sending
<1>2. \A x : Logged(x)' <=> Logged(x)
  BY DEF Logged, RefID, sending
<1>3. UNCHANGED <<dispatcher, sent, unsure>>
  BY DEF sending
<1>4. Reading' /\ LogIsTrue' /\ LogIsDue'
  BY <1>1, <1>2, <1>3 DEF DeliveryInv, Reading, LogIsTrue, LogIsDue
<1>5. SentIsKnown' /\ SendsFirst' /\ SendsAlone'
  BY <1>1, <1>2, <1>3 DEF DeliveryInv, SentIsKnown, SendsFirst, SendsAlone
<1>6. OncePerWindow' /\ NoWindowSilenced'
  BY <1>3 DEF DeliveryInv, OncePerWindow, NoWindowSilenced, AtSend, Current
<1> QED
  BY <1>4, <1>5, <1>6 DEF DeliveryInv

LEMMA NextFaults ==
    ASSUME TypeOK, Next
    PROVE  Fault \/ UNCHANGED faults
BY ZenonT(30) DEF Next, RefreshNext, RecordActivity, Load, LoadNothing, MoveTier, Tolerating,
   MoveDeadline,
       Skip, Plan, LoadFails, RefreshCut, DebounceExpires, Recycle, CleanTier, CleanDeadline,
       ConsumerNext, BecomesDue, Claim, CheckVM, Publish, Requeue, DeleteJob, DispatcherNext,
       SendNext, Read, FindChannels, CheckLog, Send, Log, Acknowledge, Trim, Crash

LEMMA DispatchDelivers ==
    ASSUME TypeInv, DeliveryInv, DispatchStep, faults > 0 => faults' > 0
    PROVE  Reading' /\ DeliveryInv'
<1>1. CASE Trim
  <2>1. DeliveryInv'
    BY <1>1, SendingKept DEF Trim
  <2> QED
    BY <2>1 DEF DeliveryInv
<1> QED
  BY <1>1, ReadDelivers, FindChannelsDelivers, CheckLogDelivers, SendDelivers, LogDelivers,
     AcknowledgeDelivers DEF DispatchStep, DispatcherNext, SendNext

LEMMA DispatchStepTypes ==
    ASSUME TypeInv, DispatchStep
    PROVE  TypeOK' /\ Holding'
<1>1. UNCHANGED consumer
  BY DispatchLeaves DEF NotDispatcher
<1>2. Holding'
  BY <1>1 DEF TypeInv, Holding, AtJob
<1>3. ASSUME NEW b \in Backends, NEW s \in Subscriptions, SendNext(b, s)
      PROVE  TypeOK'
  <2>1. dispatcher[b].batch # <<>>
    BY <1>3, HasEvent DEF SendNext, CheckLog, Send, Log
  <2> QED
    BY <1>3, <2>1, CheckLogTyped, SendTyped, LogTyped DEF SendNext, TypeInv
<1>4. ASSUME NEW b \in Backends, Acknowledge(b)
      PROVE  TypeOK'
  BY <1>4, AcknowledgeTyped DEF Acknowledge, TypeInv, Reading
<1>5. TypeOK'
  BY <1>3, <1>4, ReadTyped, FindChannelsTyped, TrimTyped
     DEF DispatchStep, DispatcherNext, TypeInv
<1> QED
  BY <1>2, <1>5

LEMMA CrashTypes ==
    ASSUME TypeInv, NEW b \in Backends, Crash(b)
    PROVE  TypeOK' /\ Holding'
<1>1. \A c \in Backends \X Tier :
         consumer'[c] = IdleConsumer \/ consumer'[c] = consumer[c]
  BY DEF Crash
<1>2. Holding'
  BY <1>1 DEF TypeInv, Holding, AtJob, IdleConsumer
<1> QED
  BY <1>2, CrashTyped DEF TypeInv

LEMMA NextDelivers ==
    ASSUME TypeInv, DeliveryInv, Next
    PROVE  TypeInv' /\ DeliveryInv'
<1>1. faults > 0 => faults' > 0
  BY NextFaults, FaultsGrow DEF TypeInv
<1>2. CASE MoverStep
  BY <1>1, <1>2, MoverTyped, MoverLeaves, SendingKept
<1>3. CASE JobStep
  BY <1>1, <1>3, JobTyped, JobLeaves, SendingKept
<1>4. CASE DispatchStep
  BY <1>1, <1>4, DispatchStepTypes, DispatchDelivers DEF TypeInv
<1>5. ASSUME NEW b \in Backends, Crash(b)
      PROVE  TypeInv' /\ DeliveryInv'
  BY <1>5, CrashTypes, CrashDelivers DEF TypeInv
<1> QED
  BY <1>2, <1>3, <1>4, <1>5, NextSteps

-----------------------------------------------------------------------------
(* Jobs.                                                                   *)

LEMMA InTiers ==
    ASSUME NEW t \in Tier
    PROVE  In(Tiers, t)
BY RemindersAssumption DEF In, Tier

LEMMA InRest ==
    ASSUME NEW q \in Seq(Tier), q # <<>>, NEW t, In(q, t), t # Head(q)
    PROVE  In(Tail(q), t)
<1>1. PICK i \in 1 .. Len(q) : q[i] = t
  BY DEF In
<1>2. i # 1
  BY <1>1
<1>3. i - 1 \in 1 .. Len(Tail(q)) /\ Tail(q)[i - 1] = q[i]
  BY <1>1, <1>2
<1>4. Tail(q) \in Seq(Tier)
  OBVIOUS
<1>5. i - 1 \in DOMAIN Tail(q)
  BY <1>3, <1>4
<1> QED
  BY <1>1, <1>3, <1>5 DEF In

\* A reminder that follows p goes on to, whoever else is at work.
LEMMA FollowsSame ==
    ASSUME NEW t, NEW p, Follows(t, p),
           entry'[t] = entry[t], job'[t] = job[t],
           \A b \in Backends : consumer'[<<b, t>>].plan = consumer[<<b, t>>].plan,
           fired \subseteq fired', recycled => recycled'
    PROVE  Follows(t, p)'
BY DEF Follows

LEMMA JobsKept ==
    ASSUME JobsInv, UNCHANGED <<queues, recycled, consumer, fired, raced>>,
           UNCHANGED <<refresher, recycling, mixed>>, faults' = 0 => faults = 0
    PROVE  JobsInv'
<1>1. UNCHANGED <<entry, job, deadline>>
  BY DEF queues
<1>2. \A t, p : Follows(t, p) => Follows(t, p)'
  BY <1>1, FollowsSame
<1>3. OneMover' /\ MarkedFirst' /\ OneHandler' /\ HandledNotQueued'
  BY <1>1 DEF JobsInv, OneMover, MarkedFirst, OneHandler, HandledNotQueued, AtRefresh, AtJob,
     Handled
<1>4. Reminded'
  BY DEF JobsInv, Reminded, AtJob
<1>5. InStep'
  <2> SUFFICES ASSUME ~Moving', ~mixed', faults' = 0, NEW t \in Tier \ raced'
               PROVE  Follows(t, deadline)'
    BY DEF InStep
  <2>1. Follows(t, deadline)
    BY DEF JobsInv, InStep, Moving
  <2> QED
    BY <1>1, <2>1 DEF Follows
<1>6. MovedFollow'
  <2> SUFFICES ASSUME ~mixed', faults' = 0, NEW r \in Refreshers, AtRefresh(r, "move")',
                      NEW t \in Tier \ raced', ~In(refresher[r].todo, t)'
               PROVE  Follows(t, PlanFor(r))'
    BY DEF MovedFollow
  <2>1. Follows(t, PlanFor(r))
    BY DEF JobsInv, MovedFollow, AtRefresh, In
  <2> QED
    BY <1>1, <2>1 DEF Follows, PlanFor
<1> QED
  BY <1>3, <1>4, <1>5, <1>6 DEF JobsInv

LEMMA DispatchKeepsJobs ==
    ASSUME JobsInv, DispatchStep, faults' = 0 => faults = 0
    PROVE  JobsInv'
BY DispatchLeaves, JobsKept DEF NotDispatcher, moving

LEMMA CrashKeepsJobs ==
    ASSUME TypeOK, JobsInv, NEW b \in Backends, Crash(b)
    PROVE  JobsInv'
<1>1. faults' # 0
  BY FaultTyped DEF Crash
<1>2. UNCHANGED <<entry, refresher, recycling, mixed, recycled, raced>>
  BY DEF Crash, queues, moving
<1>3. \A c \in Backends \X Tier :
         consumer'[c] = IdleConsumer \/ consumer'[c] = consumer[c]
  BY DEF Crash
<1>4. \A c \in Backends \X Tier : AtJob(c, "idle") => AtJob(c, "idle")'
  BY <1>3 DEF AtJob, IdleConsumer
<1>5. \A t \in Tier : Handled(t)' => Handled(t)
  BY <1>4 DEF Handled, AtJob
<1>6. OneMover' /\ MarkedFirst'
  BY <1>2 DEF JobsInv, OneMover, MarkedFirst, AtRefresh
<1>7. OneHandler' /\ HandledNotQueued'
  BY <1>2, <1>4, <1>5 DEF JobsInv, OneHandler, HandledNotQueued
<1>8. Reminded' /\ InStep' /\ MovedFollow'
  BY <1>1 DEF Reminded, InStep, MovedFollow
<1> QED
  BY <1>6, <1>7, <1>8 DEF JobsInv

\* A step of a consumer, or a job becoming due: what each keeps for any time p.
LEMMA JobStepKeeps ==
    ASSUME JobsInv, JobStep, UNCHANGED raced, faults' = 0 => faults = 0,
           OneHandler', HandledNotQueued', Reminded',
           \A t \in Tier \ raced : \A p : faults' = 0 /\ Follows(t, p) => Follows(t, p)'
    PROVE  JobsInv'
<1>1. UNCHANGED <<refresher, recycling, mixed, deadline, recycled>>
  BY JobLeaves DEF moving
<1>2. OneMover' /\ MarkedFirst'
  BY <1>1 DEF JobsInv, OneMover, MarkedFirst, AtRefresh
<1>3. InStep'
  <2> SUFFICES ASSUME ~Moving', ~mixed', faults' = 0, NEW t \in Tier \ raced'
               PROVE  Follows(t, deadline)'
    BY DEF InStep
  <2>1. Follows(t, deadline)
    BY <1>1 DEF JobsInv, InStep, Moving
  <2>2. \A p : p = deadline => Follows(t, p)'
    BY <2>1
  <2> QED
    BY <1>1, <2>2 DEF Follows
<1>4. MovedFollow'
  <2> SUFFICES ASSUME ~mixed', faults' = 0, NEW r \in Refreshers, AtRefresh(r, "move")',
                      NEW t \in Tier \ raced', ~In(refresher[r].todo, t)'
               PROVE  Follows(t, PlanFor(r))'
    BY DEF MovedFollow
  <2>1. Follows(t, PlanFor(r))
    BY <1>1 DEF JobsInv, MovedFollow, AtRefresh, In
  <2>2. PlanFor(r)' = PlanFor(r)
    BY <1>1 DEF PlanFor
  <2>3. \A p : p = PlanFor(r) => Follows(t, p)'
    BY <2>1
  <2> QED
    BY <2>2, <2>3 DEF Follows
<1> QED
  BY <1>2, <1>3, <1>4 DEF JobsInv

LEMMA BecomesDueKeeps ==
    ASSUME TypeOK, JobsInv, NEW t \in Tier, BecomesDue(t)
    PROVE  JobsInv'
<1>1. /\ \A u \in Tier : entry'[u] = "none" <=> entry[u] = "none"
      /\ UNCHANGED <<job, consumer, fired, raced, faults, recycled>>
  BY DEF BecomesDue, NotConsumer, TypeOK
<1>2. OneHandler' /\ HandledNotQueued' /\ Reminded'
  BY <1>1 DEF JobsInv, OneHandler, HandledNotQueued, Reminded, AtJob, Handled
<1>3. \A u \in Tier \ raced : \A p : Follows(u, p) => Follows(u, p)'
  BY <1>1 DEF Follows
<1> QED
  BY <1>1, <1>2, <1>3, JobStepKeeps DEF JobStep

LEMMA ClaimKeeps ==
    ASSUME TypeOK, JobsInv, NEW b \in Backends, NEW t \in Tier, Claim(b, t)
    PROVE  JobsInv'
<1> DEFINE c == <<b, t>>
<1>1. /\ entry[t] = "due" /\ entry'[t] = "none"
      /\ \A u \in Tier : u # t => entry'[u] = entry[u]
      /\ UNCHANGED <<job, fired, raced, faults, recycled>>
  BY DEF Claim, NotConsumer, TypeOK
<1>2. /\ job[t] # 0 => consumer'[c].pc = "check" /\ consumer'[c].plan = job[t]
      /\ job[t] = 0 => consumer'[c] = consumer[c]
      /\ AtJob(c, "idle")
      /\ \A d \in Backends \X Tier : d # c => consumer'[d] = consumer[d]
  BY ConsumeEffect DEF Claim
<1>3. t \notin raced => \A d \in Backends : AtJob(<<d, t>>, "idle")
  BY <1>1 DEF JobsInv, HandledNotQueued, Handled, AtJob
<1>4. \A u \in Tier, d \in Backends : <<d, u>> # c => consumer'[<<d, u>>] = consumer[<<d, u>>]
  BY <1>2
<1>5. OneHandler'
  <2> SUFFICES ASSUME NEW u \in Tier \ raced', NEW d \in Backends, NEW e \in Backends,
                      ~AtJob(<<d, u>>, "idle")', ~AtJob(<<e, u>>, "idle")'
               PROVE  d = e
    BY DEF OneHandler
  <2>1. CASE u = t
    BY <1>1, <1>3, <1>4, <2>1 DEF AtJob
  <2>2. CASE u # t
    BY <1>1, <1>4, <2>2 DEF AtJob, JobsInv, OneHandler
  <2> QED
    BY <2>1, <2>2
<1>6. HandledNotQueued'
  <2> SUFFICES ASSUME NEW u \in Tier \ raced', u # t, Handled(u)'
               PROVE  entry'[u] = "none"
    BY <1>1 DEF HandledNotQueued
  <2>1. Handled(u)
    BY <1>4 DEF Handled
  <2> QED
    BY <1>1, <2>1 DEF JobsInv, HandledNotQueued
<1>7. Reminded'
  <2> SUFFICES ASSUME faults' = 0, NEW d \in Backends \X Tier
               PROVE  /\ ~AtJob(d, "retry")'
                      /\ AtJob(d, "done")' =>
                            recycled' \/ <<d[2], consumer'[d].plan>> \in fired'
    BY DEF Reminded
  <2>1. CASE consumer'[d] = consumer[d]
    BY <1>1, <2>1 DEF JobsInv, Reminded, AtJob
  <2>2. CASE consumer'[d] # consumer[d]
    <3>1. consumer'[d].pc = "check"
      BY <1>2, <2>2
    <3> QED
      BY <3>1 DEF AtJob
  <2> QED
    BY <2>1, <2>2
<1>8. ASSUME NEW u \in Tier \ raced, NEW p, Follows(u, p)
      PROVE  Follows(u, p)'
  <2>1. CASE u # t
    BY <1>1, <1>4, <1>8, <2>1, FollowsSame
  <2>2. CASE u = t
    <3>1. job[t] = p
      BY <1>1, <1>8, <2>2 DEF Follows
    <3>2. p # 0 => consumer'[<<b, t>>].plan = p
      BY <1>2, <3>1
    <3> QED
      BY <1>1, <2>2, <3>2 DEF Follows
  <2> QED
    BY <2>1, <2>2
<1> QED
  BY <1>1, <1>5, <1>6, <1>7, <1>8, JobStepKeeps DEF JobStep

\* A handler that goes on with its job.
LEMMA HandlerKeeps ==
    ASSUME TypeOK, JobsInv, JobStep, NEW b \in Backends, NEW t \in Tier, NEW pc,
           GoOn(<<b, t>>, pc), ~AtJob(<<b, t>>, "idle"), pc # "idle",
           UNCHANGED <<entry, job, raced, recycled>>, fired \subseteq fired',
           faults' = 0 => faults = 0,
           faults' = 0 => /\ pc # "retry"
                          /\ pc = "done" => \/ recycled
                                            \/ <<t, consumer[<<b, t>>].plan>> \in fired'
    PROVE  JobsInv'
<1>1. /\ consumer'[<<b, t>>].pc = pc /\ consumer'[<<b, t>>].plan = consumer[<<b, t>>].plan
      /\ \A d \in Backends \X Tier : d # <<b, t>> => consumer'[d] = consumer[d]
  BY GoOnEffect
<1>2. \A d \in Backends \X Tier : AtJob(d, "idle")' <=> AtJob(d, "idle")
  BY <1>1 DEF AtJob
<1>3. \A u \in Tier : Handled(u)' <=> Handled(u)
  BY <1>2 DEF Handled, AtJob
<1>4. OneHandler' /\ HandledNotQueued'
  BY <1>2, <1>3 DEF JobsInv, OneHandler, HandledNotQueued
<1>5. Reminded'
  <2> SUFFICES ASSUME faults' = 0, NEW d \in Backends \X Tier
               PROVE  /\ ~AtJob(d, "retry")'
                      /\ AtJob(d, "done")' =>
                            recycled' \/ <<d[2], consumer'[d].plan>> \in fired'
    BY DEF Reminded
  <2>1. CASE d # <<b, t>>
    BY <1>1, <2>1 DEF JobsInv, Reminded, AtJob
  <2>2. CASE d = <<b, t>>
    BY <1>1, <2>2 DEF AtJob
  <2> QED
    BY <2>1, <2>2
<1>6. ASSUME NEW u \in Tier \ raced, NEW p, Follows(u, p)
      PROVE  Follows(u, p)'
  <2>1. \A d \in Backends : consumer'[<<d, u>>].plan = consumer[<<d, u>>].plan
    BY <1>1
  <2> QED
    BY <1>6, <2>1, FollowsSame
<1> QED
  BY <1>4, <1>5, <1>6, JobStepKeeps

LEMMA CheckVMKeeps ==
    ASSUME TypeOK, JobsInv, NEW b \in Backends, NEW t \in Tier, CheckVM(b, t)
    PROVE  JobsInv'
<1>1. JobStep /\ ~AtJob(<<b, t>>, "idle") /\ UNCHANGED <<entry, job, raced, recycled, fired>>
  BY DEF JobStep, ConsumerNext, CheckVM, AtJob, NotConsumer
<1>2. faults' = 0 => faults = 0
  BY FaultsGrow DEF CheckVM
<1>3. CASE GoOn(<<b, t>>, IF recycled THEN "done" ELSE "publish")
  BY <1>1, <1>2, <1>3, HandlerKeeps
<1>4. CASE Fault /\ HandlerFails(<<b, t>>)
  <2>1. faults' # 0
    BY <1>4, FaultTyped
  <2>2. PICK pc \in {"retry", "done"} : GoOn(<<b, t>>, pc)
    BY <1>4 DEF HandlerFails
  <2> QED
    BY <1>1, <1>2, <2>1, <2>2, HandlerKeeps
<1> QED
  BY <1>3, <1>4 DEF CheckVM

LEMMA PublishKeeps ==
    ASSUME TypeOK, JobsInv, NEW b \in Backends, NEW t \in Tier, Publish(b, t)
    PROVE  JobsInv'
<1>1. /\ JobStep /\ ~AtJob(<<b, t>>, "idle") /\ UNCHANGED <<entry, job, raced, recycled>>
      /\ fired \subseteq fired'
  BY DEF JobStep, ConsumerNext, Publish, AtJob, NotConsumer
<1>2. faults' = 0 => faults = 0
  BY FaultsGrow DEF Publish
<1>3. CASE GoOn(<<b, t>>, "done") /\ <<t, consumer[<<b, t>>].plan>> \in fired'
  BY <1>1, <1>2, <1>3, HandlerKeeps
<1>4. CASE Fault /\ HandlerFails(<<b, t>>)
  <2>1. faults' # 0
    BY <1>4, FaultTyped
  <2>2. PICK pc \in {"retry", "done"} : GoOn(<<b, t>>, pc)
    BY <1>4 DEF HandlerFails
  <2> QED
    BY <1>1, <1>2, <2>1, <2>2, HandlerKeeps
<1> QED
  BY <1>3, <1>4 DEF Publish

\* A handler that lets go of its job.
LEMMA LetsGo ==
    ASSUME TypeOK, NEW b \in Backends, NEW t \in Tier, Consume(<<b, t>>, IdleConsumer)
    PROVE  /\ AtJob(<<b, t>>, "idle")' /\ consumer'[<<b, t>>].plan = 0
           /\ \A d \in Backends \X Tier : d # <<b, t>> => consumer'[d] = consumer[d]
           /\ \A d \in Backends \X Tier : AtJob(d, "idle") => AtJob(d, "idle")'
           /\ \A u \in Tier : Handled(u)' => Handled(u)
<1>1. /\ consumer'[<<b, t>>] = IdleConsumer
      /\ \A d \in Backends \X Tier : d # <<b, t>> => consumer'[d] = consumer[d]
  BY ConsumeEffect
<1>2. \A d \in Backends \X Tier : AtJob(d, "idle") => AtJob(d, "idle")'
  BY <1>1 DEF AtJob, IdleConsumer
<1>3. \A u \in Tier : Handled(u)' => Handled(u)
  BY <1>2 DEF Handled, AtJob
<1> QED
  BY <1>1, <1>2, <1>3 DEF AtJob, IdleConsumer

LEMMA RequeueKeeps ==
    ASSUME TypeOK, JobsInv, NEW b \in Backends, NEW t \in Tier, Requeue(b, t)
    PROVE  JobsInv'
<1>1. /\ JobStep /\ AtJob(<<b, t>>, "retry") /\ UNCHANGED <<raced, fired, recycled>>
      /\ \A u \in Tier : u # t => entry'[u] = entry[u]
      /\ Consume(<<b, t>>, IdleConsumer)
  BY DEF JobStep, ConsumerNext, Requeue, NotConsumer, TypeOK
<1>2. faults' = 0 => faults = 0
  BY FaultsGrow DEF Requeue
<1>3. faults' # 0
  BY <1>1, <1>2 DEF JobsInv, Reminded
<1>4. OneHandler'
  BY <1>1, LetsGo DEF JobsInv, OneHandler
<1>5. HandledNotQueued'
  <2> SUFFICES ASSUME NEW u \in Tier \ raced', Handled(u)'
               PROVE  entry'[u] = "none"
    BY DEF HandledNotQueued
  <2>1. u # t
    <3> SUFFICES ASSUME u = t
                 PROVE  FALSE
      OBVIOUS
    <3>1. PICK d \in Backends : ~AtJob(<<d, t>>, "idle")'
      BY DEF Handled, AtJob
    <3>2. d # b /\ ~AtJob(<<d, t>>, "idle") /\ ~AtJob(<<b, t>>, "idle")
      BY <1>1, <3>1, LetsGo DEF AtJob
    <3> QED
      BY <1>1, <3>2 DEF JobsInv, OneHandler
  <2> QED
    BY <1>1, <2>1, LetsGo DEF JobsInv, HandledNotQueued
<1> QED
  BY <1>1, <1>2, <1>3, <1>4, <1>5, JobStepKeeps DEF Reminded

LEMMA DeleteJobKeeps ==
    ASSUME TypeOK, JobsInv, NEW b \in Backends, NEW t \in Tier, DeleteJob(b, t)
    PROVE  JobsInv'
<1>1. /\ JobStep /\ AtJob(<<b, t>>, "done") /\ UNCHANGED <<entry, raced, fired, recycled>>
      /\ \A u \in Tier : u # t => job'[u] = job[u]
      /\ Consume(<<b, t>>, IdleConsumer)
  BY DEF JobStep, ConsumerNext, DeleteJob, NotConsumer, TypeOK
<1>2. faults' = 0 => faults = 0
  BY FaultsGrow DEF DeleteJob
<1>3. OneHandler' /\ HandledNotQueued'
  BY <1>1, LetsGo DEF JobsInv, OneHandler, HandledNotQueued
<1>4. Reminded'
  <2> SUFFICES ASSUME faults' = 0, NEW d \in Backends \X Tier
               PROVE  /\ ~AtJob(d, "retry")'
                      /\ AtJob(d, "done")' =>
                            recycled' \/ <<d[2], consumer'[d].plan>> \in fired'
    BY DEF Reminded
  <2>1. CASE d # <<b, t>>
    BY <1>1, <1>2, <2>1, LetsGo DEF JobsInv, Reminded, AtJob
  <2>2. CASE d = <<b, t>>
    BY <1>1, <2>2, LetsGo DEF AtJob
  <2> QED
    BY <2>1, <2>2
<1>5. ASSUME NEW u \in Tier \ raced, NEW p, faults' = 0, Follows(u, p)
      PROVE  Follows(u, p)'
  <2>1. CASE u # t
    <3>1. \A d \in Backends : <<d, u>> # <<b, t>> /\ consumer'[<<d, u>>] = consumer[<<d, u>>]
      BY <1>1, <2>1, LetsGo
    <3> QED
      BY <1>1, <1>5, <2>1, <3>1, FollowsSame
  <2>2. CASE u = t
    <3>1. Handled(t)
      BY <1>1 DEF Handled, AtJob
    <3>2. entry[t] = "none"
      BY <2>2, <3>1 DEF JobsInv, HandledNotQueued
    <3>3. recycled \/ <<t, consumer[<<b, t>>].plan>> \in fired
      BY <1>1, <1>2, <1>5 DEF JobsInv, Reminded
    <3>4. \A d \in Backends : d # b => consumer'[<<d, t>>] = consumer[<<d, t>>]
      BY <1>1, LetsGo
    <3> QED
      BY <1>1, <1>5, <2>2, <3>2, <3>3, <3>4 DEF Follows
  <2> QED
    BY <2>1, <2>2
<1> QED
  BY <1>1, <1>2, <1>3, <1>4, <1>5, JobStepKeeps

LEMMA JobStepsKeep ==
    ASSUME TypeOK, JobsInv, JobStep
    PROVE  JobsInv'
BY BecomesDueKeeps, ClaimKeeps, CheckVMKeeps, PublishKeeps, RequeueKeeps, DeleteJobKeeps
   DEF JobStep, ConsumerNext

\* A step of a mover: nobody handles more or less than before.
LEMMA MoverKeeps ==
    ASSUME JobsInv, UNCHANGED <<consumer, fired>>, recycled => recycled',
           raced \subseteq raced',
           faults' = 0 => faults = 0,
           \A t \in Tier \ raced' : Handled(t) => entry'[t] = "none",
           OneMover', MarkedFirst', InStep', MovedFollow'
    PROVE  JobsInv'
<1>1. OneHandler' /\ HandledNotQueued'
  BY DEF JobsInv, OneHandler, HandledNotQueued, Handled, AtJob
<1>2. Reminded'
  BY DEF JobsInv, Reminded, AtJob
<1> QED
  BY <1>1, <1>2 DEF JobsInv

\* A step of a refresher that moves nothing.
LEMMA IdleRefreshKeeps ==
    ASSUME TypeOK, JobsInv, NEW r \in Refreshers, NEW s, Refresh(r, s), s.pc # "move",
           NotRefresh, UNCHANGED <<queues, recycling, mixed, raced>>,
           faults' = 0 => faults = 0 /\ ~AtRefresh(r, "move")
    PROVE  JobsInv'
<1>1. /\ refresher'[r] = s
      /\ \A q \in Refreshers : q # r => refresher'[q] = refresher[q]
  BY RefreshEffect
<1>2. /\ \A q \in Refreshers : AtRefresh(q, "move")' => q # r /\ AtRefresh(q, "move")
      /\ UNCHANGED <<entry, job, deadline, consumer, fired, recycled>>
  BY <1>1 DEF AtRefresh, NotRefresh, queues
<1>3. OneMover' /\ MarkedFirst'
  BY <1>2 DEF JobsInv, OneMover, MarkedFirst
<1>4. InStep'
  <2> SUFFICES ASSUME ~Moving', ~mixed', faults' = 0, NEW t \in Tier \ raced'
               PROVE  Follows(t, deadline)'
    BY DEF InStep
  <2>1. \A q \in Refreshers : ~AtRefresh(q, "move")
    BY <1>1 DEF Moving, AtRefresh
  <2>2. Follows(t, deadline)
    BY <2>1 DEF JobsInv, InStep, Moving, AtRefresh
  <2> QED
    BY <1>2, <2>2 DEF Follows
<1>5. MovedFollow'
  <2> SUFFICES ASSUME ~mixed', faults' = 0, NEW q \in Refreshers, AtRefresh(q, "move")',
                      NEW t \in Tier \ raced', ~In(refresher[q].todo, t)'
               PROVE  Follows(t, PlanFor(q))'
    BY DEF MovedFollow
  <2>1. refresher'[q] = refresher[q] /\ AtRefresh(q, "move")
    BY <1>1, <1>2
  <2>2. Follows(t, PlanFor(q))
    BY <2>1 DEF JobsInv, MovedFollow, In
  <2> QED
    BY <1>2, <2>1, <2>2 DEF Follows, PlanFor
<1>6. \A t \in Tier \ raced' : Handled(t) => entry'[t] = "none"
  BY <1>2 DEF JobsInv, HandledNotQueued
<1> QED
  BY <1>2, <1>3, <1>4, <1>5, <1>6, MoverKeeps

LEMMA RefreshesKeep ==
    ASSUME TypeOK, JobsInv, NEW r \in Refreshers,
           RecordActivity(r) \/ LoadNothing(r) \/ LoadFails(r) \/ RefreshCut(r)
    PROVE  JobsInv'
<1>1. CASE RecordActivity(r)
  <2>1. [IdleRefresher EXCEPT !.pc = "load"].pc = "load"
    BY DEF IdleRefresher
  <2> QED
    BY <1>1, <2>1, IdleRefreshKeeps DEF RecordActivity, AtRefresh
<1>2. CASE LoadNothing(r)
  BY <1>2, IdleRefreshKeeps DEF LoadNothing, AtRefresh, IdleRefresher
<1>3. CASE LoadFails(r) \/ RefreshCut(r)
  <2>1. faults' # 0
    BY <1>3, FaultTyped DEF LoadFails, RefreshCut
  <2> QED
    BY <1>3, <2>1, IdleRefreshKeeps DEF LoadFails, RefreshCut, IdleRefresher
<1> QED
  BY <1>1, <1>2, <1>3

LEMMA DebounceExpiresKeeps ==
    ASSUME JobsInv, DebounceExpires
    PROVE  JobsInv'
BY JobsKept DEF DebounceExpires, NotRefresh

LEMMA PlanKeeps ==
    ASSUME TypeOK, JobsInv, NEW r \in Refreshers, Plan(r)
    PROVE  JobsInv'
<1>1. PICK enabled \in Policies :
         Refresh(r, [pc |-> "move", plan |-> plan + 1, enabled |-> enabled, todo |-> Tiers])
  BY DEF Plan
<1>2. /\ refresher'[r].pc = "move" /\ refresher'[r].todo = Tiers
      /\ \A q \in Refreshers : q # r => refresher'[q] = refresher[q]
  BY <1>1, RefreshEffect
<1>3. UNCHANGED <<consumer, fired, recycled, raced, faults, recycling, entry>>
  BY DEF Plan, NotRefresh, queues
<1>4. ~mixed' => /\ ~mixed /\ recycling # "clean"
                 /\ \A q \in Refreshers : AtRefresh(q, "move")' => q = r
  BY <1>2 DEF Plan, Moving, AtRefresh
<1>5. OneMover' /\ MarkedFirst'
  BY <1>3, <1>4 DEF JobsInv, OneMover, MarkedFirst
<1>6. InStep'
  BY <1>2 DEF InStep, Moving
<1>7. MovedFollow'
  BY <1>2, <1>4, InTiers DEF MovedFollow, In
<1>8. \A t \in Tier \ raced' : Handled(t) => entry'[t] = "none"
  BY <1>3 DEF JobsInv, HandledNotQueued
<1> QED
  BY <1>3, <1>5, <1>6, <1>7, <1>8, MoverKeeps

\* A job that is moved under its handler is raced.
LEMMA MoveQueues ==
    ASSUME TypeOK, JobsInv, NEW t \in Tier, NEW p, Move(t, p)
    PROVE  /\ raced \subseteq raced'
           /\ \A u \in Tier \ raced' : Handled(u) => entry'[u] = "none"
           /\ \A u \in Tier : u # t => entry'[u] = entry[u] /\ job'[u] = job[u]
           /\ p = 0 => entry'[t] = "none"
           /\ p # 0 => entry'[t] # "none" /\ job'[t] = p
<1>1. \A u \in Tier : u # t => entry'[u] = entry[u] /\ job'[u] = job[u]
  BY DEF Move, TypeOK
<1>2. Handled(t) => t \in raced'
  BY DEF Move
<1>3. raced \subseteq raced'
  BY DEF Move
<1>4. \A u \in Tier \ raced' : Handled(u) => entry'[u] = "none"
  BY <1>1, <1>2, <1>3 DEF JobsInv, HandledNotQueued
<1>5. /\ p = 0 => entry'[t] = "none"
      /\ p # 0 => entry'[t] # "none" /\ job'[t] = p
  BY DEF Move, TypeOK
<1> QED
  BY <1>1, <1>3, <1>4, <1>5

LEMMA MoveTierKeeps ==
    ASSUME TypeOK, JobsInv, NEW r \in Refreshers, MoveTier(r)
    PROVE  JobsInv'
<1> DEFINE next == [refresher[r] EXCEPT !.todo = Tail(@)]
<1>1. PICK h \in Tier : h = Head(refresher[r].todo)
  BY HeadTyped DEF MoveTier
<1>2. /\ AtRefresh(r, "move") /\ refresher[r].todo \in Seq(Tier) /\ refresher[r].todo # <<>>
      /\ UNCHANGED <<deadline, recycling, mixed, consumer, fired, recycled>>
  BY HeadTyped DEF MoveTier, NotRefresh
<1>3. faults' = 0 => faults = 0
  BY FaultsGrow DEF MoveTier, Tolerating
<1>4. /\ next.pc = "move" /\ next.todo = Tail(refresher[r].todo)
      /\ next.plan = refresher[r].plan /\ next.enabled = refresher[r].enabled
  BY <1>2, Typed DEF RefresherStates, AtRefresh
<1>5. /\ refresher'[r] = next
      /\ \A q \in Refreshers : q # r => refresher'[q] = refresher[q]
  BY RefreshEffect DEF MoveTier
<1> HIDE DEF next
<1>6. \A q \in Refreshers : AtRefresh(q, "move")' <=> AtRefresh(q, "move")
  BY <1>2, <1>4, <1>5 DEF AtRefresh
<1>7. OneMover' /\ MarkedFirst'
  BY <1>2, <1>6 DEF JobsInv, OneMover, MarkedFirst
<1>8. InStep'
  BY <1>4, <1>5 DEF InStep, Moving
<1>9. /\ raced \subseteq raced'
      /\ \A t \in Tier \ raced' : Handled(t) => entry'[t] = "none"
  <2>1. CASE Move(h, PlanFor(r))
    BY <2>1, MoveQueues
  <2>2. CASE UNCHANGED <<entry, job, raced>>
    BY <2>2 DEF JobsInv, HandledNotQueued
  <2> QED
    BY <1>1, <2>1, <2>2 DEF MoveTier, Tolerating
<1>10. MovedFollow'
  <2> SUFFICES ASSUME ~mixed', faults' = 0, NEW q \in Refreshers, AtRefresh(q, "move")',
                      NEW t \in Tier \ raced', ~In(refresher[q].todo, t)'
               PROVE  Follows(t, PlanFor(q))'
    BY DEF MovedFollow
  <2>1. q = r
    BY <1>2, <1>6 DEF JobsInv, OneMover
  <2>2. Move(h, PlanFor(r))
    <3>1. ~Fault
      BY FaultTyped
    <3> QED
      BY <1>1, <3>1 DEF MoveTier, Tolerating
  <2>3. PICK p : p = PlanFor(r)
    OBVIOUS
  <2>4. PlanFor(q)' = p
    BY <1>4, <1>5, <2>1, <2>3 DEF PlanFor
  <2>5. Follows(t, p)'
    <3>1. CASE t = h
      BY <2>2, <2>3, <3>1, MoveQueues DEF Follows
    <3>2. CASE t # h
      <4>1. ~In(Tail(refresher[r].todo), t)
        BY <1>4, <1>5, <2>1 DEF In
      <4>2. ~In(refresher[r].todo, t)
        BY <1>1, <1>2, <3>2, <4>1, InRest
      <4>3. Follows(t, p)
        BY <1>2, <1>3, <1>9, <2>3, <4>2 DEF JobsInv, MovedFollow
      <4>4. entry'[t] = entry[t] /\ job'[t] = job[t]
        BY <2>2, <3>2, MoveQueues
      <4> QED
        BY <1>2, <4>3, <4>4, FollowsSame
    <3> QED
      BY <3>1, <3>2
  <2> QED
    BY <2>4, <2>5 DEF Follows
<1> QED
  BY <1>2, <1>3, <1>7, <1>8, <1>9, <1>10, MoverKeeps

LEMMA MoveDeadlineKeeps ==
    ASSUME TypeOK, JobsInv, NEW r \in Refreshers, MoveDeadline(r)
    PROVE  JobsInv'
<1>1. /\ AtRefresh(r, "move") /\ refresher[r].todo = <<>>
      /\ UNCHANGED <<entry, job, recycling, mixed, raced, consumer, fired, recycled>>
  BY DEF MoveDeadline, NotRefresh
<1>2. faults' = 0 => faults = 0 /\ deadline' = PlanFor(r)
  BY FaultsGrow, FaultTyped DEF MoveDeadline
<1>3. /\ refresher'[r].pc = "idle"
      /\ \A q \in Refreshers : q # r => refresher'[q] = refresher[q]
  BY RefreshEffect DEF MoveDeadline, IdleRefresher
<1>4. \A q \in Refreshers : AtRefresh(q, "move")' => q # r /\ AtRefresh(q, "move")
  BY <1>3 DEF AtRefresh
<1>5. OneMover' /\ MarkedFirst'
  BY <1>1, <1>4 DEF JobsInv, OneMover, MarkedFirst
<1>6. InStep'
  <2> SUFFICES ASSUME ~mixed', faults' = 0, NEW t \in Tier \ raced'
               PROVE  Follows(t, deadline)'
    BY DEF InStep
  <2>1. ~In(refresher[r].todo, t)
    BY <1>1 DEF In
  <2>2. Follows(t, PlanFor(r))
    BY <1>1, <1>2, <2>1 DEF JobsInv, MovedFollow
  <2> QED
    BY <1>1, <1>2, <2>2 DEF Follows
<1>7. MovedFollow'
  <2>1. ~mixed' => \A q \in Refreshers : ~AtRefresh(q, "move")'
    BY <1>1, <1>4 DEF JobsInv, OneMover
  <2> QED
    BY <2>1 DEF MovedFollow
<1>8. \A t \in Tier \ raced' : Handled(t) => entry'[t] = "none"
  BY <1>1 DEF JobsInv, HandledNotQueued
<1> QED
  BY <1>1, <1>2, <1>5, <1>6, <1>7, <1>8, MoverKeeps

LEMMA RecycleKeeps ==
    ASSUME JobsInv, Recycle
    PROVE  JobsInv'
<1>1. /\ recycled' /\ recycling' = "clean"
      /\ UNCHANGED <<entry, refresher, consumer, faults, fired, raced>>
  BY DEF Recycle, queues
<1>2. ~mixed' => \A r \in Refreshers : ~AtRefresh(r, "move")'
  BY <1>1 DEF Recycle, Moving, AtRefresh
<1>3. OneMover' /\ MarkedFirst' /\ InStep' /\ MovedFollow'
  BY <1>1, <1>2 DEF OneMover, MarkedFirst, InStep, MovedFollow, Moving
<1>4. \A t \in Tier \ raced' : Handled(t) => entry'[t] = "none"
  BY <1>1 DEF JobsInv, HandledNotQueued
<1> QED
  BY <1>1, <1>3, <1>4, MoverKeeps

LEMMA CleanTierKeeps ==
    ASSUME TypeOK, JobsInv, NEW t \in Tier, CleanTier(t)
    PROVE  JobsInv'
<1>1. /\ recycling = "clean" /\ Move(t, 0)
      /\ UNCHANGED <<refresher, recycling, mixed, consumer, faults, fired, recycled>>
  BY DEF CleanTier, moving
<1>2. OneMover' /\ MarkedFirst' /\ InStep'
  BY <1>1 DEF JobsInv, OneMover, MarkedFirst, InStep, Moving, AtRefresh
<1>3. ~mixed' => \A r \in Refreshers : ~AtRefresh(r, "move")'
  BY <1>1 DEF JobsInv, OneMover, AtRefresh
<1>4. MovedFollow'
  BY <1>3 DEF MovedFollow
<1>5. /\ raced \subseteq raced'
      /\ \A u \in Tier \ raced' : Handled(u) => entry'[u] = "none"
  BY <1>1, MoveQueues
<1> QED
  BY <1>1, <1>2, <1>4, <1>5, MoverKeeps

LEMMA CleanDeadlineKeeps ==
    ASSUME JobsInv, CleanDeadline
    PROVE  JobsInv'
<1>1. /\ recycling = "clean" /\ recycling' = "done" /\ deadline' = 0
      /\ \A t \in Tier : entry[t] = "none"
      /\ UNCHANGED <<entry, job, refresher, mixed, consumer, faults, fired, recycled, raced>>
  BY DEF CleanDeadline
<1>2. recycled
  BY <1>1 DEF JobsInv, MarkedFirst
<1>3. OneMover' /\ MarkedFirst'
  BY <1>1, <1>2 DEF JobsInv, OneMover, MarkedFirst, AtRefresh
<1>4. InStep'
  BY <1>1 DEF InStep, Follows
<1>5. ~mixed' => \A r \in Refreshers : ~AtRefresh(r, "move")'
  BY <1>1 DEF JobsInv, OneMover, AtRefresh
<1>6. MovedFollow'
  BY <1>5 DEF MovedFollow
<1> QED
  BY <1>1, <1>3, <1>4, <1>6, MoverKeeps

LEMMA MoverStepsKeep ==
    ASSUME TypeOK, JobsInv, MoverStep
    PROVE  JobsInv'
BY RefreshesKeep, DebounceExpiresKeeps, PlanKeeps, MoveTierKeeps, MoveDeadlineKeeps,
   RecycleKeeps,
   CleanTierKeeps, CleanDeadlineKeeps DEF MoverStep, RefreshNext, Load, Skip

LEMMA NextKeepsJobs ==
    ASSUME TypeInv, JobsInv, Next
    PROVE  JobsInv'
<1>1. TypeOK /\ (faults' = 0 => faults = 0)
  BY NextFaults, FaultsGrow DEF TypeInv
<1> QED
  BY <1>1, NextSteps, MoverStepsKeep, JobStepsKeep, DispatchKeepsJobs, CrashKeepsJobs

-----------------------------------------------------------------------------
(* The theorems.                                                           *)

Inv == TypeInv /\ DeliveryInv /\ JobsInv

LEMMA InitHolds ==
    ASSUME Init
    PROVE  Inv
<1>1. TypeOK
  BY InitTyped
<1>2. /\ \A b \in Backends : dispatcher[b] = IdleDispatcher
      /\ \A c \in Backends \X Tier : consumer[c] = IdleConsumer
      /\ \A r \in Refreshers : refresher[r] = IdleRefresher
  BY DEF Init
<1>3. Reading /\ Holding
  BY <1>2 DEF Reading, Holding, AtJob, IdleDispatcher, IdleConsumer
<1>4. \A x \in Deliveries : sent[x] = 0 /\ ~Logged(x)
  BY DEF Init, Deliveries, Logged
<1>5. \A b \in Backends : \A x, steps : ~On(b, x, steps)
  BY <1>2 DEF On, IdleDispatcher
<1>6. DeliveryInv
  <2>1. LogIsTrue /\ LogIsDue /\ SentIsKnown
    BY <1>4, <1>5 DEF LogIsTrue, LogIsDue, SentIsKnown
  <2>2. SendsFirst /\ SendsAlone
    BY <1>5 DEF SendsFirst, SendsAlone
  <2>3. OncePerWindow
    BY <1>4 DEF OncePerWindow, Deliveries
  <2>4. NoWindowSilenced
    BY <1>2 DEF NoWindowSilenced, IdleDispatcher
  <2> QED
    BY <1>3, <2>1, <2>2, <2>3, <2>4 DEF DeliveryInv
<1>7. JobsInv
  <2>1. \A r \in Refreshers : ~AtRefresh(r, "move")
    BY <1>2 DEF AtRefresh, IdleRefresher
  <2>2. \A c \in Backends \X Tier : AtJob(c, "idle")
    BY <1>2 DEF AtJob, IdleConsumer
  <2>3. OneMover /\ MarkedFirst /\ MovedFollow
    BY <2>1 DEF Init, OneMover, MarkedFirst, MovedFollow
  <2>4. OneHandler /\ HandledNotQueued /\ Reminded
    BY <2>2 DEF OneHandler, HandledNotQueued, Reminded, Handled, AtJob
  <2>5. InStep
    BY DEF Init, InStep, Follows
  <2> QED
    BY <2>3, <2>4, <2>5 DEF JobsInv
<1> QED
  BY <1>1, <1>3, <1>6, <1>7 DEF Inv, TypeInv

LEMMA StepHolds ==
    ASSUME Inv, [Next]_vars
    PROVE  Inv'
<1>1. CASE Next
  BY <1>1, NextDelivers, NextKeepsJobs DEF Inv
<1>2. CASE UNCHANGED vars
  <2>1. /\ UNCHANGED <<queues, moving, recycled, consumer, stream, sending, faults, fired,
                       raced>>
    BY <1>2 DEF vars
  <2>2. TypeOK'
    BY <2>1 DEF Inv, TypeInv, TypeOK, queues, moving, sending
  <2>3. Reading' /\ Holding'
    BY <2>1 DEF Inv, TypeInv, Reading, Holding, AtJob, sending
  <2>4. DeliveryInv'
    BY <2>1, SendingKept DEF Inv
  <2>5. JobsInv'
    BY <2>1, JobsKept DEF Inv, moving
  <2> QED
    BY <2>2, <2>3, <2>4, <2>5 DEF Inv, TypeInv
<1> QED
  BY <1>1, <1>2

\* What the timers, consumers and dispatchers of the reminders are about, in
\* every reachable state.
THEOREM RemindersHold == Spec => []Inv
<1>1. Init => Inv
  BY InitHolds
<1>2. Inv /\ [Next]_vars => Inv'
  BY StepHolds
<1> QED
  BY <1>1, <1>2, PTL DEF Spec

\* The state of RecordActivity, the reminder queue, its consumers and the
\* dispatchers keeps its types, and no dispatcher reads more than its batch.
THEOREM RemindersTyped == Spec => []TypeOK
<1>1. Inv => TypeOK
  BY DEF Inv, TypeInv
<1> QED
  BY <1>1, RemindersHold, PTL

\* A subscription has one reminder of a tier for a recycle time, unless the send
\* log was not written or not readable, or two dispatchers sent it at once.
THEOREM OncePerRecycleTime == Spec => []OncePerWindow
<1>1. Inv => OncePerWindow
  BY DEF Inv, DeliveryInv
<1> QED
  BY <1>1, RemindersHold, PTL

\* What a dispatcher is through with was sent to whoever its tier selects, unless
\* something failed: the send log never takes one recycle time for another.
THEOREM NoTimeSilenced == Spec => []NoWindowSilenced
<1>1. Inv => NoWindowSilenced
  BY DEF Inv, DeliveryInv
<1> QED
  BY <1>1, RemindersHold, PTL

\* Short of a failure, or of a race over a job, the reminders are those of the
\* recycle job, and a recycle that is coming has them all.
THEOREM RemindersKeepStep == Spec => []RemindersFollow
<1>1. Inv => RemindersFollow
  BY DEF Inv, JobsInv, InStep, Follows, RemindersFollow
<1> QED
  BY <1>1, RemindersHold, PTL

=============================================================================
