------------------------ MODULE QueueContractProofs ------------------------
(***************************************************************************)
(* The delay queue implements QueueContract: the refinement mapping of     *)
(* DelayQueue takes every step to a step of the contract or a stutter, for *)
(* any number of ids, callers, consumers and faults.                       *)
(***************************************************************************)
EXTENDS DelayQueueProofs

\* What every action is made of; expanded in the step proofs below.
USE DEF store, Whens, Job, NewJob, IdleCaller, NoFault, Ongoing, Call, Work,
        NextJob, Fault, Begin, ToDelete

-----------------------------------------------------------------------------
(* A claimed id has its job, and its handler has it as it is stored.       *)

\* It stays so for a consumer that does not step itself.
LEMMA OtherJobInHand ==
    ASSUME TypeOK, NEW v \in Workers, JobInHand(v), worker'[v] = worker[v],
           Doubt \subseteq Doubt',
           \A i \in WorkerIds(v) \ Doubt' : job'[i] = job[i]
    PROVE  JobInHand(v)'
    BY WorkerCases DEF JobInHand, WorkerIds

LEMMA JobsInHandCallerStep ==
    ASSUME TypeOK, SequentialInv, JobsInHand, NEW c \in Callers, CallerStep(c)
    PROVE  JobsInHand'
<1>1. Exclusive' BY ExclusiveStep
<1>2. \A w \in Workers : worker'[w] = worker[w] /\ WorkerIds(w)' = WorkerIds(w)
  BY CallerTakes DEF WorkerIds
<1>3. raced \subseteq raced' /\ faulted \subseteq faulted' BY CallerTakes
<1>4. ASSUME NEW w \in Workers, NEW i \in WorkerIds(w) \ Doubt'
      PROVE  job'[i] = job[i]
  <2>1. i \in Ids /\ i \in InUse
    BY UseIsIds DEF InUse, WorkersUse
  <2>2. i \notin CallerIds(c) /\ i \notin CallerIds(c)'
    BY <1>1, <1>2, <1>3 DEF Exclusive, SequentialInv, Doubt
  <2>3. ~\E p \in Payloads, at \in Whens : EnqueueIfMissing(c, i, p, at)
    BY <1>4, <2>1 DEF EnqueueIfMissing, Doubt
  <2>. QED BY <2>1, <2>2, <2>3, CallerTouches
<1>. QED BY <1>2, <1>3, <1>4, OtherJobInHand DEF JobsInHand, Doubt

LEMMA JobsInHandWorkerStep ==
    ASSUME TypeOK, SequentialInv, JobsInHand, NEW w \in Workers, WorkerStep(w)
    PROVE  JobsInHand'
<1>1. Exclusive' BY ExclusiveStep
<1>2. \A v \in Workers \ {w} : worker'[v] = worker[v] /\ WorkerIds(v)' = WorkerIds(v)
  BY WorkerTakes DEF WorkerIds
<1>3. raced \subseteq raced' /\ faulted \subseteq faulted' BY WorkerTakes
<1>4. ASSUME NEW v \in Workers \ {w} PROVE JobInHand(v)'
  <2>1. \A i \in WorkerIds(v) \ Doubt' : /\ i \in Ids
                                        /\ i \notin WorkerIds(w)
                                        /\ i \notin WorkerIds(w)'
    BY <1>1, <1>2, <1>3, UseIsIds DEF Exclusive, ClaimedOnce, SequentialInv, Doubt
  <2>2. \A i \in WorkerIds(v) \ Doubt' : job'[i] = job[i]
    BY <2>1, WorkerTouches
  <2>. QED BY <1>2, <1>3, <2>2, OtherJobInHand DEF JobsInHand, Doubt
<1>5. JobInHand(w)'
  <2>0. JobInHand(w) /\ WorkerInStep(w) BY DEF JobsInHand, SequentialInv
  \* A claim takes ids that are due: not in use, they have their job.
  <2>1. ASSUME NEW S \in SUBSET Ids, ClaimDue(w, S) PROVE JobInHand(w)'
    <3>1. worker'[w] = [pc |-> "poll", batch |-> S] /\ job' = job
      BY <2>1 DEF ClaimDue, TypeOK
    <3>2. ASSUME NEW i \in S, i \notin Doubt' PROVE job[i] # NoJob
      <4>1. i \in Ids /\ entry[i] = "due" BY <2>1 DEF ClaimDue, Due
      <4>2. i \notin CallersUse BY <2>1, <3>2 DEF ClaimDue, Doubt
      <4>3. i \notin WorkersUse
        BY <1>3, <3>2, <4>1 DEF SequentialInv, WorkerInStep, WorkersUse, Doubt
      <4>. QED BY <1>3, <3>2, <4>1, <4>2, <4>3
           DEF SequentialInv, NoOrphanInSequentialUse, InUse, Doubt
    <3>. QED BY <3>1, <3>2 DEF JobInHand
  <2>2. ASSUME NEW j \in Ids, LoadJob(w, j) PROVE JobInHand(w)'
    <3>1. worker'[w] = [pc |-> "handle", batch |-> worker[w].batch \ {j},
                        id |-> j, job |-> job[j]]
      BY <2>2 DEF LoadJob, TypeOK
    <3>2. job' = job BY <2>2 DEF LoadJob
    <3>. QED BY <1>3, <2>0, <3>1, <3>2 DEF JobInHand, Doubt
  <2>3. ASSUME NEW j \in Ids, LoadNothing(w, j) \/ LoadFails(w, j) PROVE JobInHand(w)'
    <3>1. worker'[w] = [pc |-> "poll", batch |-> worker[w].batch \ {j}] /\ job' = job
      BY <2>3 DEF LoadNothing, LoadFails, TypeOK
    <3>. QED BY <1>3, <2>0, <3>1 DEF JobInHand, Doubt
  <2>4. ASSUME HandlerReturns(w) \/ FinishJob(w) \/ FinishFails(w)
        PROVE  JobInHand(w)'
    <3>1. worker[w].pc # "poll"
      BY <2>4 DEF HandlerReturns, HandlerSucceeds, HandlerFails, HandlerReschedules,
         FinishJob, RescheduleZAdd, SaveJob, Requeue, DeleteJob, FinishFails
    <3>2. worker[w].id \notin worker[w].batch BY <2>0, <3>1 DEF WorkerInStep
    <3>3. worker'[w].pc # "handle" /\ worker'[w].batch = worker[w].batch
      <4>1. ASSUME NEW r \in BOOLEAN, NEW p \in Payloads, HandlerFails(w, r, p)
            PROVE  worker'[w].pc # "handle" /\ worker'[w].batch = worker[w].batch
        <5>1. worker[w] \in [pc : {"handle"}, batch : SUBSET Ids, id : Ids, job : Job]
          BY <4>1, WorkerCases DEF HandlerFails
        <5>2. CASE worker[w].job.attempts + 1 >= MaxAttempts /\ ~r
          BY <4>1, <5>2 DEF HandlerFails, TypeOK
        <5>3. CASE ~(worker[w].job.attempts + 1 >= MaxAttempts /\ ~r)
          <6>1. worker'[w] = [worker[w] EXCEPT !.pc = "save",
                    !.job = [payload |-> p,
                             attempts |-> AttemptsAfter(worker[w].job.attempts, r)]]
            BY <4>1, <5>3 DEF HandlerFails, TypeOK
          <6>. QED BY <5>1, <6>1
        <5>. QED BY <5>2, <5>3
      <4>2. ASSUME HandlerSucceeds(w)
            PROVE  worker'[w].pc # "handle" /\ worker'[w].batch = worker[w].batch
        BY <4>2 DEF HandlerSucceeds, TypeOK
      <4>3. ASSUME NEW p \in Payloads, NEW at \in Whens, HandlerReschedules(w, p, at)
            PROVE  worker'[w].pc # "handle" /\ worker'[w].batch = worker[w].batch
        BY <4>3 DEF HandlerReschedules, TypeOK
      <4>4. ASSUME FinishJob(w) \/ FinishFails(w)
            PROVE  worker'[w].pc # "handle" /\ worker'[w].batch = worker[w].batch
        BY <4>4 DEF FinishJob, RescheduleZAdd, SaveJob, Requeue, DeleteJob, FinishFails,
                    TypeOK
      <4>. QED BY <2>4, <4>1, <4>2, <4>3, <4>4 DEF HandlerReturns
    <3>4. \A i \in Ids : i # worker[w].id => job'[i] = job[i]
      BY <2>4 DEF HandlerReturns, HandlerSucceeds, HandlerFails, HandlerReschedules,
         FinishJob, RescheduleZAdd, SaveJob, Requeue, DeleteJob, FinishFails, TypeOK
    <3>5. worker[w].batch \subseteq Ids BY UseIsIds DEF WorkerIds
    <3>. QED BY <1>3, <2>0, <3>2, <3>3, <3>4, <3>5 DEF JobInHand, Doubt
  <2>5. ASSUME WorkerDies(w) PROVE JobInHand(w)'
    BY <2>5 DEF WorkerDies, JobInHand, TypeOK
  <2>. QED BY <2>1, <2>2, <2>3, <2>4, <2>5 DEF WorkerStep
<1>. QED BY <1>4, <1>5 DEF JobsInHand

\* What a consumer has claimed is there to be handled, as long as it is not in
\* doubt: nobody takes the job away from under it, and nobody changes it.
LEMMA JobsInHandStep ==
    TypeOK /\ SequentialInv /\ JobsInHand /\ [Next]_vars => JobsInHand'
<1> SUFFICES ASSUME TypeOK, SequentialInv, JobsInHand, [Next]_vars PROVE JobsInHand'
  OBVIOUS
<1>1. ASSUME NEW i \in Ids, BecomesDue(i) PROVE JobsInHand'
  BY <1>1 DEF BecomesDue, JobsInHand, JobInHand, Doubt
<1>2. ASSUME NEW j \in Ids, KeyExpires(j) PROVE JobsInHand'
  <2>1. worker' = worker /\ Doubt \subseteq Doubt' /\ j \in Doubt'
    BY <1>2 DEF KeyExpires, Doubt
  <2>2. \A i \in Ids \ Doubt' : job'[i] = job[i] BY <1>2, <2>1 DEF KeyExpires, TypeOK
  <2>3. \A v \in Workers : \A i \in WorkerIds(v) \ Doubt' : job'[i] = job[i]
    BY <2>2, UseIsIds
  <2>. QED BY <2>1, <2>3, OtherJobInHand DEF JobsInHand
<1>3. CASE UNCHANGED vars
  BY <1>3 DEF vars, JobsInHand, JobInHand, Doubt
<1>. QED BY <1>1, <1>2, <1>3, JobsInHandCallerStep, JobsInHandWorkerStep DEF Next

LEMMA JobsInHandInit == Init => JobsInHand
    BY DEF Init, JobsInHand, JobInHand

-----------------------------------------------------------------------------
(* What the contract sees of an id, by who uses it.                        *)

LEMMA PickOne == \A x, otherwise : Pick({x}, otherwise) = x
    BY DEF Pick

LEMMA PickNone == \A otherwise : Pick({}, otherwise) = otherwise
    BY DEF Pick

UnusedView(i) ==
    /\ Hands(i) = {}
    /\ When(i) = entry[i]
    /\ Data(i) = job[i]

CallerView(c, i) ==
    /\ Hands(i) = {}
    /\ When(i) = (IF caller[c].pc = "zadd" THEN caller[c].at ELSE entry[i])
    /\ Data(i) = (IF caller[c].pc = "del" /\ caller[c].id = i THEN NoJob ELSE job[i])

BatchView(w, i) ==
    /\ Hands(i) = {[by |-> w, job |-> NoJob]}
    /\ When(i) = entry[i]
    /\ Data(i) = job[i]

JobView(w, i) ==
    /\ Hands(i) = (IF worker[w].pc = "handle" THEN {[by |-> w, job |-> worker[w].job]}
                   ELSE {})
    /\ When(i) = (CASE worker[w].pc = "zadd"                -> worker[w].at
                    [] worker[w].pc \in {"save", "requeue"} -> "later"
                    [] OTHER                                -> entry[i])
    /\ Data(i) = (CASE worker[w].pc = "save"   -> worker[w].job
                    [] worker[w].pc = "delete" -> NoJob
                    [] OTHER                   -> job[i])

\* A process that does not use an id adds nothing to its view.
LEMMA CallerApart ==
    ASSUME NEW c \in Callers, NEW i, i \notin CallerIds(c), TypeOK
    PROVE  /\ ~(caller[c].pc = "zadd" /\ caller[c].id = i)
           /\ ~(caller[c].pc = "del" /\ caller[c].id = i)
    BY DEF CallerIds

LEMMA WorkerApart ==
    ASSUME NEW w \in Workers, NEW i, i \notin WorkerIds(w), TypeOK
    PROVE  /\ i \notin worker[w].batch
           /\ ~(worker[w].pc \in {"zadd", "save", "requeue", "delete", "handle"}
                  /\ worker[w].id = i)
    BY DEF WorkerIds

LEMMA UnusedViewed ==
    ASSUME TypeOK, NEW i \in Ids, i \notin InUse
    PROVE  UnusedView(i)
<1>1. \A c \in Callers : i \notin CallerIds(c) BY DEF InUse, CallersUse
<1>2. \A w \in Workers : i \notin WorkerIds(w) BY DEF InUse, WorkersUse
<1>3. AboutToAdd(i) = {}
  BY <1>1, <1>2, CallerApart, WorkerApart DEF AboutToAdd
<1>4. AboutToWrite(i) = {}
  BY <1>1, <1>2, CallerApart, WorkerApart DEF AboutToWrite
<1>5. Hands(i) = {}
  BY <1>2, WorkerApart DEF Hands
<1>. QED BY <1>3, <1>4, <1>5, PickNone DEF UnusedView, When, Data

LEMMA CallerViewed ==
    ASSUME TypeOK, Exclusive, NEW c \in Callers, NEW i \in CallerIds(c), i \notin raced
    PROVE  CallerView(c, i)
<1>1. \A d \in Callers : d # c => i \notin CallerIds(d) BY DEF Exclusive
<1>2. \A w \in Workers : i \notin WorkerIds(w) BY DEF Exclusive
<1>3. Hands(i) = {}
  BY <1>2, WorkerApart DEF Hands
<1>4. caller[c].pc \in {"zadd", "undo"} => caller[c].id = i BY DEF CallerIds
<1>5. When(i) = (IF caller[c].pc = "zadd" THEN caller[c].at ELSE entry[i])
  <2>1. CASE caller[c].pc = "zadd"
    <3>1. AboutToAdd(i) = {caller[c].at}
      BY <1>1, <1>2, <1>4, <2>1, CallerApart, WorkerApart DEF AboutToAdd
    <3>. QED BY <2>1, <3>1, PickOne DEF When
  <2>2. CASE caller[c].pc # "zadd"
    <3>1. AboutToAdd(i) = {}
      BY <1>1, <1>2, <2>2, CallerApart, WorkerApart DEF AboutToAdd
    <3>. QED BY <2>2, <3>1, PickNone DEF When
  <2>. QED BY <2>1, <2>2
<1>6. Data(i) = (IF caller[c].pc = "del" /\ caller[c].id = i THEN NoJob ELSE job[i])
  <2>1. CASE caller[c].pc = "del" /\ caller[c].id = i
    <3>1. AboutToWrite(i) = {NoJob}
      BY <1>1, <1>2, <2>1, CallerApart, WorkerApart DEF AboutToWrite
    <3>. QED BY <2>1, <3>1, PickOne DEF Data
  <2>2. CASE ~(caller[c].pc = "del" /\ caller[c].id = i)
    <3>1. AboutToWrite(i) = {}
      BY <1>1, <1>2, <2>2, CallerApart, WorkerApart DEF AboutToWrite
    <3>. QED BY <2>2, <3>1, PickNone DEF Data
  <2>. QED BY <2>1, <2>2
<1>. QED BY <1>3, <1>5, <1>6 DEF CallerView

\* Nobody else uses what a consumer holds.
LEMMA HeldAlone ==
    ASSUME TypeOK, Exclusive, NEW w \in Workers, NEW i \in WorkerIds(w), i \notin raced
    PROVE  /\ \A c \in Callers : i \notin CallerIds(c)
           /\ \A v \in Workers : v # w => i \notin WorkerIds(v)
    BY DEF Exclusive, ClaimedOnce

LEMMA BatchViewed ==
    ASSUME TypeOK, Exclusive, NEW w \in Workers, WorkerInStep(w),
           NEW i \in worker[w].batch, i \notin raced
    PROVE  BatchView(w, i)
<1>0. i \in WorkerIds(w) BY DEF WorkerIds
<1>1. /\ \A c \in Callers : i \notin CallerIds(c)
      /\ \A v \in Workers : v # w => i \notin WorkerIds(v)
  BY <1>0, HeldAlone
<1>2. worker[w].pc # "poll" => worker[w].id # i BY DEF WorkerInStep
<1>3. AboutToAdd(i) = {}
  BY <1>1, <1>2, CallerApart, WorkerApart DEF AboutToAdd
<1>4. AboutToWrite(i) = {}
  BY <1>1, <1>2, CallerApart, WorkerApart DEF AboutToWrite
<1>5. Hands(i) = {[by |-> w, job |-> NoJob]}
  BY <1>1, <1>2, WorkerApart DEF Hands
<1>. QED BY <1>3, <1>4, <1>5, PickNone DEF BatchView, When, Data

LEMMA JobViewed ==
    ASSUME TypeOK, Exclusive, NEW w \in Workers, WorkerInStep(w),
           worker[w].pc # "poll", NEW i, i = worker[w].id, i \notin raced
    PROVE  JobView(w, i)
<1>0. i \in WorkerIds(w) BY DEF WorkerIds
<1>1. /\ \A c \in Callers : i \notin CallerIds(c)
      /\ \A v \in Workers : v # w => i \notin WorkerIds(v)
  BY <1>0, HeldAlone
<1>2. i \notin worker[w].batch BY DEF WorkerInStep
<1>3. \A c \in Callers : /\ ~(caller[c].pc = "zadd" /\ caller[c].id = i)
                         /\ ~(caller[c].pc = "del" /\ caller[c].id = i)
  BY <1>1, CallerApart
<1>4. \A v \in Workers : v # w =>
        /\ i \notin worker[v].batch
        /\ ~(worker[v].pc \in {"zadd", "save", "requeue", "delete", "handle"}
               /\ worker[v].id = i)
  BY <1>1, WorkerApart
<1>5. Hands(i) = (IF worker[w].pc = "handle" THEN {[by |-> w, job |-> worker[w].job]}
                  ELSE {})
  <2>1. CASE worker[w].pc = "handle"
    BY <1>2, <1>4, <2>1 DEF Hands
  <2>2. CASE worker[w].pc # "handle"
    BY <1>2, <1>4, <2>2 DEF Hands
  <2>. QED BY <2>1, <2>2
<1>6. When(i) = (CASE worker[w].pc = "zadd"                -> worker[w].at
                   [] worker[w].pc \in {"save", "requeue"} -> "later"
                   [] OTHER                                -> entry[i])
  <2>1. CASE worker[w].pc = "zadd"
    <3>1. AboutToAdd(i) = {worker[w].at} BY <1>3, <1>4, <2>1 DEF AboutToAdd
    <3>. QED BY <2>1, <3>1, PickOne DEF When
  <2>2. CASE worker[w].pc \in {"save", "requeue"}
    <3>1. AboutToAdd(i) = {"later"} BY <1>3, <1>4, <2>2 DEF AboutToAdd
    <3>. QED BY <2>2, <3>1, PickOne DEF When
  <2>3. CASE worker[w].pc \notin {"zadd", "save", "requeue"}
    <3>1. AboutToAdd(i) = {} BY <1>3, <1>4, <2>3 DEF AboutToAdd
    <3>. QED BY <2>3, <3>1, PickNone DEF When
  <2>. QED BY <2>1, <2>2, <2>3
<1>7. Data(i) = (CASE worker[w].pc = "save"   -> worker[w].job
                   [] worker[w].pc = "delete" -> NoJob
                   [] OTHER                   -> job[i])
  <2>1. CASE worker[w].pc = "save"
    <3>1. AboutToWrite(i) = {worker[w].job} BY <1>3, <1>4, <2>1 DEF AboutToWrite
    <3>. QED BY <2>1, <3>1, PickOne DEF Data
  <2>2. CASE worker[w].pc = "delete"
    <3>1. AboutToWrite(i) = {NoJob} BY <1>3, <1>4, <2>2 DEF AboutToWrite
    <3>. QED BY <2>2, <3>1, PickOne DEF Data
  <2>3. CASE worker[w].pc \notin {"save", "delete"}
    <3>1. AboutToWrite(i) = {} BY <1>3, <1>4, <2>3 DEF AboutToWrite
    <3>. QED BY <2>3, <3>1, PickNone DEF Data
  <2>. QED BY <2>1, <2>2, <2>3
<1>. QED BY <1>5, <1>6, <1>7 DEF JobView

\* All four at once, of a state and so of the next one.
Views ==
    TypeOK /\ SequentialInv =>
        /\ \A i \in Ids : i \notin InUse => UnusedView(i)
        /\ \A c \in Callers : \A i \in CallerIds(c) \ raced : CallerView(c, i)
        /\ \A w \in Workers : \A i \in worker[w].batch \ raced : BatchView(w, i)
        /\ \A w \in Workers : worker[w].pc # "poll" /\ worker[w].id \notin raced
                                => JobView(w, worker[w].id)

LEMMA Viewed == Views
<1>. SUFFICES ASSUME TypeOK, SequentialInv
              PROVE  /\ \A i \in Ids : i \notin InUse => UnusedView(i)
                     /\ \A c \in Callers : \A i \in CallerIds(c) \ raced : CallerView(c, i)
                     /\ \A w \in Workers : \A i \in worker[w].batch \ raced : BatchView(w, i)
                     /\ \A w \in Workers : worker[w].pc # "poll" /\ worker[w].id \notin raced
                                             => JobView(w, worker[w].id)
  BY DEF Views
<1>1. Exclusive /\ \A w \in Workers : WorkerInStep(w) BY DEF SequentialInv
<1>2. \A i \in Ids : i \notin InUse => UnusedView(i) BY UnusedViewed
<1>3. \A c \in Callers : \A i \in CallerIds(c) \ raced : CallerView(c, i)
  BY <1>1, CallerViewed
<1>4. \A w \in Workers : \A i \in worker[w].batch \ raced : BatchView(w, i)
  BY <1>1, BatchViewed
<1>5. \A w \in Workers : worker[w].pc # "poll" /\ worker[w].id \notin raced
                           => JobView(w, worker[w].id)
  BY <1>1, JobViewed
<1>. QED BY <1>2, <1>3, <1>4, <1>5

-----------------------------------------------------------------------------
(* Each step, as the contract sees it of an id that is not in doubt.       *)

\* The contract's moves of one id, in the queue's terms.
LEMMA Stays ==
    ASSUME NEW i \in Ids, When(i)' = When(i), Data(i)' = Data(i), Hands(i)' = Hands(i)
    PROVE  Contract!Same(i)
    BY DEF Contract!Same, Contract!Becomes

LEMMA Schedules ==
    ASSUME NEW i \in Ids, NEW at \in Whens, NEW p \in Payloads, Hands(i) = {},
           When(i)' = at, Data(i)' = NewJob(p), Hands(i)' = {}
    PROVE  Contract!Step(i)
    BY DEF Contract!Step, Contract!Schedule, Contract!Becomes, Contract!Fresh

LEMMA Cancels ==
    ASSUME NEW i \in Ids, Hands(i) = {},
           When(i)' = "none", Data(i)' = NoJob, Hands(i)' = {}
    PROVE  Contract!Step(i)
    BY DEF Contract!Step, Contract!Cancel, Contract!Becomes

LEMMA IsDue ==
    ASSUME NEW i \in Ids, When(i) = "later",
           When(i)' = "due", Data(i)' = Data(i), Hands(i)' = Hands(i)
    PROVE  Contract!Step(i)
    BY DEF Contract!Step, Contract!ComesDue, Contract!Becomes

LEMMA Claims ==
    ASSUME NEW i \in Ids, NEW w \in Workers,
           When(i) = "due", Data(i) # NoJob, Hands(i) = {},
           When(i)' = "none", Data(i)' = Data(i), Hands(i)' = {[by |-> w, job |-> NoJob]}
    PROVE  Contract!Step(i)
    BY DEF Contract!Step, Contract!Claim, Contract!Becomes, Contract!Claimed

LEMMA Delivers ==
    ASSUME NEW i \in Ids, NEW w \in Workers,
           Data(i) # NoJob, Hands(i) = {[by |-> w, job |-> NoJob]},
           When(i)' = When(i), Data(i)' = Data(i), Hands(i)' = {[by |-> w, job |-> Data(i)]}
    PROVE  Contract!Step(i)
    BY DEF Contract!Step, Contract!Deliver, Contract!Becomes, Contract!Claimed,
           Contract!Handling

LEMMA Finishes ==
    ASSUME NEW i \in Ids, NEW w \in Workers, Hands(i) = {[by |-> w, job |-> Data(i)]},
           When(i)' = "none", Data(i)' = NoJob, Hands(i)' = {}
    PROVE  Contract!Step(i)
    BY DEF Contract!Step, Contract!Finish, Contract!Becomes, Contract!Handling

LEMMA Retries ==
    ASSUME NEW i \in Ids, NEW w \in Workers, Hands(i) = {[by |-> w, job |-> Data(i)]},
           NEW p \in Payloads, NEW made, made = Data(i).attempts + 1,
           When(i)' = "later", Hands(i)' = {},
           Data(i)' = [payload |-> p,
                       attempts |-> IF made < MaxAttempts THEN made ELSE MaxAttempts - 1]
    PROVE  Contract!Step(i)
    BY DEF Contract!Step, Contract!Retry, Contract!Becomes, Contract!Handling

LEMMA Reschedules ==
    ASSUME NEW i \in Ids, NEW w \in Workers, Hands(i) = {[by |-> w, job |-> Data(i)]},
           NEW at \in Whens, NEW p \in Payloads,
           When(i)' = at, Data(i)' = NewJob(p), Hands(i)' = {}
    PROVE  Contract!Step(i)
    BY DEF Contract!Step, Contract!Reschedule, Contract!Becomes, Contract!Handling,
           Contract!Fresh

\* An id is seen as before when no process that uses it has changed and neither
\* have its entry and its job.
LEMMA Unaffected ==
    ASSUME NEW i \in Ids,
           \A d \in Callers : \/ caller'[d] = caller[d]
                              \/ i \notin CallerIds(d) /\ i \notin CallerIds(d)',
           \A v \in Workers : \/ worker'[v] = worker[v]
                              \/ i \notin WorkerIds(v) /\ i \notin WorkerIds(v)'
    PROVE  /\ AboutToAdd(i)' = AboutToAdd(i)
           /\ AboutToWrite(i)' = AboutToWrite(i)
           /\ Hands(i)' = Hands(i)
<1>1. ASSUME NEW d \in Callers
      PROVE  \/ caller'[d] = caller[d]
             \/ /\ ~(caller[d].pc \in {"zadd", "del"} /\ caller[d].id = i)
                /\ ~(caller'[d].pc \in {"zadd", "del"} /\ caller'[d].id = i)
  BY DEF CallerIds
<1>2. ASSUME NEW v \in Workers
      PROVE  \/ worker'[v] = worker[v]
             \/ /\ i \notin worker[v].batch /\ i \notin worker'[v].batch
                /\ ~(worker[v].pc \in {"zadd", "save", "requeue", "delete", "handle"}
                       /\ worker[v].id = i)
                /\ ~(worker'[v].pc \in {"zadd", "save", "requeue", "delete", "handle"}
                       /\ worker'[v].id = i)
  BY DEF WorkerIds
<1>3. AboutToAdd(i)' = AboutToAdd(i)
  BY <1>1, <1>2 DEF AboutToAdd
<1>4. AboutToWrite(i)' = AboutToWrite(i)
  BY <1>1, <1>2 DEF AboutToWrite
<1>5. Hands(i)' = Hands(i)
  BY <1>2 DEF Hands
<1>. QED BY <1>3, <1>4, <1>5

LEMMA UnaffectedStays ==
    ASSUME NEW i \in Ids, entry'[i] = entry[i], job'[i] = job[i],
           \A d \in Callers : \/ caller'[d] = caller[d]
                              \/ i \notin CallerIds(d) /\ i \notin CallerIds(d)',
           \A v \in Workers : \/ worker'[v] = worker[v]
                              \/ i \notin WorkerIds(v) /\ i \notin WorkerIds(v)'
    PROVE  Contract!Same(i)
<1>1. /\ AboutToAdd(i)' = AboutToAdd(i)
      /\ AboutToWrite(i)' = AboutToWrite(i)
      /\ Hands(i)' = Hands(i)
  BY Unaffected
<1>. QED BY <1>1, Stays DEF When, Data

\* What its caller lets go of, nobody uses.
LEMMA CallerLetsGo ==
    ASSUME TypeOK, SequentialInv, NEW c \in Callers, CallerStep(c),
           NEW i \in CallerIds(c), i \notin raced, i \notin CallerIds(c)'
    PROVE  i \notin InUse'
<1>1. \A d \in Callers : d # c => i \notin CallerIds(d)
  BY DEF SequentialInv, Exclusive
<1>2. \A w \in Workers : i \notin WorkerIds(w) BY DEF SequentialInv, Exclusive
<1>3. /\ \A d \in Callers \ {c} : CallerIds(d)' = CallerIds(d)
      /\ \A w \in Workers : WorkerIds(w)' = WorkerIds(w)
  BY CallerTakes DEF CallerIds, WorkerIds
<1>. QED BY <1>1, <1>2, <1>3 DEF InUse, CallersUse, WorkersUse

LEMMA ContractCallerStep ==
    ASSUME TypeOK, SequentialInv, TypeOK', SequentialInv', NEW c \in Callers, CallerStep(c),
           NEW i \in Ids, i \notin Doubt'
    PROVE  Contract!Step(i) \/ Contract!Same(i)
<1>1. Views /\ Views' BY Viewed, PTL
<1>2. /\ i \notin raced /\ i \notin faulted /\ i \notin raced' /\ i \notin faulted'
      /\ \A d \in Callers \ {c} : caller'[d] = caller[d]
      /\ worker' = worker
  BY CallerTakes DEF Doubt
<1>3. i \notin InUse => UnusedView(i)
  BY <1>1 DEF Views
<1>4. i \notin InUse' => UnusedView(i)'
  BY <1>1 DEF Views
<1>5. i \in CallerIds(c) => CallerView(c, i)
  BY <1>1, <1>2 DEF Views
<1>6. i \in CallerIds(c)' => CallerView(c, i)'
  BY <1>1, <1>2 DEF Views
<1>7. i \in CallerIds(c) /\ i \notin CallerIds(c)' => i \notin InUse'
  BY <1>2, CallerLetsGo
<1>8. i \in CallerIds(c)' \ CallerIds(c) => i \notin InUse
  BY <1>2, CallerTakes
<1>9. ASSUME NEW p \in Payloads, NEW at \in Whens, EnqueueIfMissing(c, i, p, at)
      PROVE  Contract!Step(i)
  <2>1. i \notin InUse BY <1>2, <1>9 DEF EnqueueIfMissing
  <2>2. i \notin InUse'
    BY <1>9, <2>1 DEF EnqueueIfMissing, InUse, CallersUse, WorkersUse, CallerIds, WorkerIds
  <2>3. entry'[i] = at /\ job'[i] = NewJob(p) BY <1>9 DEF EnqueueIfMissing, TypeOK
  <2>. QED BY <1>3, <1>4, <2>1, <2>2, <2>3, Schedules DEF UnusedView
<1>10. CASE i \notin CallerIds(c) /\ i \notin CallerIds(c)'
  <2>1. ASSUME entry'[i] = entry[i], job'[i] = job[i] PROVE Contract!Same(i)
    BY <1>2, <1>10, <2>1, UnaffectedStays
  <2>. QED BY <1>9, <1>10, <2>1, CallerTouches
<1>11. CASE i \in CallerIds(c) \cup CallerIds(c)'
  <2>1. ASSUME NEW j \in Ids, NEW p \in Payloads, NEW at \in Whens, EnqueueSet(c, j, p, at)
        PROVE  Contract!Step(i)
    <3>1. CallerIds(c) = {} /\ CallerIds(c)' = {j} /\ i = j
      BY <1>11, <2>1, CallerIdsStep
    <3>2. /\ caller'[c] = [pc |-> "zadd", id |-> j, at |-> at]
          /\ job'[i] = NewJob(p)
      BY <2>1, <3>1 DEF EnqueueSet, TypeOK
    <3>3. Hands(i) = {} BY <1>3, <1>8, <3>1 DEF UnusedView
    <3>4. Hands(i)' = {} /\ When(i)' = at /\ Data(i)' = NewJob(p)
      BY <1>6, <3>1, <3>2 DEF CallerView
    <3>. QED BY <3>3, <3>4, Schedules
  <2>2. ASSUME NEW j \in Ids, NEW p \in Payloads, NEW at \in Whens,
               EnqueueIfMissing(c, j, p, at)
        PROVE  Contract!Same(i)
    <3>1. /\ caller' = caller /\ i \in CallerIds(c) /\ i \in CallerIds(c)'
      BY <1>11, <2>2 DEF EnqueueIfMissing, CallerIds
    <3>2. i # j BY <1>2, <2>2, <3>1 DEF EnqueueIfMissing, InUse, CallersUse
    <3>3. entry'[i] = entry[i] /\ job'[i] = job[i]
      BY <2>2, <3>2 DEF EnqueueIfMissing, TypeOK
    <3>. QED BY <1>5, <1>6, <3>1, <3>3, Stays DEF CallerView
  <2>3. ASSUME EnqueueZAdd(c) PROVE Contract!Same(i)
    <3>1. i = caller[c].id /\ i \in CallerIds(c) /\ i \notin CallerIds(c)'
      BY <1>11, <2>3, CallerIdsStep
    <3>2. entry'[i] = caller[c].at /\ job'[i] = job[i] /\ caller[c].pc = "zadd"
      BY <2>3, <3>1 DEF EnqueueZAdd, TypeOK
    <3>. QED BY <1>4, <1>5, <1>7, <3>1, <3>2, Stays DEF CallerView, UnusedView
  <2>4. ASSUME EnqueueZAddFails(c) \/ EnqueueUndo(c) \/ RemoveFails(c) \/ CallerDies(c)
        PROVE  FALSE
    <3>1. i \in CallerIds(c) BY <1>11, <2>4, CallerIdsStep
    <3>2. CASE EnqueueUndo(c)
      BY <1>2, <2>4, <3>1, <3>2, CallerIdsStep DEF EnqueueUndo, SequentialInv, CallerInStep
    <3>3. CASE EnqueueZAddFails(c)
      <4>1. i = caller[c].id BY <3>1, <3>3 DEF EnqueueZAddFails, CallerIds
      <4>. QED BY <1>2, <3>3, <4>1 DEF EnqueueZAddFails
    <3>4. CASE RemoveFails(c) \/ CallerDies(c)
      BY <1>2, <3>1, <3>4 DEF RemoveFails, CallerDies
    <3>. QED BY <2>4, <3>2, <3>3, <3>4
  <2>5. ASSUME NEW S \in SUBSET Ids, RemoveBegin(c, S) PROVE Contract!Same(i)
    <3>1. CallerIds(c) = {} /\ CallerIds(c)' = S /\ i \in S
      BY <1>11, <2>5, CallerIdsStep
    <3>2. /\ caller'[c] = [pc |-> "zrem", todo |-> S]
          /\ entry'[i] = entry[i] /\ job'[i] = job[i]
      BY <2>5 DEF RemoveBegin, TypeOK
    <3>. QED BY <1>3, <1>6, <1>8, <3>1, <3>2, Stays DEF CallerView, UnusedView
  <2>6. ASSUME NEW j \in Ids, RemoveZRem(c, j)
        PROVE  Contract!Step(i) \/ Contract!Same(i)
    <3>1. i \in CallerIds(c) /\ i \in CallerIds(c)' BY <1>11, <2>6, CallerIdsStep
    <3>2. /\ caller[c].pc = "zrem"
          /\ caller'[c] = [pc |-> "del", id |-> j, todo |-> caller[c].todo \ {j}]
          /\ job'[i] = job[i]
      BY <2>6 DEF RemoveZRem, TypeOK
    <3>3. CASE i = j
      <4>1. entry'[i] = "none" BY <2>6, <3>3 DEF RemoveZRem, TypeOK
      <4>. QED BY <1>5, <1>6, <3>1, <3>2, <3>3, <4>1, Cancels DEF CallerView
    <3>4. CASE i # j
      <4>1. entry'[i] = entry[i] BY <2>6, <3>4 DEF RemoveZRem, TypeOK
      <4>. QED BY <1>5, <1>6, <3>1, <3>2, <3>4, <4>1, Stays DEF CallerView
    <3>. QED BY <3>3, <3>4
  <2>7. ASSUME RemoveDel(c) PROVE Contract!Same(i)
    <3>1. i \in CallerIds(c) BY <1>11, <2>7, CallerIdsStep
    <3>2. /\ caller[c].pc = "del"
          /\ caller'[c].pc \in {"idle", "zrem"}
          /\ entry'[i] = entry[i]
          /\ job'[i] = IF i = caller[c].id THEN NoJob ELSE job[i]
      BY <2>7 DEF RemoveDel, TypeOK
    <3>3. CASE i \in CallerIds(c)'
      BY <1>5, <1>6, <3>1, <3>2, <3>3, Stays DEF CallerView
    <3>4. CASE i \notin CallerIds(c)'
      BY <1>4, <1>5, <1>7, <3>1, <3>2, <3>4, Stays DEF CallerView, UnusedView
    <3>. QED BY <3>3, <3>4
  <2>. QED BY <2>1, <2>2, <2>3, <2>4, <2>5, <2>6, <2>7
       DEF CallerStep, Remove, RemoveByPrefix
<1>. QED BY <1>10, <1>11

\* Neither does anybody use what its consumer lets go of.
LEMMA WorkerLetsGo ==
    ASSUME TypeOK, SequentialInv, NEW w \in Workers, WorkerStep(w),
           NEW i \in WorkerIds(w), i \notin raced, i \notin WorkerIds(w)'
    PROVE  i \notin InUse'
<1>1. \A v \in Workers : v # w => i \notin WorkerIds(v)
  BY DEF SequentialInv, Exclusive, ClaimedOnce
<1>2. \A c \in Callers : i \notin CallerIds(c) BY DEF SequentialInv, Exclusive
<1>3. /\ \A v \in Workers \ {w} : WorkerIds(v)' = WorkerIds(v)
      /\ \A c \in Callers : CallerIds(c)' = CallerIds(c)
  BY WorkerTakes DEF CallerIds, WorkerIds
<1>. QED BY <1>1, <1>2, <1>3 DEF InUse, CallersUse, WorkersUse

\* The attempts of a job that is queued again, as the contract counts them.
LEMMA AttemptsAsCounted ==
    ASSUME NEW made \in 0 .. MaxAttempts - 1, NEW r \in BOOLEAN,
           made + 1 < MaxAttempts \/ r
    PROVE  AttemptsAfter(made, r)
             = IF made + 1 < MaxAttempts THEN made + 1 ELSE MaxAttempts - 1
    BY QueueAssumption DEF AttemptsAfter

LEMMA ContractHandlerReturns ==
    ASSUME TypeOK, SequentialInv, JobsInHand, TypeOK', SequentialInv',
           NEW w \in Workers, HandlerReturns(w),
           NEW i \in Ids, i = worker[w].id, i \notin Doubt'
    PROVE  Contract!Step(i)
<1>1. Views /\ Views' BY Viewed, PTL
<1>2. WorkerStep(w) BY DEF WorkerStep
<1>3. i \notin raced /\ i \notin faulted /\ i \notin raced'
  BY <1>2, WorkerTakes DEF Doubt
<1>4. worker[w] \in [pc : {"handle"}, batch : SUBSET Ids, id : Ids, job : Job]
  BY WorkerCases DEF HandlerReturns, HandlerSucceeds, HandlerFails, HandlerReschedules
<1>5. job[i] = worker[w].job /\ entry[i] = "none"
  <2>1. i \in WorkerIds(w) BY <1>4 DEF WorkerIds
  <2>. QED BY <1>3, <1>4, <2>1 DEF JobsInHand, JobInHand, SequentialInv, WorkerInStep, Doubt
<1>6. Hands(i) = {[by |-> w, job |-> Data(i)]} /\ Data(i) = worker[w].job
  BY <1>1, <1>3, <1>4, <1>5 DEF Views, JobView
<1>7. worker'[w].pc # "poll" /\ worker'[w].id = i => JobView(w, i)'
  BY <1>1, <1>3 DEF Views
<1>8. ASSUME worker'[w] = [pc |-> "delete", batch |-> worker[w].batch, id |-> i],
             entry' = entry
      PROVE  Contract!Step(i)
  <2>1. When(i)' = "none" /\ Data(i)' = NoJob /\ Hands(i)' = {}
    BY <1>5, <1>7, <1>8 DEF JobView
  <2>. QED BY <1>6, <2>1, Finishes
<1>9. CASE HandlerSucceeds(w)
  BY <1>8, <1>9 DEF HandlerSucceeds, TypeOK
<1>10. ASSUME NEW r \in BOOLEAN, NEW p \in Payloads, HandlerFails(w, r, p)
       PROVE  Contract!Step(i)
  <2>1. CASE worker[w].job.attempts + 1 >= MaxAttempts /\ ~r
    BY <1>8, <1>10, <2>1 DEF HandlerFails, TypeOK
  <2>2. CASE ~(worker[w].job.attempts + 1 >= MaxAttempts /\ ~r)
    <3>1. worker[w].job.attempts \in 0 .. MaxAttempts - 1 BY <1>4
    <3>2. PICK made : made = worker[w].job.attempts + 1 OBVIOUS
    <3>3. AttemptsAfter(worker[w].job.attempts, r)
            = IF made < MaxAttempts THEN made ELSE MaxAttempts - 1
      BY <2>2, <3>1, <3>2, AttemptsAsCounted, QueueAssumption
    <3>4. worker'[w] = [worker[w] EXCEPT !.pc = "save",
                          !.job = [payload |-> p,
                                   attempts |-> AttemptsAfter(worker[w].job.attempts, r)]]
      BY <1>10, <2>2 DEF HandlerFails, TypeOK
    <3>5. /\ worker'[w].pc = "save" /\ worker'[w].id = i
          /\ worker'[w].job
               = [payload |-> p,
                  attempts |-> IF made < MaxAttempts THEN made ELSE MaxAttempts - 1]
      BY <1>4, <3>3, <3>4
    <3>6. /\ When(i)' = "later" /\ Hands(i)' = {}
          /\ Data(i)' = [payload |-> p,
                         attempts |-> IF made < MaxAttempts THEN made ELSE MaxAttempts - 1]
      BY <1>7, <3>5 DEF JobView
    <3>7. made = Data(i).attempts + 1 BY <1>6, <3>2
    <3>. QED BY <1>6, <3>6, <3>7, Retries
  <2>. QED BY <2>1, <2>2
<1>11. ASSUME NEW p \in Payloads, NEW at \in Whens, HandlerReschedules(w, p, at)
       PROVE  Contract!Step(i)
  <2>1. /\ worker'[w] = [pc |-> "zadd", batch |-> worker[w].batch, id |-> i, at |-> at]
        /\ job'[i] = NewJob(p)
    BY <1>11 DEF HandlerReschedules, TypeOK
  <2>2. When(i)' = at /\ Data(i)' = NewJob(p) /\ Hands(i)' = {}
    BY <1>7, <2>1 DEF JobView
  <2>. QED BY <1>6, <2>2, Reschedules
<1>. QED BY <1>9, <1>10, <1>11 DEF HandlerReturns

\* The claimed ids a consumer has not come to yet wait unchanged.
LEMMA BatchKept ==
    ASSUME TypeOK, NEW w \in Workers, WorkerInStep(w), WorkerStep(w),
           NEW i \in worker[w].batch, i \in worker'[w].batch
    PROVE  entry'[i] = entry[i] /\ job'[i] = job[i]
<1>1. i \in Ids /\ (worker[w].pc # "poll" => i # worker[w].id)
  BY UseIsIds DEF WorkerIds, WorkerInStep
<1>2. ~\E S \in SUBSET Ids : ClaimDue(w, S) BY DEF ClaimDue
<1>3. ASSUME NEW j \in Ids, LoadJob(w, j) \/ LoadNothing(w, j) \/ LoadFails(w, j)
      PROVE  entry'[i] = entry[i] /\ job'[i] = job[i]
  BY <1>3 DEF LoadJob, LoadNothing, LoadFails
<1>4. ASSUME HandlerReturns(w) \/ FinishJob(w)
      PROVE  entry'[i] = entry[i] /\ job'[i] = job[i]
  BY <1>1, <1>4 DEF HandlerReturns, HandlerSucceeds, HandlerFails, HandlerReschedules,
     FinishJob, RescheduleZAdd, SaveJob, Requeue, DeleteJob, TypeOK
<1>5. ASSUME FinishFails(w) \/ WorkerDies(w)
      PROVE  entry'[i] = entry[i] /\ job'[i] = job[i]
  BY <1>5 DEF FinishFails, WorkerDies
<1>. QED BY <1>2, <1>3, <1>4, <1>5 DEF WorkerStep

LEMMA ContractWorkerStep ==
    ASSUME TypeOK, SequentialInv, JobsInHand, TypeOK', SequentialInv',
           NEW w \in Workers, WorkerStep(w), NEW i \in Ids, i \notin Doubt'
    PROVE  Contract!Step(i) \/ Contract!Same(i)
<1>1. Views /\ Views' BY Viewed, PTL
<1>2. /\ i \notin raced /\ i \notin faulted /\ i \notin raced' /\ i \notin faulted'
      /\ \A v \in Workers \ {w} : worker'[v] = worker[v]
      /\ caller' = caller
  BY WorkerTakes DEF Doubt
<1>3. WorkerInStep(w) /\ JobInHand(w) BY DEF SequentialInv, JobsInHand
<1>4. /\ i \notin InUse => UnusedView(i)
      /\ i \in worker[w].batch => BatchView(w, i)
      /\ worker[w].pc # "poll" /\ worker[w].id = i => JobView(w, i)
  BY <1>1, <1>2 DEF Views
<1>5. /\ i \notin InUse' => UnusedView(i)'
      /\ i \in worker'[w].batch => BatchView(w, i)'
      /\ worker'[w].pc # "poll" /\ worker'[w].id = i => JobView(w, i)'
  BY <1>1, <1>2 DEF Views
<1>6. i \in WorkerIds(w) /\ i \notin WorkerIds(w)' => i \notin InUse'
  BY <1>2, WorkerLetsGo
<1>7. CASE i \notin WorkerIds(w) /\ i \notin WorkerIds(w)'
  BY <1>2, <1>7, WorkerTouches, UnaffectedStays
<1>8. CASE i \in worker[w].batch /\ i \in worker'[w].batch
  <2>1. entry'[i] = entry[i] /\ job'[i] = job[i] BY <1>3, <1>8, BatchKept
  <2>. QED BY <1>4, <1>5, <1>8, <2>1, Stays DEF BatchView
<1>9. CASE /\ i \in WorkerIds(w) \cup WorkerIds(w)'
           /\ ~(i \in worker[w].batch /\ i \in worker'[w].batch)
  <2>1. ASSUME NEW S \in SUBSET Ids, ClaimDue(w, S) PROVE Contract!Step(i)
    <3>1. i \in S BY <1>9, <2>1, WorkerIdsStep
    <3>2. entry[i] = "due" /\ i \notin CallersUse
      BY <1>2, <2>1, <3>1 DEF ClaimDue, Due
    <3>3. i \notin WorkersUse
      BY <1>2, <3>2 DEF SequentialInv, WorkerInStep, WorkersUse
    <3>4. i \notin InUse BY <3>2, <3>3 DEF InUse
    <3>5. job[i] # NoJob
      BY <1>2, <3>2, <3>4 DEF SequentialInv, NoOrphanInSequentialUse
    <3>6. worker'[w].batch = S /\ entry'[i] = "none" /\ job'[i] = job[i]
      BY <2>1, <3>1 DEF ClaimDue, TypeOK
    <3>7. Hands(i) = {} /\ When(i) = "due" /\ Data(i) = job[i]
      BY <1>4, <3>2, <3>4 DEF UnusedView
    <3>8. Hands(i)' = {[by |-> w, job |-> NoJob]} /\ When(i)' = "none" /\ Data(i)' = job[i]
      BY <1>5, <3>1, <3>6 DEF BatchView
    <3>. QED BY <3>5, <3>7, <3>8, Claims
  <2>2. ASSUME NEW j \in Ids, LoadJob(w, j) PROVE Contract!Step(i)
    <3>1. /\ worker[w].pc = "poll" /\ job[j] # NoJob
          /\ worker'[w] = [pc |-> "handle", batch |-> worker[w].batch \ {j},
                           id |-> j, job |-> job[j]]
          /\ entry' = entry /\ job' = job
      BY <2>2 DEF LoadJob, TypeOK
    <3>2. i \in WorkerIds(w) BY <1>9, <2>2, WorkerIdsStep
    <3>3. i \in worker[w].batch BY <3>1, <3>2 DEF WorkerIds
    <3>4. i = j BY <1>9, <3>1, <3>3
    <3>5. Hands(i) = {[by |-> w, job |-> NoJob]} /\ When(i) = entry[i] /\ Data(i) = job[i]
      BY <1>4, <3>3 DEF BatchView
    <3>6. /\ Hands(i)' = {[by |-> w, job |-> job[i]]}
          /\ When(i)' = entry[i] /\ Data(i)' = job[i]
      BY <1>5, <3>1, <3>4 DEF JobView
    <3>. QED BY <3>1, <3>4, <3>5, <3>6, Delivers
  <2>3. ASSUME NEW j \in Ids, LoadNothing(w, j) \/ LoadFails(w, j) PROVE FALSE
    <3>1. i \in WorkerIds(w) BY <1>9, <2>3, WorkerIdsStep
    <3>2. i \in worker[w].batch /\ worker'[w].batch = worker[w].batch \ {j}
      BY <2>3, <3>1 DEF LoadNothing, LoadFails, WorkerIds, TypeOK
    <3>3. i = j BY <1>9, <3>2
    <3>. QED BY <1>2, <1>3, <2>3, <3>2, <3>3 DEF LoadNothing, LoadFails, JobInHand, Doubt
  <2>4. ASSUME HandlerReturns(w) PROVE Contract!Step(i)
    <3>1. i \in WorkerIds(w) /\ i \in WorkerIds(w)' BY <1>9, <2>4, WorkerIdsStep
    <3>2. worker[w].pc = "handle"
      BY <2>4 DEF HandlerReturns, HandlerSucceeds, HandlerFails, HandlerReschedules
    <3>3. worker'[w].batch = worker[w].batch
      <4>1. ASSUME HandlerSucceeds(w) PROVE worker'[w].batch = worker[w].batch
        BY <4>1 DEF HandlerSucceeds, TypeOK
      <4>2. ASSUME NEW p \in Payloads, NEW at \in Whens, HandlerReschedules(w, p, at)
            PROVE  worker'[w].batch = worker[w].batch
        BY <4>2 DEF HandlerReschedules, TypeOK
      <4>3. ASSUME NEW r \in BOOLEAN, NEW p \in Payloads, HandlerFails(w, r, p)
            PROVE  worker'[w].batch = worker[w].batch
        <5>1. worker[w] \in [pc : {"handle"}, batch : SUBSET Ids, id : Ids, job : Job]
          BY <3>2, WorkerCases
        <5>2. CASE worker[w].job.attempts + 1 >= MaxAttempts /\ ~r
          BY <4>3, <5>2 DEF HandlerFails, TypeOK
        <5>3. CASE ~(worker[w].job.attempts + 1 >= MaxAttempts /\ ~r)
          <6>1. worker'[w] = [worker[w] EXCEPT !.pc = "save",
                    !.job = [payload |-> p,
                             attempts |-> AttemptsAfter(worker[w].job.attempts, r)]]
            BY <4>3, <5>3 DEF HandlerFails, TypeOK
          <6>. QED BY <5>1, <6>1
        <5>. QED BY <5>2, <5>3
      <4>. QED BY <2>4, <4>1, <4>2, <4>3 DEF HandlerReturns
    <3>4. i = worker[w].id BY <1>9, <3>1, <3>2, <3>3 DEF WorkerIds
    <3>. QED BY <2>4, <3>4, ContractHandlerReturns
  <2>5. ASSUME FinishJob(w) PROVE Contract!Same(i)
    <3>1. i \in WorkerIds(w) BY <1>9, <2>5, WorkerIdsStep DEF FinishJob
    <3>2. worker[w].pc # "poll" /\ worker'[w].batch = worker[w].batch
      BY <2>5 DEF FinishJob, RescheduleZAdd, SaveJob, Requeue, DeleteJob, TypeOK
    <3>3. i = worker[w].id /\ i \notin worker[w].batch
      BY <1>3, <1>9, <3>1, <3>2 DEF WorkerIds, WorkerInStep
    <3>4. JobView(w, i) BY <1>4, <3>2, <3>3
    <3>5. CASE SaveJob(w)
      <4>1. /\ worker[w].pc = "save" /\ entry' = entry
            /\ worker'[w] = [pc |-> "requeue", batch |-> worker[w].batch, id |-> i]
            /\ job'[i] = worker[w].job
        BY <3>3, <3>5 DEF SaveJob, TypeOK
      <4>2. JobView(w, i)' BY <1>5, <4>1
      <4>. QED BY <3>4, <4>1, <4>2, Stays DEF JobView
    <3>6. CASE RescheduleZAdd(w) \/ Requeue(w) \/ DeleteJob(w)
      <4>1. /\ worker'[w] = [pc |-> "poll", batch |-> worker[w].batch]
            /\ i \notin WorkerIds(w)'
        BY <3>3, <3>6 DEF RescheduleZAdd, Requeue, DeleteJob, TypeOK, WorkerIds
      <4>2. UnusedView(i)' BY <1>5, <1>6, <3>1, <4>1
      <4>3. CASE RescheduleZAdd(w)
        <5>1. worker[w].pc = "zadd" /\ entry'[i] = worker[w].at /\ job' = job
          BY <3>3, <4>3 DEF RescheduleZAdd, TypeOK
        <5>. QED BY <3>4, <4>2, <5>1, Stays DEF JobView, UnusedView
      <4>4. CASE Requeue(w)
        <5>1. worker[w].pc = "requeue" /\ entry'[i] = "later" /\ job' = job
          BY <3>3, <4>4 DEF Requeue, TypeOK
        <5>. QED BY <3>4, <4>2, <5>1, Stays DEF JobView, UnusedView
      <4>5. CASE DeleteJob(w)
        <5>1. worker[w].pc = "delete" /\ entry' = entry /\ job'[i] = NoJob
          BY <3>3, <4>5 DEF DeleteJob, TypeOK
        <5>. QED BY <3>4, <4>2, <5>1, Stays DEF JobView, UnusedView
      <4>. QED BY <3>6, <4>3, <4>4, <4>5
    <3>. QED BY <2>5, <3>5, <3>6 DEF FinishJob
  <2>6. ASSUME FinishFails(w) PROVE FALSE
    <3>1. i \in WorkerIds(w) BY <1>9, <2>6, WorkerIdsStep
    <3>2. worker[w].pc # "poll" /\ worker'[w].batch = worker[w].batch
      BY <2>6 DEF FinishFails, TypeOK
    <3>3. i = worker[w].id BY <1>9, <3>1, <3>2 DEF WorkerIds
    <3>. QED BY <1>2, <2>6, <3>3 DEF FinishFails
  <2>7. ASSUME WorkerDies(w) PROVE FALSE
    <3>1. i \in WorkerIds(w) BY <1>9, <2>7, WorkerIdsStep
    <3>. QED BY <1>2, <2>7, <3>1 DEF WorkerDies
  <2>. QED BY <2>1, <2>2, <2>3, <2>4, <2>5, <2>6, <2>7 DEF WorkerStep
<1>10. worker[w].batch \subseteq WorkerIds(w) BY DEF WorkerIds
<1>. QED BY <1>7, <1>8, <1>9, <1>10

LEMMA ContractDueStep ==
    ASSUME TypeOK, NEW j \in Ids, BecomesDue(j), NEW i \in Ids
    PROVE  Contract!Step(i) \/ Contract!Same(i)
<1>1. /\ AboutToAdd(i)' = AboutToAdd(i)
      /\ AboutToWrite(i)' = AboutToWrite(i)
      /\ Hands(i)' = Hands(i)
  BY Unaffected DEF BecomesDue
<1>2. job' = job BY DEF BecomesDue
<1>3. Data(i)' = Data(i) BY <1>1, <1>2 DEF Data
<1>4. CASE i = j /\ AboutToAdd(i) = {}
  <2>1. entry[i] = "later" /\ entry'[i] = "due" BY <1>4 DEF BecomesDue, TypeOK
  <2>2. When(i) = "later" /\ When(i)' = "due"
    BY <1>1, <1>4, <2>1, PickNone DEF When
  <2>. QED BY <1>1, <1>3, <2>2, IsDue
<1>5. CASE i # j \/ AboutToAdd(i) # {}
  <2>1. i # j => entry'[i] = entry[i] BY DEF BecomesDue, TypeOK
  <2>2. When(i)' = When(i) BY <1>1, <1>5, <2>1 DEF When, Pick
  <2>. QED BY <1>1, <1>3, <2>2, Stays
<1>. QED BY <1>4, <1>5

\* Every step of the queue is one of the contract, or none.
LEMMA ContractStep ==
    /\ TypeOK /\ SequentialInv /\ JobsInHand /\ TypeOK' /\ SequentialInv'
    /\ [Next]_vars
    => Contract!Next
<1> SUFFICES ASSUME TypeOK, SequentialInv, JobsInHand, TypeOK', SequentialInv', [Next]_vars
             PROVE  Contract!Next
  OBVIOUS
<1>1. Doubt \subseteq Doubt'
  <2>1. CASE \E c \in Callers : CallerStep(c) BY <2>1, CallerTakes DEF Doubt
  <2>2. CASE \E w \in Workers : WorkerStep(w) BY <2>2, WorkerTakes DEF Doubt
  <2>3. CASE \E i \in Ids : BecomesDue(i) \/ KeyExpires(i)
    BY <2>3 DEF BecomesDue, KeyExpires, Doubt
  <2>4. CASE UNCHANGED vars BY <2>4 DEF vars, Doubt
  <2>. QED BY <2>1, <2>2, <2>3, <2>4 DEF Next
<1>2. ASSUME NEW i \in Ids, i \notin Doubt' PROVE Contract!Step(i) \/ Contract!Same(i)
  <2>1. CASE \E c \in Callers : CallerStep(c) BY <1>2, <2>1, ContractCallerStep
  <2>2. CASE \E w \in Workers : WorkerStep(w) BY <1>2, <2>2, ContractWorkerStep
  <2>3. CASE \E j \in Ids : BecomesDue(j) BY <2>3, ContractDueStep
  <2>4. ASSUME NEW j \in Ids, KeyExpires(j) PROVE Contract!Same(i)
    <3>1. i # j BY <1>2, <2>4 DEF KeyExpires, Doubt
    <3>2. entry'[i] = entry[i] /\ job'[i] = job[i] /\ caller' = caller /\ worker' = worker
      BY <2>4, <3>1 DEF KeyExpires, TypeOK
    <3>. QED BY <3>2, UnaffectedStays
  <2>5. CASE UNCHANGED vars BY <2>5, UnaffectedStays DEF vars
  <2>. QED BY <2>1, <2>2, <2>3, <2>4, <2>5 DEF Next
<1>. QED BY <1>1, <1>2 DEF Contract!Next

LEMMA ContractInit == Init => Contract!Init
<1> SUFFICES ASSUME Init PROVE Contract!Init
  OBVIOUS
<1>1. \A i \in Ids : AboutToAdd(i) = {} /\ AboutToWrite(i) = {} /\ Hands(i) = {}
  BY DEF Init, AboutToAdd, AboutToWrite, Hands
<1>2. \A i \in Ids : When(i) = "none" /\ Data(i) = NoJob
  BY <1>1, PickNone DEF Init, When, Data
<1>. QED BY <1>1, <1>2 DEF Contract!Init, Init, Doubt

\* What a claim or a handler holds is the job that is stored.
THEOREM ClaimedJobsStay == Spec => []JobsInHand
BY JobsInHandInit, JobsInHandStep, SequentialInit, SequentialStep, TypeCorrect, PTL DEF Spec

\* The commands of Redis, in any order the operations of callers and consumers
\* interleave, failing where they may and cut short by a crash, keep the promise
\* of an atomic queue for every id that is not in doubt: a job comes with its
\* entry, is claimed once, due and with its data, its attempts are counted, and
\* what was cancelled or finished is gone.
THEOREM QueueImplementsContract == Spec => ImplementsContract
<1>1. [Next]_vars /\ TypeOK /\ SequentialInv /\ JobsInHand /\ TypeOK' /\ SequentialInv'
        => [Contract!Next]_(Contract!vars)
  BY ContractStep
<1>2. Spec => []SequentialInv
  BY SequentialInit, SequentialStep, TypeCorrect, PTL DEF Spec
<1>. QED BY <1>1, <1>2, ContractInit, TypeCorrect, ClaimedJobsStay, PTL
     DEF Spec, ImplementsContract, Contract!Spec
=============================================================================
