-------------------------- MODULE DelayQueueProofs --------------------------
(***************************************************************************)
(* Proofs about the delay queue, for any number of ids, callers, consumers *)
(* and faults, any batch size and any limit of attempts.                   *)
(***************************************************************************)
EXTENDS DelayQueue, TLAPS

\* What every action is made of; expanded in the step proofs below.
USE DEF store, Whens, Job, NewJob, IdleCaller, NoFault, Ongoing, Call, Work,
        NextJob, Fault, Begin, ToDelete

\* A caller is in one of the five states of its operations.
LEMMA CallerCases ==
    ASSUME TypeOK, NEW c \in Callers
    PROVE  \/ caller[c] = IdleCaller
           \/ caller[c] \in [pc : {"zadd"}, id : Ids, at : Whens]
           \/ caller[c] \in [pc : {"undo"}, id : Ids]
           \/ caller[c] \in [pc : {"zrem"}, todo : SUBSET Ids]
           \/ caller[c] \in [pc : {"del"}, id : Ids, todo : SUBSET Ids]
    BY DEF TypeOK, CallerStates

\* A consumer is between jobs or at one of the steps of a job.
LEMMA WorkerCases ==
    ASSUME TypeOK, NEW w \in Workers
    PROVE  \/ worker[w] \in [pc : {"poll"}, batch : SUBSET Ids]
           \/ worker[w] \in [pc : {"handle", "save"}, batch : SUBSET Ids, id : Ids, job : Job]
           \/ worker[w] \in [pc : {"zadd"}, batch : SUBSET Ids, id : Ids, at : Whens]
           \/ worker[w] \in [pc : {"requeue", "delete"}, batch : SUBSET Ids, id : Ids]
    BY DEF TypeOK, WorkerStates

\* The attempts stored after a failure stay below the limit.
LEMMA AttemptsBelowLimit ==
    ASSUME NEW made \in 0 .. MaxAttempts - 1, NEW r \in BOOLEAN,
           made + 1 < MaxAttempts \/ r
    PROVE  AttemptsAfter(made, r) \in 0 .. MaxAttempts - 1
    BY QueueAssumption DEF AttemptsAfter

-----------------------------------------------------------------------------
LEMMA TypeInit == Init => TypeOK
    BY QueueAssumption DEF Init, TypeOK, CallerStates, WorkerStates

\* The ids a process uses are ids of the queue.
LEMMA UseIsIds ==
    ASSUME TypeOK
    PROVE  /\ \A c \in Callers : CallerIds(c) \subseteq Ids
           /\ \A w \in Workers : WorkerIds(w) \subseteq Ids
<1>1. ASSUME NEW c \in Callers PROVE CallerIds(c) \subseteq Ids
  BY <1>1, CallerCases DEF CallerIds
<1>2. ASSUME NEW w \in Workers PROVE WorkerIds(w) \subseteq Ids
  BY <1>2, WorkerCases DEF WorkerIds
<1>3. QED BY <1>1, <1>2

LEMMA TypeCallerStep ==
    ASSUME TypeOK, NEW c \in Callers, CallerStep(c)
    PROVE  TypeOK'
<1>1. ASSUME NEW i \in Ids, NEW p \in Payloads, NEW at \in Whens,
             EnqueueSet(c, i, p, at)
      PROVE  TypeOK'
  <2>1. NewJob(p) \in Job BY QueueAssumption
  <2>2. [pc |-> "zadd", id |-> i, at |-> at] \in CallerStates BY DEF CallerStates
  <2>. QED BY <1>1, <2>1, <2>2 DEF EnqueueSet, TypeOK
<1>2. ASSUME NEW i \in Ids, NEW p \in Payloads, NEW at \in Whens,
             EnqueueIfMissing(c, i, p, at)
      PROVE  TypeOK'
  <2>1. NewJob(p) \in Job BY QueueAssumption
  <2>. QED BY <1>2, <2>1 DEF EnqueueIfMissing, TypeOK
<1>3. ASSUME NEW S \in SUBSET Ids, RemoveBegin(c, S) PROVE TypeOK'
  BY <1>3 DEF RemoveBegin, TypeOK, CallerStates
<1>4. CASE EnqueueZAdd(c)
  BY <1>4, CallerCases DEF EnqueueZAdd, TypeOK, CallerStates
<1>5. CASE EnqueueUndo(c)
  <2>1. caller[c].id \in Ids /\ NoJob \in Job \cup {NoJob}
    BY <1>5, CallerCases DEF EnqueueUndo
  <2>2. job' \in [Ids -> Job \cup {NoJob}] BY <1>5, <2>1 DEF EnqueueUndo, TypeOK
  <2>3. faults' \in 0 .. MaxFaults /\ faulted' \subseteq Ids
    BY <1>5, <2>1, QueueAssumption DEF EnqueueUndo, TypeOK
  <2>. QED BY <1>5, <2>2, <2>3 DEF EnqueueUndo, TypeOK, CallerStates
<1>6. ASSUME NEW i \in Ids, RemoveZRem(c, i) PROVE TypeOK'
  BY <1>6, CallerCases DEF RemoveZRem, TypeOK, CallerStates
<1>7. CASE RemoveDel(c)
  BY <1>7, CallerCases DEF RemoveDel, TypeOK, CallerStates
<1>8. CASE EnqueueZAddFails(c)
  BY <1>8, CallerCases, QueueAssumption DEF EnqueueZAddFails, TypeOK, CallerStates
<1>9. CASE RemoveFails(c) \/ CallerDies(c)
  BY <1>9, UseIsIds, QueueAssumption DEF RemoveFails, CallerDies, TypeOK, CallerStates
<1>. QED BY <1>1, <1>2, <1>3, <1>4, <1>5, <1>6, <1>7, <1>8, <1>9
     DEF CallerStep, Remove, RemoveByPrefix

LEMMA TypeWorkerStep ==
    ASSUME TypeOK, NEW w \in Workers, WorkerStep(w)
    PROVE  TypeOK'
<1>1. ASSUME NEW S \in SUBSET Ids, ClaimDue(w, S) PROVE TypeOK'
  BY <1>1, UseIsIds DEF ClaimDue, TypeOK, WorkerStates, CallersUse
<1>2. ASSUME NEW i \in Ids, LoadJob(w, i) PROVE TypeOK'
  BY <1>2, WorkerCases DEF LoadJob, TypeOK, WorkerStates
<1>3. ASSUME NEW i \in Ids, LoadNothing(w, i) \/ LoadFails(w, i) PROVE TypeOK'
  BY <1>3, WorkerCases, QueueAssumption
  DEF LoadNothing, LoadFails, TypeOK, WorkerStates
<1>4. CASE HandlerSucceeds(w)
  BY <1>4, WorkerCases DEF HandlerSucceeds, TypeOK, WorkerStates
<1>5. ASSUME NEW r \in BOOLEAN, NEW p \in Payloads, HandlerFails(w, r, p)
      PROVE  TypeOK'
  <2>1. worker[w] \in [pc : {"handle"}, batch : SUBSET Ids, id : Ids, job : Job]
    BY <1>5, WorkerCases DEF HandlerFails
  <2>2. worker'[w] \in WorkerStates
    <3>1. CASE worker[w].job.attempts + 1 >= MaxAttempts /\ ~r
      BY <1>5, <2>1, <3>1 DEF HandlerFails, WorkerStates, TypeOK
    <3>2. CASE ~(worker[w].job.attempts + 1 >= MaxAttempts /\ ~r)
      <4>1. worker[w].job.attempts \in 0 .. MaxAttempts - 1 BY <2>1
      <4>2. AttemptsAfter(worker[w].job.attempts, r) \in 0 .. MaxAttempts - 1
        BY <4>1, <3>2, AttemptsBelowLimit, QueueAssumption
      <4>3. worker'[w] = [worker[w] EXCEPT !.pc = "save",
                            !.job = [payload |-> p,
                                     attempts |-> AttemptsAfter(worker[w].job.attempts, r)]]
        BY <1>5, <3>2 DEF HandlerFails, TypeOK
      <4>4. [payload |-> p, attempts |-> AttemptsAfter(worker[w].job.attempts, r)] \in Job
        BY <4>2
      <4>5. worker'[w] \in [pc : {"save"}, batch : SUBSET Ids, id : Ids, job : Job]
        BY <2>1, <4>3, <4>4
      <4>. QED BY <4>5 DEF WorkerStates
    <3>. QED BY <3>1, <3>2
  <2>. QED BY <1>5, <2>2 DEF HandlerFails, TypeOK
<1>6. ASSUME NEW p \in Payloads, NEW at \in Whens, HandlerReschedules(w, p, at)
      PROVE  TypeOK'
  <2>1. NewJob(p) \in Job BY QueueAssumption
  <2>. QED BY <1>6, <2>1, WorkerCases DEF HandlerReschedules, TypeOK, WorkerStates
<1>7. CASE RescheduleZAdd(w)
  BY <1>7, WorkerCases DEF RescheduleZAdd, TypeOK, WorkerStates
<1>8. CASE SaveJob(w)
  BY <1>8, WorkerCases DEF SaveJob, TypeOK, WorkerStates
<1>9. CASE Requeue(w)
  BY <1>9, WorkerCases DEF Requeue, TypeOK, WorkerStates
<1>10. CASE DeleteJob(w)
  BY <1>10, WorkerCases DEF DeleteJob, TypeOK, WorkerStates
<1>11. CASE FinishFails(w)
  BY <1>11, WorkerCases, QueueAssumption DEF FinishFails, TypeOK, WorkerStates
<1>12. CASE WorkerDies(w)
  BY <1>12, UseIsIds, QueueAssumption DEF WorkerDies, TypeOK, WorkerStates
<1>. QED BY <1>1, <1>2, <1>3, <1>4, <1>5, <1>6, <1>7, <1>8, <1>9, <1>10, <1>11, <1>12
     DEF WorkerStep, HandlerReturns, FinishJob

\* Every stored job keeps its attempts below the limit, and every process is
\* at a step its code has.
THEOREM TypeCorrect == Spec => []TypeOK
<1>1. TypeOK /\ [Next]_vars => TypeOK'
  <2> SUFFICES ASSUME TypeOK, [Next]_vars PROVE TypeOK'
    OBVIOUS
  <2>1. ASSUME NEW i \in Ids, BecomesDue(i) PROVE TypeOK'
    BY <2>1 DEF BecomesDue, TypeOK
  <2>2. ASSUME NEW i \in Ids, KeyExpires(i) PROVE TypeOK'
    BY <2>2, QueueAssumption DEF KeyExpires, TypeOK
  <2>3. CASE UNCHANGED vars
    BY <2>3 DEF vars, TypeOK
  <2>. QED BY <2>1, <2>2, <2>3, TypeCallerStep, TypeWorkerStep DEF Next
<1>2. QED BY TypeInit, <1>1, PTL DEF Spec

-----------------------------------------------------------------------------
(* Who uses an id after a step: the stepping process is the only one whose *)
(* ids change.                                                             *)

LEMMA CallUse ==
    ASSUME TypeOK, NEW c \in Callers, NEW s, Call(c, s)
    PROVE  /\ \A d \in Callers \ {c} : CallerIds(d)' = CallerIds(d)
           /\ \A w \in Workers : WorkerIds(w)' = WorkerIds(w)
           /\ CallerIds(c)' \subseteq InUse'
           /\ InUse \ CallerIds(c) \subseteq InUse'
           /\ InUse' \ CallerIds(c)' \subseteq InUse
<1>1. \A d \in Callers \ {c} : CallerIds(d)' = CallerIds(d)
  BY DEF TypeOK, CallerIds
<1>2. \A w \in Workers : WorkerIds(w)' = WorkerIds(w)
  BY DEF WorkerIds
<1>3. CallerIds(c)' \subseteq InUse'
  BY DEF InUse, CallersUse
<1>4. InUse \ CallerIds(c) \subseteq InUse'
  BY <1>1, <1>2 DEF InUse, CallersUse, WorkersUse
<1>5. InUse' \ CallerIds(c)' \subseteq InUse
  BY <1>1, <1>2 DEF InUse, CallersUse, WorkersUse
<1>. QED BY <1>1, <1>2, <1>3, <1>4, <1>5

LEMMA WorkUse ==
    ASSUME TypeOK, NEW w \in Workers, NEW s, Work(w, s)
    PROVE  /\ \A v \in Workers \ {w} : WorkerIds(v)' = WorkerIds(v)
           /\ \A c \in Callers : CallerIds(c)' = CallerIds(c)
           /\ WorkerIds(w)' \subseteq InUse'
           /\ InUse \ WorkerIds(w) \subseteq InUse'
           /\ InUse' \ WorkerIds(w)' \subseteq InUse
<1>1. \A v \in Workers \ {w} : WorkerIds(v)' = WorkerIds(v)
  BY DEF TypeOK, WorkerIds
<1>2. \A c \in Callers : CallerIds(c)' = CallerIds(c)
  BY DEF CallerIds
<1>3. WorkerIds(w)' \subseteq InUse'
  BY DEF InUse, WorkersUse
<1>4. InUse \ WorkerIds(w) \subseteq InUse'
  BY <1>1, <1>2 DEF InUse, CallersUse, WorkersUse
<1>5. InUse' \ WorkerIds(w)' \subseteq InUse
  BY <1>1, <1>2 DEF InUse, CallersUse, WorkersUse
<1>. QED BY <1>1, <1>2, <1>3, <1>4, <1>5

\* What each step does to the ids of its own process.
LEMMA CallerIdsStep ==
    ASSUME TypeOK, NEW c \in Callers
    PROVE  /\ \A i \in Ids, p \in Payloads, at \in Whens :
                EnqueueSet(c, i, p, at) => CallerIds(c) = {} /\ CallerIds(c)' = {i}
           /\ \A S \in SUBSET Ids :
                RemoveBegin(c, S) => CallerIds(c) = {} /\ CallerIds(c)' = S
           /\ EnqueueZAdd(c) \/ EnqueueUndo(c)
                => CallerIds(c) = {caller[c].id} /\ CallerIds(c)' = {}
           /\ EnqueueZAddFails(c) => CallerIds(c)' = CallerIds(c)
           /\ \A i \in Ids : RemoveZRem(c, i) => CallerIds(c)' = CallerIds(c)
           /\ RemoveDel(c)
                => /\ CallerIds(c) = {caller[c].id} \cup caller[c].todo
                   /\ CallerIds(c)' = caller[c].todo
           /\ RemoveFails(c) \/ CallerDies(c) => CallerIds(c)' = {}
<1>1. /\ \A i \in Ids, p \in Payloads, at \in Whens :
           EnqueueSet(c, i, p, at) => CallerIds(c) = {} /\ CallerIds(c)' = {i}
      /\ \A S \in SUBSET Ids :
           RemoveBegin(c, S) => CallerIds(c) = {} /\ CallerIds(c)' = S
  BY DEF EnqueueSet, RemoveBegin, TypeOK, CallerIds
<1>2. EnqueueZAdd(c) \/ EnqueueUndo(c)
        => CallerIds(c) = {caller[c].id} /\ CallerIds(c)' = {}
  BY DEF EnqueueZAdd, EnqueueUndo, TypeOK, CallerIds
<1>3. EnqueueZAddFails(c) => CallerIds(c)' = CallerIds(c)
  BY DEF EnqueueZAddFails, TypeOK, CallerIds
<1>4. ASSUME NEW i \in Ids, RemoveZRem(c, i)
      PROVE  CallerIds(c)' = CallerIds(c)
  BY <1>4 DEF RemoveZRem, TypeOK, CallerIds
<1>5. ASSUME RemoveDel(c)
      PROVE  /\ CallerIds(c) = {caller[c].id} \cup caller[c].todo
             /\ CallerIds(c)' = caller[c].todo
  <2>1. CASE caller[c].todo = {}
    BY <1>5, <2>1 DEF RemoveDel, TypeOK, CallerIds
  <2>2. CASE caller[c].todo # {}
    BY <1>5, <2>2 DEF RemoveDel, TypeOK, CallerIds
  <2>. QED BY <2>1, <2>2
<1>6. RemoveFails(c) \/ CallerDies(c) => CallerIds(c)' = {}
  BY DEF RemoveFails, CallerDies, TypeOK, CallerIds
<1>. QED BY <1>1, <1>2, <1>3, <1>4, <1>5, <1>6

LEMMA WorkerIdsStep ==
    ASSUME TypeOK, NEW w \in Workers
    PROVE  /\ \A S \in SUBSET Ids :
                ClaimDue(w, S) => WorkerIds(w) = {} /\ WorkerIds(w)' = S
           /\ \A i \in Ids : LoadJob(w, i) => WorkerIds(w)' = WorkerIds(w)
           /\ \A i \in Ids : LoadNothing(w, i) \/ LoadFails(w, i)
                => WorkerIds(w)' = WorkerIds(w) \ {i}
           /\ HandlerReturns(w) \/ SaveJob(w) => WorkerIds(w)' = WorkerIds(w)
           /\ RescheduleZAdd(w) \/ Requeue(w) \/ DeleteJob(w) \/ FinishFails(w)
                => WorkerIds(w)' \subseteq WorkerIds(w)
                     /\ WorkerIds(w) \subseteq WorkerIds(w)' \cup {worker[w].id}
           /\ WorkerDies(w) => WorkerIds(w)' = {}
<1>1. ASSUME NEW S \in SUBSET Ids, ClaimDue(w, S)
      PROVE  WorkerIds(w) = {} /\ WorkerIds(w)' = S
  BY <1>1 DEF ClaimDue, TypeOK, WorkerIds
<1>2. ASSUME NEW i \in Ids, LoadJob(w, i) PROVE WorkerIds(w)' = WorkerIds(w)
  BY <1>2 DEF LoadJob, TypeOK, WorkerIds
<1>3. ASSUME NEW i \in Ids, LoadNothing(w, i) \/ LoadFails(w, i)
      PROVE  WorkerIds(w)' = WorkerIds(w) \ {i}
  BY <1>3 DEF LoadNothing, LoadFails, TypeOK, WorkerIds
<1>4. ASSUME HandlerSucceeds(w) \/ SaveJob(w)
      PROVE  WorkerIds(w)' = WorkerIds(w)
  BY <1>4 DEF HandlerSucceeds, SaveJob, TypeOK, WorkerIds
<1>5. ASSUME NEW p \in Payloads, NEW at \in Whens, HandlerReschedules(w, p, at)
      PROVE  WorkerIds(w)' = WorkerIds(w)
  BY <1>5 DEF HandlerReschedules, TypeOK, WorkerIds
<1>6. ASSUME NEW r \in BOOLEAN, NEW p \in Payloads, HandlerFails(w, r, p)
      PROVE  WorkerIds(w)' = WorkerIds(w)
  <2>1. worker[w] \in [pc : {"handle"}, batch : SUBSET Ids, id : Ids, job : Job]
    BY <1>6, WorkerCases DEF HandlerFails
  <2>2. CASE worker[w].job.attempts + 1 >= MaxAttempts /\ ~r
    BY <1>6, <2>1, <2>2 DEF HandlerFails, TypeOK, WorkerIds
  <2>3. CASE ~(worker[w].job.attempts + 1 >= MaxAttempts /\ ~r)
    <3>1. worker'[w] = [worker[w] EXCEPT !.pc = "save",
                          !.job = [payload |-> p,
                                   attempts |-> AttemptsAfter(worker[w].job.attempts, r)]]
      BY <1>6, <2>3 DEF HandlerFails, TypeOK
    <3>2. /\ worker'[w].pc = "save"
          /\ worker'[w].batch = worker[w].batch
          /\ worker'[w].id = worker[w].id
      BY <3>1, <2>1
    <3>. QED BY <3>2, <2>1 DEF WorkerIds
  <2>. QED BY <2>2, <2>3
<1>7. ASSUME RescheduleZAdd(w) \/ Requeue(w) \/ DeleteJob(w) \/ FinishFails(w)
      PROVE  /\ WorkerIds(w)' \subseteq WorkerIds(w)
             /\ WorkerIds(w) \subseteq WorkerIds(w)' \cup {worker[w].id}
  BY <1>7 DEF RescheduleZAdd, Requeue, DeleteJob, FinishFails, TypeOK, WorkerIds
<1>8. ASSUME WorkerDies(w) PROVE WorkerIds(w)' = {}
  BY <1>8 DEF WorkerDies, TypeOK, WorkerIds
<1>. QED BY <1>1, <1>2, <1>3, <1>4, <1>5, <1>6, <1>7, <1>8 DEF HandlerReturns

-----------------------------------------------------------------------------
(* No payload is left behind without a failure.                            *)

LEMMA StrandedCallerStep ==
    ASSUME TypeOK, NoStrandedJob, NEW c \in Callers, CallerStep(c)
    PROVE  NoStrandedJob'
<1>1. SUFFICES ASSUME NEW i \in Ids, job'[i] # NoJob, entry'[i] = "none",
                      i \notin faulted'
               PROVE  i \in InUse'
  BY DEF NoStrandedJob
<1>2. job[i] # NoJob /\ entry[i] = "none" => i \in InUse \/ i \in faulted
  BY DEF NoStrandedJob
<1>3. ASSUME NEW j \in Ids, NEW p \in Payloads, NEW at \in Whens,
             EnqueueSet(c, j, p, at)
      PROVE  i \in InUse'
  <2>1. CASE i = j
    BY <1>3, <2>1, CallUse, CallerIdsStep DEF EnqueueSet
  <2>2. CASE i # j
    BY <1>1, <1>2, <1>3, <2>2, CallUse, CallerIdsStep DEF EnqueueSet, TypeOK
  <2>. QED BY <2>1, <2>2
<1>4. ASSUME NEW j \in Ids, NEW p \in Payloads, NEW at \in Whens,
             EnqueueIfMissing(c, j, p, at)
      PROVE  i \in InUse'
  <2>1. InUse' = InUse
    BY <1>4 DEF EnqueueIfMissing, InUse, CallersUse, WorkersUse, CallerIds, WorkerIds
  <2>2. i # j BY <1>1, <1>4 DEF EnqueueIfMissing, TypeOK
  <2>. QED BY <1>1, <1>2, <1>4, <2>1, <2>2 DEF EnqueueIfMissing, TypeOK
<1>5. ASSUME NEW S \in SUBSET Ids, RemoveBegin(c, S) PROVE i \in InUse'
  BY <1>1, <1>2, <1>5, CallUse, CallerIdsStep DEF RemoveBegin
<1>6. ASSUME EnqueueZAdd(c) PROVE i \in InUse'
  <2>1. i # caller[c].id BY <1>1, <1>6, CallerCases DEF EnqueueZAdd, TypeOK
  <2>. QED BY <1>1, <1>2, <1>6, <2>1, CallUse, CallerIdsStep DEF EnqueueZAdd, TypeOK
<1>7. ASSUME EnqueueUndo(c) PROVE i \in InUse'
  <2>1. i # caller[c].id BY <1>1, <1>7, CallerCases DEF EnqueueUndo, TypeOK
  <2>2. job'[i] = job[i] /\ entry' = entry /\ faulted \subseteq faulted'
    BY <1>7, <2>1 DEF EnqueueUndo, TypeOK
  <2>3. i \in InUse \ CallerIds(c)
    BY <1>1, <1>2, <1>7, <2>1, <2>2, CallerIdsStep
  <2>. QED BY <1>7, <2>3, CallUse DEF EnqueueUndo
<1>8. ASSUME EnqueueZAddFails(c) PROVE i \in InUse'
  BY <1>1, <1>2, <1>8, CallUse, CallerIdsStep DEF EnqueueZAddFails
<1>9. ASSUME NEW j \in Ids, RemoveZRem(c, j) PROVE i \in InUse'
  <2>1. j \in CallerIds(c) BY <1>9 DEF RemoveZRem, CallerIds
  <2>2. CASE i = j
    BY <1>9, <2>1, <2>2, CallUse, CallerIdsStep DEF RemoveZRem
  <2>3. CASE i # j
    BY <1>1, <1>2, <1>9, <2>3, CallUse, CallerIdsStep DEF RemoveZRem, TypeOK
  <2>. QED BY <2>2, <2>3
<1>10. ASSUME RemoveDel(c) PROVE i \in InUse'
  <2>1. i # caller[c].id BY <1>1, <1>10, CallerCases DEF RemoveDel, TypeOK
  <2>2. i \in InUse BY <1>1, <1>2, <1>10, <2>1 DEF RemoveDel, TypeOK
  <2>. QED BY <1>10, <2>1, <2>2, CallUse, CallerIdsStep DEF RemoveDel
<1>11. ASSUME RemoveFails(c) \/ CallerDies(c) PROVE i \in InUse'
  BY <1>1, <1>2, <1>11, CallUse DEF RemoveFails, CallerDies
<1>. QED BY <1>3, <1>4, <1>5, <1>6, <1>7, <1>8, <1>9, <1>10, <1>11
     DEF CallerStep, Remove, RemoveByPrefix

LEMMA StrandedWorkerStep ==
    ASSUME TypeOK, NoStrandedJob, NEW w \in Workers, WorkerStep(w)
    PROVE  NoStrandedJob'
<1>1. SUFFICES ASSUME NEW i \in Ids, job'[i] # NoJob, entry'[i] = "none",
                      i \notin faulted'
               PROVE  i \in InUse'
  BY DEF NoStrandedJob
<1>2. job[i] # NoJob /\ entry[i] = "none" => i \in InUse \/ i \in faulted
  BY DEF NoStrandedJob
<1>3. ASSUME NEW S \in SUBSET Ids, ClaimDue(w, S) PROVE i \in InUse'
  <2>1. WorkerIds(w) = {} /\ WorkerIds(w)' = S BY <1>3, WorkerIdsStep
  <2>2. S \subseteq InUse' /\ InUse \subseteq InUse'
    BY <1>3, <2>1, WorkUse DEF ClaimDue
  <2>3. i \notin S => entry[i] = "none" /\ job'[i] = job[i] /\ faulted' = faulted
    BY <1>1, <1>3 DEF ClaimDue
  <2>. QED BY <1>1, <1>2, <2>2, <2>3
<1>4. ASSUME NEW j \in Ids, LoadJob(w, j) PROVE i \in InUse'
  <2>1. WorkerIds(w)' = WorkerIds(w) BY <1>4, WorkerIdsStep
  <2>2. InUse \subseteq InUse' BY <1>4, <2>1, WorkUse DEF LoadJob
  <2>. QED BY <1>1, <1>2, <1>4, <2>2 DEF LoadJob
<1>5. ASSUME NEW j \in Ids, LoadNothing(w, j) \/ LoadFails(w, j)
      PROVE  i \in InUse'
  <2>1. i # j BY <1>1, <1>5 DEF LoadNothing, LoadFails
  <2>2. WorkerIds(w)' = WorkerIds(w) \ {j} BY <1>5, WorkerIdsStep
  <2>3. InUse \ {j} \subseteq InUse'
    BY <1>5, <2>2, WorkUse DEF LoadNothing, LoadFails
  <2>. QED BY <1>1, <1>2, <1>5, <2>1, <2>3 DEF LoadNothing, LoadFails
<1>7. ASSUME HandlerReturns(w) PROVE i \in InUse'
  <2>1. WorkerIds(w)' = WorkerIds(w) BY <1>7, WorkerIdsStep
  <2>2. InUse \subseteq InUse'
    BY <1>7, <2>1, WorkUse
    DEF HandlerReturns, HandlerSucceeds, HandlerFails, HandlerReschedules
  <2>3. CASE i \in WorkerIds(w)
    BY <2>2, <2>3 DEF InUse, WorkersUse
  <2>4. CASE i \notin WorkerIds(w)
    <3>1. i # worker[w].id
      BY <1>7, <2>4, WorkerCases
      DEF HandlerReturns, HandlerSucceeds, HandlerFails, HandlerReschedules, WorkerIds
    <3>2. job'[i] = job[i] /\ entry' = entry /\ faulted' = faulted
      BY <1>7, <3>1 DEF HandlerReturns, HandlerSucceeds, HandlerFails,
                        HandlerReschedules, TypeOK
    <3>. QED BY <1>1, <1>2, <2>2, <3>2
  <2>. QED BY <2>3, <2>4
<1>8. ASSUME RescheduleZAdd(w) \/ Requeue(w) PROVE i \in InUse'
  <2>1. i # worker[w].id /\ entry[i] = "none" /\ job' = job /\ faulted' = faulted
    BY <1>1, <1>8, WorkerCases DEF RescheduleZAdd, Requeue, TypeOK
  <2>. QED BY <1>1, <1>2, <1>8, <2>1, WorkUse, WorkerIdsStep
       DEF RescheduleZAdd, Requeue
<1>9. ASSUME SaveJob(w) PROVE i \in InUse'
  <2>1. WorkerIds(w)' = WorkerIds(w) BY <1>9, WorkerIdsStep
  <2>2. InUse \subseteq InUse' BY <1>9, <2>1, WorkUse DEF SaveJob
  <2>3. worker[w].id \in InUse
    BY <1>9 DEF SaveJob, InUse, WorkersUse, WorkerIds
  <2>4. i # worker[w].id => job'[i] = job[i] /\ entry' = entry /\ faulted' = faulted
    BY <1>9 DEF SaveJob, TypeOK
  <2>. QED BY <1>1, <1>2, <2>2, <2>3, <2>4
<1>10. ASSUME DeleteJob(w) PROVE i \in InUse'
  <2>1. i # worker[w].id BY <1>1, <1>10, WorkerCases DEF DeleteJob, TypeOK
  <2>2. i \in InUse BY <1>1, <1>2, <1>10, <2>1 DEF DeleteJob, TypeOK
  <2>. QED BY <1>10, <2>1, <2>2, WorkUse, WorkerIdsStep DEF DeleteJob
<1>11. ASSUME FinishFails(w) PROVE i \in InUse'
  <2>1. i # worker[w].id BY <1>1, <1>11 DEF FinishFails
  <2>2. i \in InUse BY <1>1, <1>2, <1>11 DEF FinishFails
  <2>. QED BY <1>11, <2>1, <2>2, WorkUse, WorkerIdsStep DEF FinishFails
<1>12. ASSUME WorkerDies(w) PROVE i \in InUse'
  BY <1>1, <1>2, <1>12, WorkUse DEF WorkerDies
<1>. QED BY <1>3, <1>4, <1>5, <1>7, <1>8, <1>9, <1>10, <1>11, <1>12
     DEF WorkerStep, FinishJob

\* However operations overlap, a payload without an entry is in somebody's
\* hands or something failed on its id.
THEOREM NoPayloadLeftBehind == Spec => []NoStrandedJob
<1>1. Init => NoStrandedJob
  BY DEF Init, NoStrandedJob
<1>2. TypeOK /\ NoStrandedJob /\ [Next]_vars => NoStrandedJob'
  <2> SUFFICES ASSUME TypeOK, NoStrandedJob, [Next]_vars PROVE NoStrandedJob'
    OBVIOUS
  <2>1. ASSUME NEW j \in Ids, BecomesDue(j) PROVE NoStrandedJob'
    BY <2>1 DEF BecomesDue, TypeOK, NoStrandedJob, InUse, CallersUse, WorkersUse,
                CallerIds, WorkerIds
  <2>2. ASSUME NEW j \in Ids, KeyExpires(j) PROVE NoStrandedJob'
    BY <2>2 DEF KeyExpires, TypeOK, NoStrandedJob, InUse, CallersUse, WorkersUse,
                CallerIds, WorkerIds
  <2>3. CASE UNCHANGED vars
    BY <2>3 DEF vars, NoStrandedJob, InUse, CallersUse, WorkersUse, CallerIds, WorkerIds
  <2>. QED BY <2>1, <2>2, <2>3, StrandedCallerStep, StrandedWorkerStep DEF Next
<1>. QED BY <1>1, <1>2, TypeCorrect, PTL DEF Spec

-----------------------------------------------------------------------------
(* An id used by one process at a time.                                    *)

\* A step writes the entry and the job only of ids its process uses.
LEMMA CallerTouches ==
    ASSUME TypeOK, NEW c \in Callers, CallerStep(c),
           NEW i \in Ids, i \notin CallerIds(c), i \notin CallerIds(c)'
    PROVE  \/ entry'[i] = entry[i] /\ job'[i] = job[i]
           \/ \E p \in Payloads, at \in Whens : EnqueueIfMissing(c, i, p, at)
<1>1. ASSUME NEW j \in Ids, NEW p \in Payloads, NEW at \in Whens, EnqueueSet(c, j, p, at)
      PROVE  entry'[i] = entry[i] /\ job'[i] = job[i]
  <2>1. i # j BY <1>1, CallerIdsStep
  <2>. QED BY <1>1, <2>1 DEF EnqueueSet, TypeOK
<1>2. ASSUME NEW j \in Ids, NEW p \in Payloads, NEW at \in Whens,
             EnqueueIfMissing(c, j, p, at), i # j
      PROVE  entry'[i] = entry[i] /\ job'[i] = job[i]
  BY <1>2 DEF EnqueueIfMissing, TypeOK
<1>3. ASSUME NEW S \in SUBSET Ids, RemoveBegin(c, S)
      PROVE  entry'[i] = entry[i] /\ job'[i] = job[i]
  BY <1>3 DEF RemoveBegin
<1>4. ASSUME EnqueueZAdd(c) \/ EnqueueUndo(c)
      PROVE  entry'[i] = entry[i] /\ job'[i] = job[i]
  <2>1. i # caller[c].id BY <1>4, CallerIdsStep
  <2>. QED BY <1>4, <2>1 DEF EnqueueZAdd, EnqueueUndo, TypeOK
<1>5. ASSUME NEW j \in Ids, RemoveZRem(c, j)
      PROVE  entry'[i] = entry[i] /\ job'[i] = job[i]
  <2>1. j \in CallerIds(c) BY <1>5 DEF RemoveZRem, CallerIds
  <2>. QED BY <1>5, <2>1 DEF RemoveZRem, TypeOK
<1>6. ASSUME RemoveDel(c)
      PROVE  entry'[i] = entry[i] /\ job'[i] = job[i]
  <2>1. i # caller[c].id BY <1>6, CallerIdsStep
  <2>. QED BY <1>6, <2>1 DEF RemoveDel, TypeOK
<1>7. ASSUME EnqueueZAddFails(c) \/ RemoveFails(c) \/ CallerDies(c)
      PROVE  entry'[i] = entry[i] /\ job'[i] = job[i]
  BY <1>7 DEF EnqueueZAddFails, RemoveFails, CallerDies
<1>. QED BY <1>1, <1>2, <1>3, <1>4, <1>5, <1>6, <1>7
     DEF CallerStep, Remove, RemoveByPrefix

LEMMA WorkerTouches ==
    ASSUME TypeOK, NEW w \in Workers, WorkerStep(w),
           NEW i \in Ids, i \notin WorkerIds(w), i \notin WorkerIds(w)'
    PROVE  entry'[i] = entry[i] /\ job'[i] = job[i]
<1>1. ASSUME NEW S \in SUBSET Ids, ClaimDue(w, S)
      PROVE  entry'[i] = entry[i] /\ job'[i] = job[i]
  <2>1. i \notin S BY <1>1, WorkerIdsStep
  <2>. QED BY <1>1, <2>1 DEF ClaimDue
<1>2. ASSUME NEW j \in Ids, LoadJob(w, j) \/ LoadNothing(w, j) \/ LoadFails(w, j)
      PROVE  entry'[i] = entry[i] /\ job'[i] = job[i]
  BY <1>2 DEF LoadJob, LoadNothing, LoadFails
<1>3. worker[w].pc # "poll" => i # worker[w].id
  BY DEF WorkerIds
<1>4. ASSUME HandlerReturns(w) \/ FinishJob(w)
      PROVE  entry'[i] = entry[i] /\ job'[i] = job[i]
  BY <1>3, <1>4 DEF HandlerReturns, HandlerSucceeds, HandlerFails, HandlerReschedules,
     FinishJob, RescheduleZAdd, SaveJob, Requeue, DeleteJob, TypeOK
<1>5. ASSUME FinishFails(w) \/ WorkerDies(w)
      PROVE  entry'[i] = entry[i] /\ job'[i] = job[i]
  BY <1>5 DEF FinishFails, WorkerDies
<1>. QED BY <1>1, <1>2, <1>4, <1>5 DEF WorkerStep

\* A caller takes up new ids only where it marks those in use as raced.
LEMMA CallerTakes ==
    ASSUME TypeOK, NEW c \in Callers, CallerStep(c)
    PROVE  /\ raced \subseteq raced' /\ faulted \subseteq faulted'
           /\ (CallerIds(c)' \ CallerIds(c)) \cap InUse \subseteq raced'
           /\ \A d \in Callers \ {c} : caller'[d] = caller[d]
           /\ worker' = worker
<1>1. raced \subseteq raced' /\ faulted \subseteq faulted'
  BY DEF CallerStep, EnqueueSet, EnqueueIfMissing, Remove, RemoveByPrefix, RemoveBegin,
     EnqueueZAdd, EnqueueUndo, RemoveZRem, RemoveDel, EnqueueZAddFails, RemoveFails, CallerDies
<1>2. (CallerIds(c)' \ CallerIds(c)) \cap InUse \subseteq raced'
  <2>1. ASSUME NEW j \in Ids, NEW p \in Payloads, NEW at \in Whens, EnqueueSet(c, j, p, at)
        PROVE  (CallerIds(c)' \ CallerIds(c)) \cap InUse \subseteq raced'
    <3>1. CallerIds(c)' = {j} BY <2>1, CallerIdsStep
    <3>. QED BY <2>1, <3>1 DEF EnqueueSet
  <2>2. ASSUME NEW S \in SUBSET Ids, RemoveBegin(c, S)
        PROVE  (CallerIds(c)' \ CallerIds(c)) \cap InUse \subseteq raced'
    <3>1. CallerIds(c)' = S BY <2>2, CallerIdsStep
    <3>. QED BY <2>2, <3>1 DEF RemoveBegin
  <2>3. ASSUME NEW j \in Ids, NEW p \in Payloads, NEW at \in Whens,
               EnqueueIfMissing(c, j, p, at)
        PROVE  CallerIds(c)' = CallerIds(c)
    BY <2>3 DEF EnqueueIfMissing, CallerIds
  <2>4. ASSUME \/ EnqueueZAdd(c) \/ EnqueueUndo(c) \/ EnqueueZAddFails(c) \/ RemoveDel(c)
               \/ RemoveFails(c) \/ CallerDies(c) \/ \E i \in Ids : RemoveZRem(c, i)
        PROVE  CallerIds(c)' \subseteq CallerIds(c)
    BY <2>4, CallerIdsStep
  <2>. QED BY <2>1, <2>2, <2>3, <2>4 DEF CallerStep, Remove, RemoveByPrefix
<1>3. /\ \A d \in Callers \ {c} : caller'[d] = caller[d]
      /\ worker' = worker
  BY DEF CallerStep, EnqueueSet, EnqueueIfMissing, Remove, RemoveByPrefix, RemoveBegin,
     EnqueueZAdd, EnqueueUndo, RemoveZRem, RemoveDel, EnqueueZAddFails, RemoveFails,
     CallerDies, TypeOK
<1>. QED BY <1>1, <1>2, <1>3

\* A consumer takes up new ids only by a claim, of ids that have an entry.
LEMMA WorkerTakes ==
    ASSUME TypeOK, NEW w \in Workers, WorkerStep(w)
    PROVE  /\ raced \subseteq raced' /\ faulted \subseteq faulted'
           /\ (WorkerIds(w)' \ WorkerIds(w)) \cap CallersUse \subseteq raced'
           /\ \A i \in WorkerIds(w)' \ WorkerIds(w) : entry[i] = "due"
           /\ \A v \in Workers \ {w} : worker'[v] = worker[v]
           /\ caller' = caller
<1>1. raced \subseteq raced' /\ faulted \subseteq faulted'
  BY DEF WorkerStep, ClaimDue, LoadJob, LoadNothing, LoadFails, HandlerReturns,
     HandlerSucceeds, HandlerFails, HandlerReschedules, FinishJob, RescheduleZAdd,
     SaveJob, Requeue, DeleteJob, FinishFails, WorkerDies
<1>2. /\ (WorkerIds(w)' \ WorkerIds(w)) \cap CallersUse \subseteq raced'
      /\ \A i \in WorkerIds(w)' \ WorkerIds(w) : entry[i] = "due"
  <2>1. ASSUME NEW S \in SUBSET Ids, ClaimDue(w, S)
        PROVE  /\ (WorkerIds(w)' \ WorkerIds(w)) \cap CallersUse \subseteq raced'
               /\ \A i \in WorkerIds(w)' \ WorkerIds(w) : entry[i] = "due"
    <3>1. WorkerIds(w)' = S BY <2>1, WorkerIdsStep
    <3>2. S \cap CallersUse \subseteq raced' /\ \A i \in S : entry[i] = "due"
      BY <2>1 DEF ClaimDue, Due
    <3>. QED BY <3>1, <3>2
  <2>2. ASSUME ~\E S \in SUBSET Ids : ClaimDue(w, S)
        PROVE  WorkerIds(w)' \subseteq WorkerIds(w)
    BY <2>2, WorkerIdsStep DEF WorkerStep, FinishJob
  <2>. QED BY <2>1, <2>2
<1>3. /\ \A v \in Workers \ {w} : worker'[v] = worker[v]
      /\ caller' = caller
  BY DEF WorkerStep, ClaimDue, LoadJob, LoadNothing, LoadFails, HandlerReturns,
     HandlerSucceeds, HandlerFails, HandlerReschedules, FinishJob, RescheduleZAdd,
     SaveJob, Requeue, DeleteJob, FinishFails, WorkerDies, TypeOK
<1>. QED BY <1>1, <1>2, <1>3

\* The processes other than the one that steps stay exclusive and in step.
LEMMA ExclusiveStep ==
    ASSUME TypeOK, SequentialInv,
           \/ \E c \in Callers : CallerStep(c)
           \/ \E w \in Workers : WorkerStep(w)
    PROVE  Exclusive'
<1>1. ASSUME NEW c \in Callers, CallerStep(c) PROVE Exclusive'
  <2>1. /\ raced \subseteq raced'
        /\ \A d \in Callers \ {c} : CallerIds(d)' = CallerIds(d)
        /\ \A w \in Workers : WorkerIds(w)' = WorkerIds(w)
    BY <1>1, CallerTakes DEF CallerIds, WorkerIds
  <2>2. \A d \in Callers : CallerIds(d) \subseteq InUse
    BY DEF InUse, CallersUse
  <2>3. \A w \in Workers : WorkerIds(w) \subseteq InUse
    BY DEF InUse, WorkersUse
  <2>4. \A d \in Callers \ {c} : CallerIds(c)' \cap CallerIds(d) \subseteq raced'
    BY <1>1, <2>1, <2>2, CallerTakes DEF SequentialInv, Exclusive
  <2>5. \A w \in Workers : CallerIds(c)' \cap WorkerIds(w) \subseteq raced'
    BY <1>1, <2>1, <2>3, CallerTakes DEF SequentialInv, Exclusive
  <2>6. \A d, e \in Callers : d # e => (CallerIds(d) \cap CallerIds(e) \subseteq raced)'
    BY <2>1, <2>4 DEF SequentialInv, Exclusive
  <2>7. \A d \in Callers, w \in Workers : (CallerIds(d) \cap WorkerIds(w) \subseteq raced)'
    BY <2>1, <2>5 DEF SequentialInv, Exclusive
  <2>8. ClaimedOnce'
    BY <2>1 DEF SequentialInv, Exclusive, ClaimedOnce
  <2>. QED BY <2>6, <2>7, <2>8 DEF Exclusive
<1>2. ASSUME NEW w \in Workers, WorkerStep(w) PROVE Exclusive'
  <2>1. /\ raced \subseteq raced'
        /\ \A v \in Workers \ {w} : WorkerIds(v)' = WorkerIds(v)
        /\ \A c \in Callers : CallerIds(c)' = CallerIds(c)
    BY <1>2, WorkerTakes DEF CallerIds, WorkerIds
  <2>2. \A c \in Callers : CallerIds(c) \subseteq CallersUse
    BY DEF CallersUse
  <2>3. \A c \in Callers : CallerIds(c) \cap WorkerIds(w)' \subseteq raced'
    BY <1>2, <2>1, <2>2, WorkerTakes DEF SequentialInv, Exclusive
  <2>4. \A v \in Workers \ {w} : WorkerIds(w)' \cap WorkerIds(v) \subseteq raced'
    <3>1. \A v \in Workers : \A i \in WorkerIds(v) \ raced : entry[i] = "none"
      BY DEF SequentialInv, WorkerInStep
    <3>. QED BY <1>2, <2>1, <3>1, WorkerTakes DEF SequentialInv, Exclusive, ClaimedOnce
  <2>5. (\A c, d \in Callers : c # d => CallerIds(c) \cap CallerIds(d) \subseteq raced)'
    BY <2>1 DEF SequentialInv, Exclusive
  <2>6. (\A c \in Callers, v \in Workers : CallerIds(c) \cap WorkerIds(v) \subseteq raced)'
    BY <2>1, <2>3 DEF SequentialInv, Exclusive
  <2>7. ClaimedOnce'
    BY <2>1, <2>4 DEF SequentialInv, Exclusive, ClaimedOnce
  <2>. QED BY <2>5, <2>6, <2>7 DEF Exclusive
<1>. QED BY <1>1, <1>2

\* A caller whose own ids were not touched by a step is still in step; so is a
\* consumer.
LEMMA OtherCallerInStep ==
    ASSUME TypeOK, NEW d \in Callers, CallerInStep(d), caller'[d] = caller[d],
           raced \subseteq raced', faulted \subseteq faulted',
           \A i \in CallerIds(d) \ raced' : entry'[i] = entry[i] /\ job'[i] = job[i]
    PROVE  CallerInStep(d)'
    BY CallerCases DEF CallerInStep, CallerIds

LEMMA OtherWorkerInStep ==
    ASSUME TypeOK, NEW v \in Workers, WorkerInStep(v), worker'[v] = worker[v],
           raced \subseteq raced', faulted \subseteq faulted',
           \A i \in WorkerIds(v) \ raced' : entry'[i] = entry[i] /\ job'[i] = job[i]
    PROVE  WorkerInStep(v)'
    BY WorkerCases DEF WorkerInStep, WorkerIds

LEMMA InStepCallerStep ==
    ASSUME TypeOK, SequentialInv, NEW c \in Callers, CallerStep(c)
    PROVE  /\ \A d \in Callers : CallerInStep(d)'
           /\ \A w \in Workers : WorkerInStep(w)'
<1>1. Exclusive' BY ExclusiveStep
<1>2. /\ \A d \in Callers \ {c} : CallerIds(d)' = CallerIds(d)
      /\ \A w \in Workers : WorkerIds(w)' = WorkerIds(w)
  BY CallerTakes DEF CallerIds, WorkerIds
<1>3. raced \subseteq raced' BY CallerTakes
\* What other processes use is not raced only if the step leaves it alone.
<1>4. ASSUME NEW i \in Ids, i \in InUse, i \notin raced',
             i \notin CallerIds(c), i \notin CallerIds(c)'
      PROVE  entry'[i] = entry[i] /\ job'[i] = job[i]
  <2>1. ~\E p \in Payloads, at \in Whens : EnqueueIfMissing(c, i, p, at)
    BY <1>4 DEF EnqueueIfMissing
  <2>. QED BY <1>4, <2>1, CallerTouches
<1>5. ASSUME NEW d \in Callers \ {c} PROVE CallerInStep(d)'
  <2>1. \A i \in CallerIds(d) \ raced' : /\ i \in Ids /\ i \in InUse
                                        /\ i \notin CallerIds(c)
                                        /\ i \notin CallerIds(c)'
    BY <1>1, <1>2, <1>3, UseIsIds DEF Exclusive, SequentialInv, InUse, CallersUse
  <2>2. \A i \in CallerIds(d) \ raced' : entry'[i] = entry[i] /\ job'[i] = job[i]
    BY <1>4, <2>1
  <2>. QED BY <2>2, CallerTakes, OtherCallerInStep DEF SequentialInv
<1>6. ASSUME NEW w \in Workers PROVE WorkerInStep(w)'
  <2>1. \A i \in WorkerIds(w) \ raced' : /\ i \in Ids /\ i \in InUse
                                        /\ i \notin CallerIds(c)
                                        /\ i \notin CallerIds(c)'
    BY <1>1, <1>2, <1>3, UseIsIds DEF Exclusive, SequentialInv, InUse, WorkersUse
  <2>2. \A i \in WorkerIds(w) \ raced' : entry'[i] = entry[i] /\ job'[i] = job[i]
    BY <1>4, <2>1
  <2>. QED BY <2>2, CallerTakes, OtherWorkerInStep DEF SequentialInv
<1>7. CallerInStep(c)'
  <2>0. CallerInStep(c) BY DEF SequentialInv
  <2>1. ASSUME NEW j \in Ids, NEW p \in Payloads, NEW at \in Whens, EnqueueSet(c, j, p, at)
        PROVE  CallerInStep(c)'
    <3>1. NewJob(p) # NoJob BY QueueAssumption
    <3>. QED BY <2>1, <3>1 DEF EnqueueSet, CallerInStep, TypeOK
  <2>2. ASSUME NEW j \in Ids, NEW p \in Payloads, NEW at \in Whens,
               EnqueueIfMissing(c, j, p, at)
        PROVE  CallerInStep(c)'
    BY <2>2 DEF EnqueueIfMissing, CallerInStep, TypeOK
  <2>3. ASSUME NEW j \in Ids, RemoveZRem(c, j) PROVE CallerInStep(c)'
    BY <2>3 DEF RemoveZRem, CallerInStep, TypeOK
  <2>4. CASE RemoveDel(c)
    BY <2>4 DEF RemoveDel, CallerInStep, TypeOK
  <2>5. CASE EnqueueZAddFails(c)
    BY <2>5, CallerCases DEF EnqueueZAddFails, CallerInStep, TypeOK
  <2>6. ASSUME \/ EnqueueZAdd(c) \/ EnqueueUndo(c) \/ RemoveFails(c) \/ CallerDies(c)
               \/ \E S \in SUBSET Ids : RemoveBegin(c, S)
        PROVE  CallerInStep(c)'
    <3>1. caller'[c].pc \in {"idle", "zrem"}
      BY <2>6 DEF EnqueueZAdd, EnqueueUndo, RemoveFails, CallerDies, RemoveBegin, TypeOK
    <3>. QED BY <3>1 DEF CallerInStep
  <2>. QED BY <2>1, <2>2, <2>3, <2>4, <2>5, <2>6 DEF CallerStep, Remove, RemoveByPrefix
<1>. QED BY <1>5, <1>6, <1>7

LEMMA InStepWorkerStep ==
    ASSUME TypeOK, SequentialInv, NEW w \in Workers, WorkerStep(w)
    PROVE  /\ \A c \in Callers : CallerInStep(c)'
           /\ \A v \in Workers : WorkerInStep(v)'
<1>1. Exclusive' BY ExclusiveStep
<1>2. /\ \A v \in Workers \ {w} : WorkerIds(v)' = WorkerIds(v)
      /\ \A c \in Callers : CallerIds(c)' = CallerIds(c)
  BY WorkerTakes DEF CallerIds, WorkerIds
<1>3. raced \subseteq raced' BY WorkerTakes
<1>4. ASSUME NEW c \in Callers PROVE CallerInStep(c)'
  <2>1. \A i \in CallerIds(c) \ raced' : /\ i \in Ids
                                        /\ i \notin WorkerIds(w)
                                        /\ i \notin WorkerIds(w)'
    BY <1>1, <1>2, <1>3, UseIsIds DEF Exclusive, SequentialInv
  <2>2. \A i \in CallerIds(c) \ raced' : entry'[i] = entry[i] /\ job'[i] = job[i]
    BY <2>1, WorkerTouches
  <2>. QED BY <2>2, WorkerTakes, OtherCallerInStep DEF SequentialInv
<1>5. ASSUME NEW v \in Workers \ {w} PROVE WorkerInStep(v)'
  <2>1. \A i \in WorkerIds(v) \ raced' : /\ i \in Ids
                                        /\ i \notin WorkerIds(w)
                                        /\ i \notin WorkerIds(w)'
    BY <1>1, <1>2, <1>3, UseIsIds DEF Exclusive, ClaimedOnce, SequentialInv
  <2>2. \A i \in WorkerIds(v) \ raced' : entry'[i] = entry[i] /\ job'[i] = job[i]
    BY <2>1, WorkerTouches
  <2>. QED BY <2>2, WorkerTakes, OtherWorkerInStep DEF SequentialInv
<1>6. WorkerInStep(w)'
  <2>0. WorkerInStep(w) BY DEF SequentialInv
  <2>1. ASSUME NEW S \in SUBSET Ids, ClaimDue(w, S) PROVE WorkerInStep(w)'
    <3>1. WorkerIds(w)' = S BY <2>1, WorkerIdsStep
    <3>. QED BY <2>1, <3>1 DEF ClaimDue, WorkerInStep, TypeOK
  <2>2. ASSUME NEW i \in Ids, LoadJob(w, i) \/ LoadNothing(w, i) \/ LoadFails(w, i)
        PROVE  WorkerInStep(w)'
    <3>1. WorkerIds(w)' \subseteq WorkerIds(w) BY <2>2, WorkerIdsStep
    <3>. QED BY <2>0, <2>2, <3>1, <1>3
         DEF LoadJob, LoadNothing, LoadFails, WorkerInStep, TypeOK
  <2>3. ASSUME HandlerReturns(w) PROVE WorkerInStep(w)'
    <3>1. WorkerIds(w)' = WorkerIds(w) BY <2>3, WorkerIdsStep
    <3>2. entry' = entry /\ raced' = raced
      BY <2>3 DEF HandlerReturns, HandlerSucceeds, HandlerFails, HandlerReschedules
    <3>3. ASSUME NEW p \in Payloads, NEW at \in Whens, HandlerReschedules(w, p, at)
          PROVE  WorkerInStep(w)'
      <4>1. worker[w].id \in Ids BY <3>3, WorkerCases DEF HandlerReschedules
      <4>2. NewJob(p) # NoJob BY QueueAssumption
      <4>3. job'[worker'[w].id] # NoJob /\ worker'[w].id \notin worker'[w].batch
        BY <2>0, <3>3, <4>1, <4>2 DEF HandlerReschedules, TypeOK, WorkerInStep
      <4>. QED BY <2>0, <3>1, <3>2, <4>3 DEF WorkerInStep
    <3>4. ASSUME HandlerSucceeds(w)
          PROVE  worker'[w].pc = "delete" /\ worker'[w].id \notin worker'[w].batch
      BY <2>0, <3>4 DEF HandlerSucceeds, TypeOK, WorkerInStep
    <3>5. ASSUME NEW r \in BOOLEAN, NEW p \in Payloads, HandlerFails(w, r, p)
          PROVE  worker'[w].pc \in {"delete", "save"} /\ worker'[w].id \notin worker'[w].batch
      <4>1. worker[w] \in [pc : {"handle"}, batch : SUBSET Ids, id : Ids, job : Job]
        BY <3>5, WorkerCases DEF HandlerFails
      <4>2. worker[w].id \notin worker[w].batch BY <2>0, <4>1 DEF WorkerInStep
      <4>3. CASE worker[w].job.attempts + 1 >= MaxAttempts /\ ~r
        BY <3>5, <4>2, <4>3 DEF HandlerFails, TypeOK
      <4>4. CASE ~(worker[w].job.attempts + 1 >= MaxAttempts /\ ~r)
        <5>1. worker'[w] = [worker[w] EXCEPT !.pc = "save",
                              !.job = [payload |-> p,
                                       attempts |-> AttemptsAfter(worker[w].job.attempts, r)]]
          BY <3>5, <4>4 DEF HandlerFails, TypeOK
        <5>. QED BY <4>1, <4>2, <5>1
      <4>. QED BY <4>3, <4>4
    <3>. QED BY <2>0, <2>3, <3>1, <3>2, <3>3, <3>4, <3>5 DEF WorkerInStep, HandlerReturns
  <2>4. ASSUME SaveJob(w) PROVE WorkerInStep(w)'
    <3>1. WorkerIds(w)' = WorkerIds(w) BY <2>4, WorkerIdsStep
    <3>2. worker[w] \in [pc : {"save"}, batch : SUBSET Ids, id : Ids, job : Job]
      BY <2>4, WorkerCases DEF SaveJob
    <3>3. worker[w].job # NoJob BY <3>2, QueueAssumption
    <3>4. job'[worker'[w].id] # NoJob /\ worker'[w].id \notin worker'[w].batch
      BY <2>0, <2>4, <3>2, <3>3 DEF SaveJob, TypeOK, WorkerInStep
    <3>5. entry' = entry /\ raced' = raced BY <2>4 DEF SaveJob
    <3>. QED BY <2>0, <3>1, <3>4, <3>5 DEF WorkerInStep
  <2>5. ASSUME RescheduleZAdd(w) \/ Requeue(w) \/ DeleteJob(w)
                 \/ FinishFails(w) \/ WorkerDies(w)
        PROVE  WorkerInStep(w)'
    <3>1. worker'[w].pc = "poll" /\ WorkerIds(w)' = worker'[w].batch
      BY <2>5 DEF RescheduleZAdd, Requeue, DeleteJob, FinishFails, WorkerDies, TypeOK, WorkerIds
    <3>2. worker'[w].batch \subseteq worker[w].batch
      BY <2>5 DEF RescheduleZAdd, Requeue, DeleteJob, FinishFails, WorkerDies, TypeOK
    <3>3. worker[w].batch \subseteq WorkerIds(w) BY DEF WorkerIds
    <3>4. \A i \in worker'[w].batch : entry'[i] = entry[i]
      <4>1. CASE WorkerDies(w) \/ FinishFails(w) \/ DeleteJob(w)
        BY <4>1 DEF WorkerDies, FinishFails, DeleteJob
      <4>2. CASE RescheduleZAdd(w) \/ Requeue(w)
        <5>1. worker[w].id \notin worker[w].batch
          BY <2>0, <4>2 DEF RescheduleZAdd, Requeue, WorkerInStep
        <5>2. worker[w].batch \subseteq Ids BY <3>3, UseIsIds
        <5>. QED BY <3>2, <4>2, <5>1, <5>2 DEF RescheduleZAdd, Requeue, TypeOK
      <4>. QED BY <2>5, <4>1, <4>2
    <3>. QED BY <1>3, <2>0, <3>1, <3>2, <3>3, <3>4 DEF WorkerInStep
  <2>. QED BY <2>1, <2>2, <2>3, <2>4, <2>5 DEF WorkerStep, FinishJob
<1>. QED BY <1>4, <1>5, <1>6

LEMMA OrphanCallerStep ==
    ASSUME TypeOK, SequentialInv, NEW c \in Callers, CallerStep(c)
    PROVE  NoOrphanInSequentialUse'
<1>1. SUFFICES ASSUME NEW i \in Ids, entry'[i] # "none", job'[i] = NoJob,
                      i \notin faulted', i \notin raced'
               PROVE  i \in InUse'
  BY DEF NoOrphanInSequentialUse
<1>2. entry[i] # "none" /\ job[i] = NoJob => i \in InUse
  BY <1>1, CallerTakes DEF SequentialInv, NoOrphanInSequentialUse
<1>3. i \in InUse \ CallerIds(c) \/ i \in CallerIds(c)' => i \in InUse'
  BY CallerTakes DEF InUse, CallersUse, WorkersUse, CallerIds, WorkerIds
<1>4. CallerInStep(c) BY DEF SequentialInv
<1>5. ASSUME NEW j \in Ids, NEW p \in Payloads, NEW at \in Whens,
             EnqueueSet(c, j, p, at) \/ EnqueueIfMissing(c, j, p, at)
      PROVE  i \in InUse'
  <2>1. NewJob(p) # NoJob BY QueueAssumption
  <2>2. i # j BY <1>1, <1>5, <2>1 DEF EnqueueSet, EnqueueIfMissing, TypeOK
  <2>3. i \in InUse
    BY <1>1, <1>2, <1>5, <2>2 DEF EnqueueSet, EnqueueIfMissing, TypeOK
  <2>4. CallerIds(c) = {}
    BY <1>5 DEF EnqueueSet, EnqueueIfMissing, CallerIds
  <2>. QED BY <1>3, <2>3, <2>4
<1>6. ASSUME NEW S \in SUBSET Ids, RemoveBegin(c, S) PROVE i \in InUse'
  <2>1. CallerIds(c) = {} BY <1>6, CallerIdsStep
  <2>. QED BY <1>1, <1>2, <1>3, <1>6, <2>1 DEF RemoveBegin
<1>7. ASSUME EnqueueZAdd(c) PROVE i \in InUse'
  <2>1. i # caller[c].id
    BY <1>1, <1>4, <1>7 DEF EnqueueZAdd, CallerInStep
  <2>2. i \in InUse BY <1>1, <1>2, <1>7, <2>1 DEF EnqueueZAdd, TypeOK
  <2>3. CallerIds(c) = {caller[c].id} BY <1>7, CallerIdsStep
  <2>. QED BY <1>3, <2>1, <2>2, <2>3
<1>8. ASSUME EnqueueUndo(c) PROVE i \in InUse'
  <2>1. i # caller[c].id
    BY <1>1, <1>4, <1>8, CallerTakes DEF EnqueueUndo, CallerInStep
  <2>2. i \in InUse BY <1>1, <1>2, <1>8, <2>1 DEF EnqueueUndo, TypeOK
  <2>3. CallerIds(c) = {caller[c].id} BY <1>8, CallerIdsStep
  <2>. QED BY <1>3, <2>1, <2>2, <2>3
<1>9. ASSUME EnqueueZAddFails(c) PROVE i \in InUse'
  <2>1. CallerIds(c)' = CallerIds(c) BY <1>9, CallerIdsStep
  <2>. QED BY <1>1, <1>2, <1>3, <1>9, <2>1 DEF EnqueueZAddFails
<1>10. ASSUME NEW j \in Ids, RemoveZRem(c, j) PROVE i \in InUse'
  <2>1. CallerIds(c)' = CallerIds(c) BY <1>10, CallerIdsStep
  <2>2. i # j BY <1>1, <1>10 DEF RemoveZRem, TypeOK
  <2>. QED BY <1>1, <1>2, <1>3, <1>10, <2>1, <2>2 DEF RemoveZRem, TypeOK
<1>11. ASSUME RemoveDel(c) PROVE i \in InUse'
  <2>1. i # caller[c].id
    BY <1>1, <1>4, <1>11 DEF RemoveDel, CallerInStep
  <2>2. i \in InUse BY <1>1, <1>2, <1>11, <2>1 DEF RemoveDel, TypeOK
  <2>. QED BY <1>3, <1>11, <2>1, <2>2, CallerIdsStep
<1>12. ASSUME RemoveFails(c) \/ CallerDies(c) PROVE i \in InUse'
  BY <1>1, <1>2, <1>3, <1>12 DEF RemoveFails, CallerDies
<1>. QED BY <1>5, <1>6, <1>7, <1>8, <1>9, <1>10, <1>11, <1>12
     DEF CallerStep, Remove, RemoveByPrefix

LEMMA OrphanWorkerStep ==
    ASSUME TypeOK, SequentialInv, NEW w \in Workers, WorkerStep(w)
    PROVE  NoOrphanInSequentialUse'
<1>1. SUFFICES ASSUME NEW i \in Ids, entry'[i] # "none", job'[i] = NoJob,
                      i \notin faulted', i \notin raced'
               PROVE  i \in InUse'
  BY DEF NoOrphanInSequentialUse
<1>2. entry[i] # "none" /\ job[i] = NoJob => i \in InUse
  BY <1>1, WorkerTakes DEF SequentialInv, NoOrphanInSequentialUse
<1>3. i \in InUse \ WorkerIds(w) \/ i \in WorkerIds(w)' => i \in InUse'
  BY WorkerTakes DEF InUse, CallersUse, WorkersUse, CallerIds, WorkerIds
<1>4. CASE i \in WorkerIds(w)'
  BY <1>3, <1>4
<1>5. CASE i \notin WorkerIds(w) /\ i \notin WorkerIds(w)'
  BY <1>1, <1>2, <1>3, <1>5, WorkerTouches
\* The consumer lets go of an id it held: it had no entry, and gets one only
\* with its job.
<1>6. CASE i \in WorkerIds(w) /\ i \notin WorkerIds(w)'
  <2>1. entry[i] = "none"
    BY <1>1, <1>6, WorkerTakes DEF SequentialInv, WorkerInStep
  <2>2. CASE RescheduleZAdd(w) \/ Requeue(w)
    <3>1. i = worker[w].id BY <1>6, <2>2, WorkerIdsStep
    <3>2. job[i] # NoJob
      BY <1>1, <2>2, <3>1, WorkerTakes
      DEF RescheduleZAdd, Requeue, SequentialInv, WorkerInStep
    <3>. QED BY <1>1, <2>2, <3>2 DEF RescheduleZAdd, Requeue
  <2>3. CASE ~(RescheduleZAdd(w) \/ Requeue(w))
    <3>1. entry'[i] = entry[i] \/ entry'[i] = "none"
      BY <2>3 DEF WorkerStep, ClaimDue, LoadJob, LoadNothing, LoadFails, HandlerReturns,
         HandlerSucceeds, HandlerFails, HandlerReschedules, FinishJob, SaveJob,
         DeleteJob, FinishFails, WorkerDies
    <3>. QED BY <1>1, <2>1, <3>1
  <2>. QED BY <2>2, <2>3
<1>. QED BY <1>4, <1>5, <1>6

\* With time passing and keys expiring, the whole inductive step.
LEMMA SequentialStep ==
    TypeOK /\ SequentialInv /\ [Next]_vars => SequentialInv'
<1> SUFFICES ASSUME TypeOK, SequentialInv, [Next]_vars PROVE SequentialInv'
  OBVIOUS
<1>1. ASSUME NEW c \in Callers, CallerStep(c) PROVE SequentialInv'
  BY <1>1, ExclusiveStep, InStepCallerStep, OrphanCallerStep DEF SequentialInv
<1>2. ASSUME NEW w \in Workers, WorkerStep(w) PROVE SequentialInv'
  BY <1>2, ExclusiveStep, InStepWorkerStep, OrphanWorkerStep DEF SequentialInv
<1>3. ASSUME UNCHANGED <<caller, worker, raced>>, faulted \subseteq faulted',
             \A i \in Ids : \/ entry'[i] = entry[i] /\ job'[i] = job[i]
                            \/ entry[i] # "none" /\ job'[i] = job[i]
                            \/ entry'[i] = entry[i] /\ i \in faulted'
      PROVE  SequentialInv'
  <2>1. /\ \A c \in Callers : CallerIds(c)' = CallerIds(c)
        /\ \A w \in Workers : WorkerIds(w)' = WorkerIds(w)
        /\ InUse' = InUse
    BY <1>3 DEF CallerIds, WorkerIds, InUse, CallersUse, WorkersUse
  <2>2. Exclusive' BY <1>3, <2>1 DEF SequentialInv, Exclusive, ClaimedOnce
  <2>3. ASSUME NEW c \in Callers PROVE CallerInStep(c)'
    BY <1>3, CallerCases DEF SequentialInv, CallerInStep
  <2>4. ASSUME NEW w \in Workers PROVE WorkerInStep(w)'
    <3>1. WorkerInStep(w) BY DEF SequentialInv
    <3>2. \A i \in WorkerIds(w) \ raced : entry'[i] = "none"
      BY <1>3, <3>1, UseIsIds DEF WorkerInStep
    <3>3. worker[w].pc \in {"zadd", "requeue"} => worker[w].id \in Ids
      BY WorkerCases
    <3>. QED BY <1>3, <2>1, <3>1, <3>2, <3>3 DEF WorkerInStep
  <2>5. NoOrphanInSequentialUse'
    BY <1>3, <2>1 DEF SequentialInv, NoOrphanInSequentialUse
  <2>. QED BY <2>2, <2>3, <2>4, <2>5 DEF SequentialInv
<1>4. ASSUME NEW i \in Ids, BecomesDue(i) PROVE SequentialInv'
  BY <1>3, <1>4 DEF BecomesDue, TypeOK
<1>5. ASSUME NEW i \in Ids, KeyExpires(i) PROVE SequentialInv'
  BY <1>3, <1>5 DEF KeyExpires, TypeOK
<1>6. CASE UNCHANGED vars
  BY <1>3, <1>6 DEF vars
<1>. QED BY <1>1, <1>2, <1>4, <1>5, <1>6 DEF Next

LEMMA SequentialInit == Init => SequentialInv
  BY DEF Init, SequentialInv, Exclusive, ClaimedOnce, CallerInStep, WorkerInStep,
         NoOrphanInSequentialUse, CallerIds, WorkerIds

\* Used by one process at a time and without failures on it, an id never has
\* an entry without its job once the operations on it are done.
THEOREM SequentialUseKeepsJobs == Spec => []NoOrphanInSequentialUse
<1>1. SequentialInv => NoOrphanInSequentialUse BY DEF SequentialInv
<1>. QED BY <1>1, SequentialInit, SequentialStep, TypeCorrect, PTL DEF Spec

\* Two consumers hold the same id only after a caller's operation overlapped.
THEOREM ClaimIsExclusive == Spec => []ClaimedOnce
<1>1. SequentialInv => ClaimedOnce BY DEF SequentialInv, Exclusive
<1>. QED BY <1>1, SequentialInit, SequentialStep, TypeCorrect, PTL DEF Spec
=============================================================================
