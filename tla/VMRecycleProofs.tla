-------------------------- MODULE VMRecycleProofs --------------------------
(***************************************************************************)
(* Proofs about recycling a VM, for any number of goroutines, tasks and    *)
(* faults, any policies and any limit of attempts.                         *)
(***************************************************************************)
EXTENDS VMRecycle, TLAPS

USE DEF Goto, Finish, Start, At, Same, Fault, db, redis, use, history

\* What a goroutine may be doing: typed, and with a job if it handles one.
Sound(s) ==
    /\ s \in ProcStates
    /\ s.op = "job" \/ s.pc \in Consuming => s.job # NoJob

TypeInv == TypeOK /\ \A p \in Procs : HasJob(p)

-----------------------------------------------------------------------------
(* The states goroutines move between.                                     *)

LEMMA IdleSound == Sound(Idle) /\ Idle.pc = "idle"
    BY DEF Idle, Sound, ProcStates, PCs, Inside, Methods, Errors, Consuming

LEMMA ProcSound ==
    ASSUME TypeInv, NEW p \in Procs
    PROVE  Sound(proc[p]) /\ proc[p] \in ProcStates
    BY DEF TypeInv, TypeOK, HasJob, Sound

\* A step of p leaves the other goroutines where they are.
LEMMA UpdateSound ==
    ASSUME TypeInv, NEW p \in Procs, NEW s, Sound(s), Update(p, s)
    PROVE  /\ proc' \in [Procs -> ProcStates]
           /\ proc'[p] = s
           /\ \A q \in Procs \ {p} : proc'[q] = proc[q]
           /\ \A q \in Procs : HasJob(q)'
<1>1. proc \in [Procs -> ProcStates] BY DEF TypeInv, TypeOK
<1>2. /\ proc' \in [Procs -> ProcStates]
      /\ proc'[p] = s
      /\ \A q \in Procs \ {p} : proc'[q] = proc[q]
  BY <1>1 DEF Update, Sound
<1>. QED BY <1>2 DEF TypeInv, HasJob, Sound

\* The program counters that need no job.
LEMMA GotoSound ==
    ASSUME NEW s, Sound(s), NEW pc \in PCs, pc \notin Consuming \/ s.job # NoJob
    PROVE  LET r == [s EXCEPT !.pc = pc]
           IN  Sound(r) /\ r.pc = pc /\ r.op = s.op /\ r.force = s.force
                 /\ r.snapshot = s.snapshot /\ r.gone = s.gone /\ r.clean = s.clean
                 /\ r.err = s.err /\ r.job = s.job
    BY DEF Sound, ProcStates, Consuming

LEMMA LeaveSound ==
    ASSUME NEW s, Sound(s), NEW e \in Errors
    PROVE  LET r == [s EXCEPT !.pc = "release", !.err = e,
                              !.snapshot = {}, !.gone = FALSE, !.clean = TRUE]
           IN  Sound(r) /\ r.pc = "release" /\ r.err = e /\ r.op = s.op
    BY DEF Sound, ProcStates, PCs, Inside, Consuming

LEMMA ReturnSound ==
    ASSUME NEW s, Sound(s), NEW e \in Errors
    PROVE  LET r == [s EXCEPT !.pc = "return", !.err = e]
           IN  Sound(r) /\ r.pc = "return" /\ r.err = e /\ r.op = s.op
    BY DEF Sound, ProcStates, PCs, Inside, Consuming

LEMMA LoadSound ==
    ASSUME NEW s, Sound(s), NEW pc \in {"record", "remote"}, NEW gone \in BOOLEAN,
           NEW S \in SUBSET Tasks
    PROVE  LET r == [s EXCEPT !.pc = pc, !.gone = gone, !.snapshot = S]
           IN  Sound(r) /\ r.pc = pc /\ r.gone = gone /\ r.snapshot = S
                 /\ r.op = s.op /\ r.force = s.force
<1>1. pc \in PCs /\ pc \notin Consuming BY DEF PCs, Inside, Consuming
<1>2. s \in ProcStates /\ (s.op = "job" => s.job # NoJob) BY DEF Sound
<1>. QED BY <1>1, <1>2 DEF Sound, ProcStates

LEMMA MarkSound ==
    ASSUME NEW s, Sound(s)
    PROVE  LET r == [s EXCEPT !.pc = "mark", !.gone = TRUE]
           IN  Sound(r) /\ r.pc = "mark" /\ r.gone /\ r.snapshot = s.snapshot
                 /\ r.op = s.op /\ r.force = s.force
    BY DEF Sound, ProcStates, PCs, Inside, Consuming

LEMMA TasksSound ==
    ASSUME NEW s, Sound(s)
    PROVE  LET r == [s EXCEPT !.pc = "tasks", !.clean = TRUE]
           IN  Sound(r) /\ r.pc = "tasks" /\ r.clean /\ r.snapshot = s.snapshot
                 /\ r.op = s.op
    BY DEF Sound, ProcStates, PCs, Inside, Consuming

LEMMA FinishSound ==
    ASSUME NEW s, Sound(s), NEW t \in Tasks
    PROVE  /\ LET r == [s EXCEPT !.snapshot = @ \ {t}]
              IN  Sound(r) /\ r.pc = s.pc /\ r.clean = s.clean /\ r.op = s.op
                    /\ r.snapshot = s.snapshot \ {t} /\ r.err = s.err
           /\ LET r == [s EXCEPT !.snapshot = @ \ {t}, !.clean = FALSE]
              IN  Sound(r) /\ r.pc = s.pc /\ ~r.clean /\ r.op = s.op
                    /\ r.snapshot = s.snapshot \ {t} /\ r.err = s.err
    BY DEF Sound, ProcStates, Consuming

LEMMA RecycleSound ==
    ASSUME NEW s, Sound(s), NEW m \in Methods, NEW f \in BOOLEAN
    PROVE  LET r == Recycle(s, m, f)
           IN  Sound(r) /\ r.pc = "acquire" /\ r.op = s.op
    BY DEF Recycle, Sound, ProcStates, PCs, Inside, Consuming

LEMMA DeadlineSound ==
    ASSUME NEW s, Sound(s), NEW e \in BOOLEAN
    PROVE  LET r == [s EXCEPT !.pc = "deadline", !.enabled = e]
           IN  Sound(r) /\ r.pc = "deadline"
    BY DEF Sound, ProcStates, PCs, Inside, Consuming

LEMMA JobStepSound ==
    ASSUME NEW j \in Jobs, NEW pc \in Consuming \cup {"done"}
    PROVE  LET r == [Idle EXCEPT !.op = "job", !.pc = pc, !.job = j]
           IN  Sound(r) /\ r.pc = pc
    BY RecycleAssumption
    DEF Idle, Sound, ProcStates, PCs, Inside, Methods, Errors, Consuming

\* How requests begin.
LEMMA CloseSound ==
    ASSUME NEW t \in Tasks, NEW m \in Closings, NEW pc \in {"commit", "transition"}
    PROVE  LET r == [Idle EXCEPT !.op = "task", !.method = m, !.task = {t}, !.pc = pc]
           IN  Sound(r) /\ r.pc = pc /\ r.op = "task"
    BY RecycleAssumption
    DEF Idle, Sound, ProcStates, PCs, Inside, Methods, Errors, Consuming

LEMMA BeginSound ==
    ASSUME NEW op \in {"activity", "repair"}, NEW e \in BOOLEAN
    PROVE  LET r == [Idle EXCEPT !.op = op, !.pc = "deadline", !.enabled = e]
           IN  Sound(r) /\ r.pc = "deadline"
    BY DEF Idle, Sound, ProcStates, PCs, Inside, Methods, Errors, Consuming

LEMMA ForceSound ==
    ASSUME NEW op \in {"delete vm", "expire"}
    PROVE  LET r == [Idle EXCEPT !.op = op] IN Sound(r)
    BY DEF Idle, Sound, ProcStates, PCs, Inside, Methods, Errors, Consuming

LEMMA FaultCount ==
    ASSUME TypeInv, Fault \/ UNCHANGED faults
    PROVE  faults' \in 0 .. MaxFaults /\ (faults > 0 => faults' > 0)
    BY RecycleAssumption DEF TypeInv, TypeOK

LEMMA NewJobTyped == \A m \in Methods : NewJob(m) \in Jobs
    BY RecycleAssumption DEF NewJob, Jobs

LEMMA RetryTyped == \A j \in Jobs : RetryForever(j) \in Jobs
    BY RecycleAssumption DEF RetryForever, IsFinalAttempt, Jobs

-----------------------------------------------------------------------------
(* Types.                                                                  *)

LEMMA TypeInit == Init => TypeInv
<1> SUFFICES ASSUME Init PROVE TypeInv OBVIOUS
<1>0. proc = [p \in Procs |-> Idle] BY DEF Init
<1>1. proc \in [Procs -> ProcStates] BY <1>0, IdleSound DEF Sound
<1>2. \A p \in Procs : HasJob(p) BY <1>0, IdleSound DEF HasJob, Sound
<1>i. [method |-> "idle", attempts |-> 0, exhausted |-> FALSE] \in Jobs
  BY RecycleAssumption DEF Jobs, Methods
<1>3. entry \in {"none", "later", "due"} /\ job \in Jobs \cup {NoJob}
  BY <1>i DEF Init
<1>4. TypeOK BY <1>1, <1>3, RecycleAssumption DEF Init, TypeOK
<1>. QED BY <1>2, <1>4 DEF TypeInv

\* What is left to show of a step of p: its new state is sound and the shared
\* variables keep their types.
Shared ==
    /\ vm \in [recycled : BOOLEAN, deleted : BOOLEAN]
    /\ remote \in BOOLEAN
    /\ record \in [method : Methods, remoteDeleted : BOOLEAN] \cup {NoRecord}
    /\ task \in [Tasks -> {"running", "ended"}]
    /\ vmState \in {"none", "running", "recycled"}
    /\ active \in BOOLEAN
    /\ request \subseteq Tasks
    /\ starting \subseteq Tasks
    /\ lock \in Procs \cup {Nobody}
    /\ entry \in {"none", "later", "due"}
    /\ job \in Jobs \cup {NoJob}
    /\ overrun \subseteq Procs
    /\ abandoned \in {"no", "forced", "compensated"}
    /\ owed \in {"no", "queued", "overtaken"}
    /\ reopened \in [Procs -> SUBSET Tasks]

LEMMA SharedTyped == ASSUME TypeInv PROVE Shared
    BY DEF TypeInv, TypeOK, Shared

LEMMA SharedSame ==
    ASSUME Shared, UNCHANGED <<db, redis, use, history>>
    PROVE  Shared'
    BY DEF Shared

LEMMA TypeFrame ==
    ASSUME TypeInv, NEW p \in Procs, NEW s, Sound(s), Update(p, s), Shared',
           Fault \/ UNCHANGED faults
    PROVE  TypeInv'
<1>1. faults' \in 0 .. MaxFaults BY FaultCount
<1>2. proc' \in [Procs -> ProcStates] BY UpdateSound
<1>3. \A q \in Procs : HasJob(q)' BY UpdateSound
<1>4. TypeOK' BY <1>1, <1>2 DEF TypeOK, Shared
<1>. QED BY <1>3, <1>4 DEF TypeInv

LEMMA TypeRecycleStep ==
    ASSUME TypeInv, NEW p \in Procs, RecycleStep(p) \/ RecycleFails(p) \/ AcquireFails(p)
    PROVE  TypeInv'
<1>0. Sound(proc[p]) BY ProcSound
<1>pc. Inside \cup {"return"} \subseteq PCs /\ (Inside \cup {"return"}) \cap Consuming = {}
  BY DEF PCs, Inside, Consuming
<1>t. Shared BY SharedTyped
<1>g. proc[p].gone \in BOOLEAN /\ proc[p].force \in BOOLEAN /\ proc[p].method \in Methods
  BY <1>0 DEF Sound, ProcStates
<1>1. CASE Acquire(p)
  <2>1. Sound([proc[p] EXCEPT !.pc = "load"]) BY <1>0, <1>pc, GotoSound DEF Inside
  <2>s. Shared' BY <1>1, <1>t, <2>1 DEF Acquire, Shared
  <2>. QED BY <1>1, <2>1, <2>s, TypeFrame DEF Acquire
<1>2. CASE AcquireHeld(p)
  <2>1. Sound([proc[p] EXCEPT !.pc = "return", !.err = "in progress"])
    BY <1>0, ReturnSound DEF Errors
  <2>s. Shared' BY <1>2, <1>t, <2>1 DEF AcquireHeld, Shared
  <2>. QED BY <1>2, <2>1, <2>s, TypeFrame DEF AcquireHeld
<1>3. CASE LoadVM(p)
  <2> DEFINE pc == IF vm.recycled THEN "record" ELSE "remote"
             S == {t \in Tasks : ~Terminal(t)}
             s == [proc[p] EXCEPT !.pc = pc, !.gone = vm.recycled, !.snapshot = S]
  <2>1. vm.recycled \in BOOLEAN BY <1>t DEF Shared
  <2>2. Sound(s) BY <1>0, <2>1, LoadSound
  <2>3. Update(p, s) BY <1>3 DEF LoadVM
  <2> HIDE DEF s
  <2>s. Shared' BY <1>3, <1>t, <2>2, <2>3 DEF LoadVM, Shared
  <2>. QED BY <1>3, <2>2, <2>3, <2>s, TypeFrame DEF LoadVM
<1>4. CASE RemoteDelete(p)
  <2>1. Sound([proc[p] EXCEPT !.pc = "mark", !.gone = TRUE]) BY <1>0, MarkSound
  <2>2. remote' \in BOOLEAN BY <1>4 DEF RemoteDelete
  <2>s. Shared' BY <1>4, <1>t, <2>1, <2>2 DEF RemoteDelete, Shared
  <2>. QED BY <1>4, <2>1, <2>2, <2>s, TypeFrame DEF RemoteDelete
<1>5. CASE RemoteDeleteFails(p)
  <2>1. Sound([proc[p] EXCEPT !.pc = "mark"]) BY <1>0, <1>pc, GotoSound DEF Inside
  <2>2. Sound([proc[p] EXCEPT !.pc = "release", !.err = "remote delete",
                   !.snapshot = {}, !.gone = FALSE, !.clean = TRUE])
    BY <1>0, LeaveSound DEF Errors
  <2>3. remote' \in BOOLEAN BY <1>5, <1>t DEF RemoteDeleteFails, Shared
  <2>s. Shared' BY <1>5, <1>t, <2>1, <2>2, <2>3 DEF RemoteDeleteFails, Leave, Shared
  <2>. QED BY <1>5, <2>1, <2>2, <2>3, <2>s, TypeFrame DEF RemoteDeleteFails, Leave
<1>6. CASE MarkRecycled(p)
  <2>1. Sound([proc[p] EXCEPT !.pc = "record"]) BY <1>0, <1>pc, GotoSound DEF Inside
  <2>2. vm' \in [recycled : BOOLEAN, deleted : BOOLEAN]
    BY <1>6, <1>t DEF MarkRecycled, Shared
  <2>s. Shared' BY <1>6, <1>t, <2>1, <2>2 DEF MarkRecycled, Shared
  <2>. QED BY <1>6, <2>1, <2>2, <2>s, TypeFrame DEF MarkRecycled
<1>7. CASE CreateRecord(p)
  <2>1. Sound([proc[p] EXCEPT !.pc = "tasks", !.clean = TRUE]) BY <1>0, TasksSound
  <2>s. Shared' BY <1>7, <1>t, <1>g, <2>1 DEF CreateRecord, Insert, Shared
  <2>. QED BY <1>7, <1>g, <2>1, <2>s, TypeFrame DEF CreateRecord, Insert
<1>8. ASSUME NEW t \in Tasks, FinishTask(p, t) PROVE TypeInv'
  <2>1. /\ Sound([proc[p] EXCEPT !.snapshot = @ \ {t}])
        /\ Sound([proc[p] EXCEPT !.snapshot = @ \ {t}, !.clean = FALSE])
    BY <1>0, FinishSound
  <2>s. Shared' BY <1>8, <1>t, <2>1 DEF FinishTask, Shared
  <2>. QED BY <1>8, <2>1, <2>s, TypeFrame DEF FinishTask
<1>9. CASE TasksFinished(p)
  <2>1. Sound([proc[p] EXCEPT !.pc = "clean"]) BY <1>0, <1>pc, GotoSound DEF Inside
  <2>s. Shared' BY <1>9, <1>t, <2>1 DEF TasksFinished, Shared
  <2>. QED BY <1>9, <2>1, <2>s, TypeFrame DEF TasksFinished
<1>10. CASE CleanRedis(p)
  <2>1. Sound([proc[p] EXCEPT !.pc = "unqueue"]) BY <1>0, <1>pc, GotoSound DEF Inside
  <2>2. Sound([proc[p] EXCEPT !.pc = "release", !.err = "other",
                   !.snapshot = {}, !.gone = FALSE, !.clean = TRUE])
    BY <1>0, LeaveSound DEF Errors
  <2>u. /\ vmState' \in {vmState, "none"} /\ request' \in {request, {}}
        /\ UNCHANGED <<db, lock, entry, job, active, starting, history>>
    BY <1>10 DEF CleanRedis, DelKeys
  <2>s. Shared' BY <1>t, <2>u DEF Shared
  <2>. QED BY <1>10, <2>1, <2>2, <2>s, TypeFrame DEF CleanRedis, Leave
<1>11. CASE RemoveRecycleJob(p)
  <2>1. Sound([proc[p] EXCEPT !.pc = "release", !.err = "nil",
                   !.snapshot = {}, !.gone = FALSE, !.clean = TRUE])
    BY <1>0, LeaveSound DEF Errors
  <2>s. Shared' BY <1>11, <1>t, <2>1 DEF RemoveRecycleJob, Remove, Leave, Shared
  <2>. QED BY <1>11, <2>1, <2>s, TypeFrame DEF RemoveRecycleJob, Remove, Leave
<1>12. CASE Release(p)
  <2>1. Sound([proc[p] EXCEPT !.pc = "return"]) BY <1>0, <1>pc, GotoSound
  <2>s. Shared' BY <1>12, <1>t, <2>1 DEF Release, Shared
  <2>. QED BY <1>12, <2>1, <2>s, TypeFrame DEF Release
<1>13. CASE RecycleFails(p)
  <2>1. Sound([proc[p] EXCEPT !.pc = "release", !.err = "other",
                   !.snapshot = {}, !.gone = FALSE, !.clean = TRUE])
    BY <1>0, LeaveSound DEF Errors
  <2>s. Shared' BY <1>13, <1>t, <2>1 DEF RecycleFails, Leave, Shared
  <2>. QED BY <1>13, <2>1, <2>s, TypeFrame DEF RecycleFails, Leave
<1>14. CASE AcquireFails(p)
  <2>1. Sound([proc[p] EXCEPT !.pc = "return", !.err = "other"])
    BY <1>0, ReturnSound DEF Errors
  <2>s. Shared' BY <1>14, <1>t, <2>1 DEF AcquireFails, Shared
  <2>. QED BY <1>14, <2>1, <2>s, TypeFrame DEF AcquireFails
<1>. QED BY <1>1, <1>2, <1>3, <1>4, <1>5, <1>6, <1>7, <1>8, <1>9, <1>10, <1>11, <1>12,
        <1>13, <1>14 DEF RecycleStep

LEMMA TypeCallerStep ==
    ASSUME TypeInv, NEW p \in Procs, CallerStep(p)
    PROVE  TypeInv'
<1>0. Sound(proc[p]) BY ProcSound
<1>t. Shared BY SharedTyped
<1>m. proc[p].method \in Methods BY <1>0 DEF Sound, ProcStates
<1>c. Sound([proc[p] EXCEPT !.pc = "commit"])
  BY <1>0, GotoSound DEF PCs, Consuming
<1>1. CASE Transition(p)
  <2>1. Sound(Recycle(proc[p], proc[p].method, FALSE)) BY <1>0, <1>m, RecycleSound
  <2>u. vmState' \in {vmState, "recycled"} /\ UNCHANGED <<db, lock, entry, job, use, history>>
    BY <1>1 DEF Transition
  <2>s. Shared' BY <1>t, <2>u DEF Shared
  <2>. QED BY <1>1, <1>c, <2>1, <2>s, TypeFrame DEF Transition
<1>2. CASE HookReturns(p)
  <2>1. Update(p, [proc[p] EXCEPT !.pc = "commit"]) BY <1>2 DEF HookReturns
  <2>2. entry' \in {"none", "later", "due"} /\ job' \in Jobs \cup {NoJob}
    BY <1>2, <1>t, <1>m, NewJobTyped DEF HookReturns, Enqueue, Shared
  <2>s. Shared' BY <1>2, <1>t, <1>c, <2>1, <2>2 DEF HookReturns, Shared
  <2>. QED BY <1>2, <1>c, <2>1, <2>2, <2>s, TypeFrame DEF HookReturns
<1>3. CASE CommitTask(p)
  <2>1. task' \in [Tasks -> {"running", "ended"}]
    BY <1>3, <1>t DEF CommitTask, Shared
  <2>s. Shared' BY <1>3, <1>t, <2>1, IdleSound DEF CommitTask, Shared
  <2>. QED BY <1>3, <2>1, IdleSound, <2>s, TypeFrame DEF CommitTask
<1>4. CASE DeleteVMReturns(p) \/ ExpireReturns(p)
  <2>u. UNCHANGED <<db, redis, use, history>>
    BY <1>4 DEF DeleteVMReturns, ExpireReturns
  <2>s. Shared' BY <1>t, <2>u, SharedSame
  <2>. QED BY <1>4, <1>c, IdleSound, <2>s, TypeFrame DEF DeleteVMReturns, ExpireReturns
<1>5. CASE DeleteRow(p)
  <2>1. task' \in [Tasks -> {"running", "ended"}]
    BY <1>5, <1>t DEF DeleteRow, Shared
  <2>v. vm' \in {vm, [recycled |-> TRUE, deleted |-> TRUE]} BY <1>5 DEF DeleteRow
  <2>2. vm' \in [recycled : BOOLEAN, deleted : BOOLEAN]
    <3>1. vm \in [recycled : BOOLEAN, deleted : BOOLEAN] BY <1>t DEF Shared
    <3>2. [recycled |-> TRUE, deleted |-> TRUE] \in [recycled : BOOLEAN, deleted : BOOLEAN]
      OBVIOUS
    <3>. QED BY <2>v, <3>1, <3>2
  <2>u. UNCHANGED <<remote, record, redis, use, history>> BY <1>5 DEF DeleteRow
  <2>s. Shared' BY <1>t, <2>1, <2>2, <2>u DEF Shared
  <2>. QED BY <1>5, <2>1, <2>2, IdleSound, <2>s, TypeFrame DEF DeleteRow
<1>6. CASE MoveDeadline(p)
  <2>1. entry' \in {"none", "later", "due"} /\ job' \in Jobs \cup {NoJob}
    BY <1>6, <1>t, NewJobTyped DEF MoveDeadline, Enqueue, Remove, Methods, Shared
  <2>s. Shared' BY <1>6, <1>t, <2>1, IdleSound DEF MoveDeadline, Shared
  <2>. QED BY <1>6, <2>1, IdleSound, <2>s, TypeFrame DEF MoveDeadline
<1>. QED BY <1>1, <1>2, <1>3, <1>4, <1>5, <1>6 DEF CallerStep

\* The job a consumer is at.
LEMMA JobTyped ==
    ASSUME TypeInv, NEW p \in Procs, proc[p].op = "job" \/ proc[p].pc \in Consuming
    PROVE  /\ proc[p].job \in Jobs
           /\ proc[p].job.method \in Methods
           /\ [proc[p].job EXCEPT !.exhausted = TRUE] \in Jobs
           /\ ~IsFinalAttempt(proc[p].job)
                => [proc[p].job EXCEPT !.attempts = @ + 1] \in Jobs
<1>1. proc[p].job \in Jobs
  BY ProcSound DEF Sound, ProcStates
<1>2. proc[p].job.method \in Methods BY <1>1 DEF Jobs
<1>3. [proc[p].job EXCEPT !.exhausted = TRUE] \in Jobs BY <1>1 DEF Jobs
<1>4. ASSUME ~IsFinalAttempt(proc[p].job)
      PROVE  [proc[p].job EXCEPT !.attempts = @ + 1] \in Jobs
  BY <1>1, <1>4, RecycleAssumption DEF Jobs, IsFinalAttempt
<1>. QED BY <1>1, <1>2, <1>3, <1>4

LEMMA TypeConsumerStep ==
    ASSUME TypeInv, NEW p \in Procs, ConsumerStep(p)
    PROVE  TypeInv'
<1>0. Sound(proc[p]) BY ProcSound
<1>t. Shared BY SharedTyped
<1>d. Sound([proc[p] EXCEPT !.pc = "done"]) BY <1>0, GotoSound DEF PCs, Consuming
<1>1. CASE HandleJob(p)
  <2>1. proc[p].job \in Jobs /\ proc[p].job.method \in Methods
    BY <1>1, JobTyped DEF HandleJob, Consuming
  <2>2. Sound([proc[p] EXCEPT !.pc = "compensate"])
    BY <1>0, <2>1, GotoSound, RecycleAssumption DEF PCs, Consuming
  <2>3. Sound(Recycle(proc[p], proc[p].job.method, FALSE))
    BY <1>0, <2>1, RecycleSound
  <2>4. \A e \in Policies : Sound([proc[p] EXCEPT !.pc = "deadline", !.enabled = e])
    BY <1>0, DeadlineSound, RecycleAssumption
  <2>5. PICK s : Sound(s) /\ Update(p, s)
    BY <1>1, <1>d, <2>2, <2>3, <2>4 DEF HandleJob
  <2>u. UNCHANGED <<db, redis, use, history>> BY <1>1 DEF HandleJob
  <2>s. Shared' BY <1>t, <2>u, SharedSame
  <2>. QED BY <1>1, <2>5, <2>s, TypeFrame DEF HandleJob
<1>2. CASE JobReturns(p)
  <2>1. PICK s : Sound(s) /\ Update(p, s)
    BY <1>2, JobTyped, JobStepSound DEF JobReturns, JobStep, Consuming
  <2>u. UNCHANGED <<db, redis, use, history>> BY <1>2 DEF JobReturns
  <2>s. Shared' BY <1>t, <2>u, SharedSame
  <2>. QED BY <1>2, <2>1, <2>s, TypeFrame DEF JobReturns
<1>3. CASE Compensate(p)
  <2>1. Sound([proc[p] EXCEPT !.pc = "compensate record"])
    <3>1. proc[p].job # NoJob BY <1>3, <1>0 DEF Compensate, Sound, Consuming
    <3>. QED BY <1>0, <3>1, GotoSound DEF PCs
  <2>2. PICK s : Sound(s) /\ Update(p, s)
    BY <1>3, <2>1, JobTyped, RetryTyped, JobStepSound DEF Compensate, JobStep, Consuming
  <2>3. vm' \in [recycled : BOOLEAN, deleted : BOOLEAN]
    BY <1>3, <1>t DEF Compensate, Shared
  <2>u. /\ abandoned' \in {abandoned, "compensated"}
        /\ UNCHANGED <<remote, record, task, redis, use, faults, overrun, owed, reopened>>
    BY <1>3 DEF Compensate
  <2>s. Shared' BY <1>t, <2>3, <2>u DEF Shared
  <2>. QED BY <1>3, <2>2, <2>3, <2>s, TypeFrame DEF Compensate
<1>4. CASE CompensateRecord(p)
  <2>1. proc[p].job.method \in Methods BY <1>4, JobTyped DEF CompensateRecord, Consuming
  <2>2. record' \in {record, [method |-> proc[p].job.method, remoteDeleted |-> FALSE]}
    BY <1>4 DEF CompensateRecord, Insert
  <2>3. record' \in [method : Methods, remoteDeleted : BOOLEAN] \cup {NoRecord}
    <3>1. record \in [method : Methods, remoteDeleted : BOOLEAN] \cup {NoRecord}
      BY <1>t DEF Shared
    <3>2. [method |-> proc[p].job.method, remoteDeleted |-> FALSE]
            \in [method : Methods, remoteDeleted : BOOLEAN]
      BY <2>1
    <3>. QED BY <2>2, <3>1, <3>2
  <2>u. UNCHANGED <<vm, remote, task, redis, use, faults, history>>
    BY <1>4 DEF CompensateRecord
  <2>s. Shared' BY <1>t, <2>3, <2>u DEF Shared
  <2>. QED BY <1>4, <1>d, <2>1, <2>s, TypeFrame DEF CompensateRecord, Insert
<1>5. CASE RequeueJob(p)
  <2>1. proc[p].job \in Jobs BY <1>5, JobTyped DEF RequeueJob, Consuming
  <2>s. Shared' BY <1>5, <1>t, <2>1, IdleSound DEF RequeueJob, Shared
  <2>. QED BY <1>5, <2>1, IdleSound, <2>s, TypeFrame DEF RequeueJob
<1>6. CASE DeleteJob(p)
  <2>s. Shared' BY <1>6, <1>t DEF DeleteJob, Shared
  <2>. QED BY <1>6, IdleSound, <2>s, TypeFrame DEF DeleteJob
<1>. QED BY <1>1, <1>2, <1>3, <1>4, <1>5, <1>6 DEF ConsumerStep

LEMMA TypeFailure ==
    ASSUME TypeInv, NEW p \in Procs, HandlerFails(p) \/ LastCommandFails(p) \/ Crash(p)
    PROVE  TypeInv'
<1>t. Shared BY SharedTyped
<1>1. CASE HandlerFails(p)
  <2>1. PICK s : Sound(s) /\ Update(p, s)
    BY <1>1, JobTyped, RetryTyped, JobStepSound DEF HandlerFails, JobStep, Consuming
  <2>u. UNCHANGED <<db, redis, use, history>> BY <1>1 DEF HandlerFails
  <2>s. Shared' BY <1>t, <2>u, SharedSame
  <2>. QED BY <1>1, <2>1, <2>s, TypeFrame DEF HandlerFails
<1>2. CASE LastCommandFails(p)
  <2>s. Shared' BY <1>2, <1>t DEF LastCommandFails, Shared
  <2>. QED BY <1>2, IdleSound, <2>s, TypeFrame DEF LastCommandFails
<1>3. CASE Crash(p)
  <2>s. Shared' BY <1>3, <1>t DEF Crash, Shared
  <2>. QED BY <1>3, IdleSound, <2>s, TypeFrame DEF Crash
<1>. QED BY <1>1, <1>2, <1>3

LEMMA TypeBegin ==
    ASSUME TypeInv, NEW p \in Procs, Begin(p) \/ ClaimJob(p)
    PROVE  TypeInv'
<1>t. Shared BY SharedTyped
<1>1. ASSUME NEW t \in Tasks, NEW m \in Closings, CloseTask(p, t, m) PROVE TypeInv'
  <2>1. PICK s : Sound(s) /\ Update(p, s)
    BY <1>1, CloseSound DEF CloseTask
  <2>s. Shared' BY <1>1, <1>t, <2>1 DEF CloseTask, Shared
  <2>. QED BY <1>1, <2>1, <2>s, TypeFrame DEF CloseTask
<1>2. CASE DeleteVM(p) \/ ExpireVM(p)
  <2>1. /\ Sound(Recycle([Idle EXCEPT !.op = "delete vm"], "manual_delete", TRUE))
        /\ Sound(Recycle([Idle EXCEPT !.op = "expire"], "expired", TRUE))
    BY ForceSound, RecycleSound DEF Methods
  <2>u. UNCHANGED <<db, redis, use, history>> BY <1>2 DEF DeleteVM, ExpireVM
  <2>s. Shared' BY <1>t, <2>u, SharedSame
  <2>. QED BY <1>2, <2>1, <2>s, TypeFrame DEF DeleteVM, ExpireVM
<1>3. CASE RecordActivity(p)
  <2>1. PICK s : Sound(s) /\ Update(p, s)
    BY <1>3, BeginSound, RecycleAssumption DEF RecordActivity
  <2>2. active' \in BOOLEAN BY <1>3 DEF RecordActivity
  <2>s. Shared' BY <1>3, <1>t, <2>1, <2>2 DEF RecordActivity, Shared
  <2>. QED BY <1>3, <2>1, <2>2, <2>s, TypeFrame DEF RecordActivity
<1>4. CASE Repair(p)
  <2>1. PICK s : Sound(s) /\ Update(p, s)
    BY <1>4, BeginSound DEF Repair
  <2>s. Shared' BY <1>4, <1>t, <2>1 DEF Repair, Shared
  <2>. QED BY <1>4, <2>1, <2>s, TypeFrame DEF Repair
<1>5. CASE ClaimJob(p)
  <2>1. CASE job = NoJob
    BY <1>5, <2>1 DEF ClaimJob, TypeInv, TypeOK, HasJob
  <2>2. CASE job # NoJob
    <3>1. PICK s : Sound(s) /\ Update(p, s)
      BY <1>5, <1>t, <2>2, JobStepSound DEF ClaimJob, Shared, Consuming
    <3>s. Shared' BY <1>5, <1>t, <3>1 DEF ClaimJob, Shared
    <3>. QED BY <1>5, <3>1, <3>s, TypeFrame DEF ClaimJob
  <2>. QED BY <2>1, <2>2
<1>. QED BY <1>1, <1>2, <1>3, <1>4, <1>5 DEF Begin

LEMMA SharedEnvironment ==
    ASSUME Shared
    PROVE  /\ \A t \in Tasks : TaskCallback(t) => Shared'
           /\ BecomesDue => Shared'
           /\ ActivityAges => Shared'
           /\ AgentReturns => Shared'
           /\ LockExpires => Shared'
<1>1. ASSUME NEW t \in Tasks, TaskCallback(t) PROVE Shared'
  <2>1. CASE HookLooks(t) BY <2>1 DEF HookLooks, Shared
  <2>2. CASE HookStarts(t)
    <3>1. /\ task' = [task EXCEPT ![t] = "running"]
          /\ starting' \subseteq starting
          /\ reopened' = [p \in Procs |-> IF Terminal(t) /\ proc[p].pc \in Loaded
                                          THEN reopened[p] \cup {t} ELSE reopened[p]]
          /\ UNCHANGED <<vm, remote, record, redis, active, request, overrun, abandoned, owed>>
      BY <2>2 DEF HookStarts
    <3>2. reopened' \in [Procs -> SUBSET Tasks] BY <3>1 DEF Shared
    <3>3. task' \in [Tasks -> {"running", "ended"}] BY <3>1 DEF Shared
    <3>. QED BY <3>1, <3>2, <3>3 DEF Shared
  <2>3. CASE RequestGoes(t) BY <2>3 DEF RequestGoes, Shared
  <2>4. CASE TaskFails(t) BY <2>4 DEF TaskFails, Shared
  <2>. QED BY <1>1, <2>1, <2>2, <2>3, <2>4 DEF TaskCallback
<1>2. BecomesDue => Shared' BY DEF BecomesDue, Shared
<1>3. ActivityAges => Shared' BY DEF ActivityAges, Shared
<1>4. AgentReturns => Shared' BY DEF AgentReturns, Shared
<1>5. ASSUME LockExpires PROVE Shared'
  <2>1. /\ lock # Nobody /\ lock' = Nobody
        /\ overrun' \in {overrun, overrun \cup {lock}}
        /\ UNCHANGED <<db, vmState, entry, job, use, abandoned, owed, reopened>>
    BY <1>5 DEF LockExpires
  <2>. QED BY <2>1 DEF Shared
<1>. QED BY <1>1, <1>2, <1>3, <1>4, <1>5

LEMMA TypeEnvironment ==
    ASSUME TypeInv,
           \/ \E t \in Tasks : TaskCallback(t)
           \/ BecomesDue \/ ActivityAges \/ AgentReturns \/ LockExpires
    PROVE  TypeInv'
<1>t. Shared BY SharedTyped
<1>1. proc' = proc
  BY DEF TaskCallback, HookLooks, HookStarts, RequestGoes, TaskFails,
     BecomesDue, ActivityAges, AgentReturns, LockExpires
<1>2. \A q \in Procs : HasJob(q)' BY <1>1 DEF TypeInv, HasJob
<1>3. faults' \in 0 .. MaxFaults
  BY FaultCount
  DEF TaskCallback, HookLooks, HookStarts, RequestGoes, TaskFails,
      BecomesDue, ActivityAges, AgentReturns, LockExpires
<1>7. Shared' BY <1>t, SharedEnvironment
<1>8. proc \in [Procs -> ProcStates] BY DEF TypeInv, TypeOK
<1>9. TypeOK' BY <1>1, <1>3, <1>7, <1>8 DEF TypeOK, Shared
<1>. QED BY <1>2, <1>9 DEF TypeInv

LEMMA TypeStep == TypeInv /\ [Next]_vars => TypeInv'
<1> SUFFICES ASSUME TypeInv, [Next]_vars PROVE TypeInv' OBVIOUS
<1>1. CASE UNCHANGED vars BY <1>1 DEF vars, TypeInv, TypeOK, HasJob
<1>2. CASE Next
  BY <1>2, TypeRecycleStep, TypeCallerStep, TypeConsumerStep, TypeFailure, TypeBegin,
     TypeEnvironment DEF Next, Failure
<1>. QED BY <1>1, <1>2

\* Every state of every goroutine, job, record and lock stays within its type:
\* in particular no job is ever stored with attempts at or beyond the limit,
\* whatever a retry beyond the last attempt does (delayqueue.go:255-257).
THEOREM TypeCorrect == Spec => []TypeOK
<1>1. Init => TypeInv BY TypeInit
<1>2. TypeInv /\ [Next]_vars => TypeInv' BY TypeStep
<1>3. TypeInv => TypeOK BY DEF TypeInv
<1>. QED BY <1>1, <1>2, <1>3, PTL DEF Spec

-----------------------------------------------------------------------------
(* What no step undoes but the start of a task.                            *)

Onward ==
    /\ vm.recycled => vm'.recycled
    /\ ~remote => ~remote'
    /\ record # NoRecord => record' = record
    /\ \A t \in Tasks : Terminal(t) => task'[t] # "running"
    /\ (faults > 0 => faults' > 0)
    /\ abandoned # "no" => abandoned' # "no"
    /\ abandoned = "compensated" => abandoned' = "compensated"

\* Most steps change nothing of all this but the count of faults.
LEMMA OnwardFrame ==
    ASSUME TypeInv, UNCHANGED <<vm, record, task, abandoned>>,
           remote' = remote \/ remote' = FALSE, Fault \/ UNCHANGED faults
    PROVE  Onward
<1>1. (faults > 0 => faults' > 0) BY FaultCount
<1>. QED BY <1>1 DEF Onward, Terminal

LEMMA OnwardRecycleStep ==
    ASSUME TypeInv, NEW p \in Procs, RecycleStep(p) \/ Failure(p)
    PROVE  Onward
<1>1. CASE MarkRecycled(p)
  <2>1. /\ vm' = [vm EXCEPT !.recycled = TRUE]
        /\ abandoned # "no" => abandoned' = abandoned
        /\ UNCHANGED <<remote, record, task, faults>>
    BY <1>1 DEF MarkRecycled
  <2>2. vm'.recycled BY <2>1 DEF TypeInv, TypeOK
  <2>3. (faults > 0 => faults' > 0) BY <2>1, FaultCount
  <2>. QED BY <2>1, <2>2, <2>3 DEF Onward, Terminal
<1>2. CASE CreateRecord(p)
  <2>1. /\ record # NoRecord => record' = record
        /\ UNCHANGED <<vm, remote, task, faults, abandoned>>
    BY <1>2 DEF CreateRecord, Insert
  <2>2. (faults > 0 => faults' > 0) BY <2>1, FaultCount
  <2>. QED BY <2>1, <2>2 DEF Onward, Terminal
<1>3. ASSUME NEW t \in Tasks, FinishTask(p, t) PROVE Onward
  <2>1. /\ task' = [task EXCEPT ![t] = "ended"] \/ task' = task
        /\ UNCHANGED <<vm, remote, record, abandoned>>
        /\ Fault \/ UNCHANGED faults
    BY <1>3 DEF FinishTask
  <2>2. (faults > 0 => faults' > 0) BY <2>1, FaultCount
  <2>3. task \in [Tasks -> {"running", "ended"}] BY DEF TypeInv, TypeOK
  <2>4. \A u \in Tasks : Terminal(u) => task'[u] # "running" BY <2>1, <2>3 DEF Terminal
  <2>. QED BY <2>1, <2>2, <2>4 DEF Onward
<1>4. CASE Acquire(p) \/ AcquireHeld(p) \/ LoadVM(p) \/ RemoteDelete(p)
             \/ RemoteDeleteFails(p) \/ TasksFinished(p) \/ CleanRedis(p)
             \/ RemoveRecycleJob(p) \/ Release(p) \/ RecycleFails(p) \/ AcquireFails(p)
  <2>1. /\ UNCHANGED <<vm, record, task, abandoned>>
        /\ remote' = remote \/ remote' = FALSE
        /\ Fault \/ UNCHANGED faults
    BY <1>4 DEF Acquire, AcquireHeld, LoadVM, RemoteDelete, RemoteDeleteFails,
                TasksFinished, CleanRedis, RemoveRecycleJob, Release, RecycleFails,
                AcquireFails
  <2>. QED BY <2>1, OnwardFrame
<1>5. CASE HandlerFails(p) \/ LastCommandFails(p) \/ Crash(p)
  <2>1. UNCHANGED <<vm, record, task, abandoned, remote>> /\ Fault
    BY <1>5 DEF HandlerFails, LastCommandFails, Crash
  <2>. QED BY <2>1, OnwardFrame
<1>. QED BY <1>1, <1>2, <1>3, <1>4, <1>5 DEF RecycleStep, Failure

LEMMA OnwardOtherStep ==
    ASSUME TypeInv, NEW p \in Procs,
           Begin(p) \/ ClaimJob(p) \/ CallerStep(p) \/ ConsumerStep(p)
    PROVE  Onward
<1>0. task \in [Tasks -> {"running", "ended"}] BY DEF TypeInv, TypeOK
<1>1. CASE CommitTask(p)
  <2>1. UNCHANGED <<vm, remote, record, abandoned>> /\ (Fault \/ UNCHANGED faults)
    BY <1>1 DEF CommitTask
  <2>2. \A t \in Tasks : Terminal(t) => task'[t] # "running"
    BY <1>0, <1>1 DEF CommitTask, Terminal
  <2>3. (faults > 0 => faults' > 0) BY <2>1, FaultCount
  <2>. QED BY <2>1, <2>2, <2>3 DEF Onward
<1>2. CASE DeleteRow(p)
  <2>1. UNCHANGED <<remote, record, abandoned>> /\ (Fault \/ UNCHANGED faults)
    BY <1>2 DEF DeleteRow
  <2>2. \A t \in Tasks : Terminal(t) => task'[t] # "running"
    BY <1>0, <1>2 DEF DeleteRow, Terminal
  <2>3. vm.recycled => vm'.recycled
    <3>1. vm' = vm \/ vm' = [recycled |-> TRUE, deleted |-> TRUE] BY <1>2 DEF DeleteRow
    <3>. QED BY <3>1
  <2>4. (faults > 0 => faults' > 0) BY <2>1, FaultCount
  <2>. QED BY <2>1, <2>2, <2>3, <2>4 DEF Onward
<1>3. CASE Compensate(p)
  <2>1. /\ UNCHANGED <<remote, record, task, faults>>
        /\ vm' = vm \/ vm' = [vm EXCEPT !.recycled = TRUE]
        /\ abandoned' = abandoned \/ abandoned' = "compensated"
    BY <1>3 DEF Compensate
  <2>2. vm.recycled => vm'.recycled BY <2>1 DEF TypeInv, TypeOK
  <2>3. (faults > 0 => faults' > 0) BY <2>1, FaultCount
  <2>. QED BY <2>1, <2>2, <2>3 DEF Onward, Terminal
<1>4. CASE CompensateRecord(p)
  <2>1. /\ record # NoRecord => record' = record
        /\ UNCHANGED <<vm, remote, task, faults, abandoned>>
    BY <1>4 DEF CompensateRecord, Insert
  <2>2. (faults > 0 => faults' > 0) BY <2>1, FaultCount
  <2>. QED BY <2>1, <2>2 DEF Onward, Terminal
<1>5. CASE \/ Transition(p) \/ HookReturns(p) \/ DeleteVMReturns(p)
           \/ ExpireReturns(p) \/ MoveDeadline(p)
  <2>1. UNCHANGED <<vm, record, task, abandoned, remote>> /\ (Fault \/ UNCHANGED faults)
    BY <1>5 DEF Transition, HookReturns, DeleteVMReturns, ExpireReturns, MoveDeadline
  <2>. QED BY <2>1, OnwardFrame
<1>6. CASE HandleJob(p) \/ JobReturns(p) \/ RequeueJob(p) \/ DeleteJob(p) \/ ClaimJob(p)
  <2>1. UNCHANGED <<vm, record, task, abandoned, remote, faults>>
    BY <1>6 DEF HandleJob, JobReturns, RequeueJob, DeleteJob, ClaimJob
  <2>. QED BY <2>1, OnwardFrame
<1>7. CASE Begin(p)
  <2>1. UNCHANGED <<vm, record, task, abandoned, remote>> /\ (Fault \/ UNCHANGED faults)
    BY <1>7 DEF Begin, CloseTask, DeleteVM, ExpireVM, RecordActivity, Repair
  <2>. QED BY <2>1, OnwardFrame
<1>. QED BY <1>1, <1>2, <1>3, <1>4, <1>5, <1>6, <1>7 DEF CallerStep, ConsumerStep

\* A task runs again only by the hook of a vm-ready.
LEMMA OnwardStep == TypeInv /\ [Next]_vars => Onward \/ \E t \in Tasks : HookStarts(t)
<1> SUFFICES ASSUME TypeInv, [Next]_vars, \A t \in Tasks : ~HookStarts(t) PROVE Onward
  OBVIOUS
<1>1. CASE UNCHANGED vars BY <1>1, OnwardFrame DEF vars
<1>2. ASSUME NEW t \in Tasks, TaskCallback(t) PROVE Onward
  <2>1. task \in [Tasks -> {"running", "ended"}] BY DEF TypeInv, TypeOK
  <2>2. task' = task \/ task' = [task EXCEPT ![t] = "ended"]
    BY <1>2 DEF TaskCallback, HookLooks, RequestGoes, TaskFails
  <2>3. UNCHANGED <<vm, remote, record, abandoned, faults>>
    BY <1>2 DEF TaskCallback, HookLooks, RequestGoes, TaskFails
  <2>4. \A u \in Tasks : Terminal(u) => task'[u] # "running"
    BY <2>1, <2>2 DEF Terminal
  <2>5. (faults > 0 => faults' > 0) BY <2>3, FaultCount
  <2>. QED BY <2>3, <2>4, <2>5 DEF Onward
<1>3. CASE BecomesDue \/ ActivityAges \/ AgentReturns \/ LockExpires
  <2>1. /\ UNCHANGED <<vm, record, task, abandoned>>
        /\ remote' = remote \/ remote' = FALSE
        /\ Fault \/ UNCHANGED faults
    BY <1>3 DEF BecomesDue, ActivityAges, AgentReturns, LockExpires
  <2>. QED BY <2>1, OnwardFrame
<1>4. ASSUME NEW p \in Procs, RecycleStep(p) \/ Failure(p) PROVE Onward
  BY <1>4, OnwardRecycleStep
<1>5. ASSUME NEW p \in Procs,
             Begin(p) \/ ClaimJob(p) \/ CallerStep(p) \/ ConsumerStep(p)
      PROVE  Onward
  BY <1>5, OnwardOtherStep
<1>. QED BY <1>1, <1>2, <1>3, <1>4, <1>5 DEF Next

-----------------------------------------------------------------------------
(* Where a step leaves the goroutine that takes it.                        *)

LEMMA UpdateHere ==
    ASSUME TypeInv, NEW p \in Procs, NEW s, Update(p, s)
    PROVE  proc'[p] = s
    BY DEF TypeInv, TypeOK, Update

LEMMA GotoStep ==
    ASSUME TypeInv, NEW p \in Procs,
           NEW pc \in PCs, pc \notin Consuming \/ proc[p].job # NoJob,
           Update(p, [proc[p] EXCEPT !.pc = pc])
    PROVE  /\ proc'[p].pc = pc /\ proc'[p].op = proc[p].op /\ proc'[p].err = proc[p].err
           /\ proc'[p].force = proc[p].force /\ proc'[p].gone = proc[p].gone
           /\ proc'[p].snapshot = proc[p].snapshot /\ proc'[p].clean = proc[p].clean
<1> DEFINE r == [proc[p] EXCEPT !.pc = pc]
<1>0. Sound(proc[p]) BY ProcSound
<1>1. /\ r.pc = pc /\ r.op = proc[p].op /\ r.err = proc[p].err
      /\ r.force = proc[p].force /\ r.gone = proc[p].gone
      /\ r.snapshot = proc[p].snapshot /\ r.clean = proc[p].clean
  BY <1>0, GotoSound
<1>2. proc'[p] = r BY UpdateHere
<1> HIDE DEF r
<1>. QED BY <1>1, <1>2

LEMMA LeaveStep ==
    ASSUME TypeInv, NEW p \in Procs,
           NEW e \in Errors,
           Update(p, [proc[p] EXCEPT !.pc = "release", !.err = e,
                        !.snapshot = {}, !.gone = FALSE, !.clean = TRUE])
    PROVE  proc'[p].pc = "release" /\ proc'[p].err = e
<1> DEFINE r == [proc[p] EXCEPT !.pc = "release", !.err = e,
                        !.snapshot = {}, !.gone = FALSE, !.clean = TRUE]
<1>0. Sound(proc[p]) BY ProcSound
<1>1. /\ r.pc = "release" /\ r.err = e
  BY <1>0, LeaveSound
<1>2. proc'[p] = r BY UpdateHere
<1> HIDE DEF r
<1>. QED BY <1>1, <1>2

LEMMA ReturnStep ==
    ASSUME TypeInv, NEW p \in Procs,
           NEW e \in Errors,
           Update(p, [proc[p] EXCEPT !.pc = "return", !.err = e])
    PROVE  proc'[p].pc = "return" /\ proc'[p].err = e
<1> DEFINE r == [proc[p] EXCEPT !.pc = "return", !.err = e]
<1>0. Sound(proc[p]) BY ProcSound
<1>1. /\ r.pc = "return" /\ r.err = e
  BY <1>0, ReturnSound
<1>2. proc'[p] = r BY UpdateHere
<1> HIDE DEF r
<1>. QED BY <1>1, <1>2

LEMMA LoadStep ==
    ASSUME TypeInv, NEW p \in Procs, NEW pc \in {"record", "remote"}, NEW gone \in BOOLEAN,
           NEW S \in SUBSET Tasks,
           Update(p, [proc[p] EXCEPT !.pc = pc, !.gone = gone, !.snapshot = S])
    PROVE  proc'[p].pc = pc /\ proc'[p].gone = gone /\ proc'[p].snapshot = S
<1> DEFINE r == [proc[p] EXCEPT !.pc = pc, !.gone = gone, !.snapshot = S]
<1>0. Sound(proc[p]) BY ProcSound
<1>1. r.pc = pc /\ r.gone = gone /\ r.snapshot = S BY <1>0 DEF Sound, ProcStates
<1>2. proc'[p] = r BY UpdateHere
<1> HIDE DEF r
<1>. QED BY <1>1, <1>2

LEMMA MarkStep ==
    ASSUME TypeInv, NEW p \in Procs,
           Update(p, [proc[p] EXCEPT !.pc = "mark", !.gone = TRUE])
    PROVE  /\ proc'[p].pc = "mark" /\ proc'[p].gone
           /\ proc'[p].snapshot = proc[p].snapshot
<1> DEFINE r == [proc[p] EXCEPT !.pc = "mark", !.gone = TRUE]
<1>0. Sound(proc[p]) BY ProcSound
<1>1. /\ r.pc = "mark" /\ r.gone
      /\ r.snapshot = proc[p].snapshot
  BY <1>0, MarkSound
<1>2. proc'[p] = r BY UpdateHere
<1> HIDE DEF r
<1>. QED BY <1>1, <1>2

LEMMA TasksStep ==
    ASSUME TypeInv, NEW p \in Procs,
           Update(p, [proc[p] EXCEPT !.pc = "tasks", !.clean = TRUE])
    PROVE  /\ proc'[p].pc = "tasks"
           /\ proc'[p].snapshot = proc[p].snapshot
<1> DEFINE r == [proc[p] EXCEPT !.pc = "tasks", !.clean = TRUE]
<1>0. Sound(proc[p]) BY ProcSound
<1>1. /\ r.pc = "tasks"
      /\ r.snapshot = proc[p].snapshot
  BY <1>0, TasksSound
<1>2. proc'[p] = r BY UpdateHere
<1> HIDE DEF r
<1>. QED BY <1>1, <1>2

LEMMA FinishStep ==
    ASSUME TypeInv, NEW p \in Procs,
           NEW t \in Tasks,
           Update(p, [proc[p] EXCEPT !.snapshot = @ \ {t}])
    PROVE  /\ proc'[p].pc = proc[p].pc /\ proc'[p].clean = proc[p].clean
           /\ proc'[p].snapshot = proc[p].snapshot \ {t}
<1> DEFINE r == [proc[p] EXCEPT !.snapshot = @ \ {t}]
<1>0. Sound(proc[p]) BY ProcSound
<1>1. /\ r.pc = proc[p].pc /\ r.clean = proc[p].clean
      /\ r.snapshot = proc[p].snapshot \ {t}
  BY <1>0 DEF Sound, ProcStates
<1>2. proc'[p] = r BY UpdateHere
<1> HIDE DEF r
<1>. QED BY <1>1, <1>2

LEMMA FinishFailsStep ==
    ASSUME TypeInv, NEW p \in Procs,
           NEW t \in Tasks,
           Update(p, [proc[p] EXCEPT !.snapshot = @ \ {t}, !.clean = FALSE])
    PROVE  proc'[p].pc = proc[p].pc /\ ~proc'[p].clean
<1> DEFINE r == [proc[p] EXCEPT !.snapshot = @ \ {t}, !.clean = FALSE]
<1>0. Sound(proc[p]) BY ProcSound
<1>1. /\ r.pc = proc[p].pc /\ ~r.clean
  BY <1>0, FinishSound
<1>2. proc'[p] = r BY UpdateHere
<1> HIDE DEF r
<1>. QED BY <1>1, <1>2

LEMMA RecycleBegins ==
    ASSUME TypeInv, NEW p \in Procs,
           NEW m \in Methods, NEW f \in BOOLEAN,
           Update(p, Recycle(proc[p], m, f))
    PROVE  proc'[p].pc = "acquire"
<1> DEFINE r == Recycle(proc[p], m, f)
<1>0. Sound(proc[p]) BY ProcSound
<1>1. /\ r.pc = "acquire"
  BY <1>0, RecycleSound
<1>2. proc'[p] = r BY UpdateHere
<1> HIDE DEF r
<1>. QED BY <1>1, <1>2

LEMMA DeadlineStep ==
    ASSUME TypeInv, NEW p \in Procs,
           NEW e \in BOOLEAN,
           Update(p, [proc[p] EXCEPT !.pc = "deadline", !.enabled = e])
    PROVE  proc'[p].pc = "deadline"
<1> DEFINE r == [proc[p] EXCEPT !.pc = "deadline", !.enabled = e]
<1>0. Sound(proc[p]) BY ProcSound
<1>1. /\ r.pc = "deadline"
  BY <1>0, DeadlineSound
<1>2. proc'[p] = r BY UpdateHere
<1> HIDE DEF r
<1>. QED BY <1>1, <1>2

LEMMA JobStepStep ==
    ASSUME TypeInv, NEW p \in Procs, NEW j \in Jobs, NEW pc \in Consuming \cup {"done"},
           JobStep(p, pc, j)
    PROVE  proc'[p].pc = pc
<1> DEFINE r == [Idle EXCEPT !.op = "job", !.pc = pc, !.job = j]
<1>1. r.pc = pc BY JobStepSound
<1>2. proc'[p] = r BY UpdateHere DEF JobStep
<1> HIDE DEF r
<1>. QED BY <1>1, <1>2

LEMMA CloseStep ==
    ASSUME TypeInv, NEW p \in Procs, NEW t \in Tasks, NEW m \in Closings,
           NEW pc \in {"commit", "transition"},
           Update(p, [Idle EXCEPT !.op = "task", !.method = m, !.task = {t}, !.pc = pc])
    PROVE  proc'[p].pc = pc /\ proc'[p].op = "task"
<1> DEFINE r == [Idle EXCEPT !.op = "task", !.method = m, !.task = {t}, !.pc = pc]
<1>1. r.pc = pc /\ r.op = "task" BY CloseSound
<1>2. proc'[p] = r BY UpdateHere
<1> HIDE DEF r
<1>. QED BY <1>1, <1>2

LEMMA BeginStep ==
    ASSUME TypeInv, NEW p \in Procs, NEW op \in {"activity", "repair"}, NEW e \in BOOLEAN,
           Update(p, [Idle EXCEPT !.op = op, !.pc = "deadline", !.enabled = e])
    PROVE  proc'[p].pc = "deadline"
<1> DEFINE r == [Idle EXCEPT !.op = op, !.pc = "deadline", !.enabled = e]
<1>1. r.pc = "deadline" BY BeginSound
<1>2. proc'[p] = r BY UpdateHere
<1> HIDE DEF r
<1>. QED BY <1>1, <1>2

LEMMA ForceStep ==
    ASSUME TypeInv, NEW p \in Procs, NEW op \in {"delete vm", "expire"}, NEW m \in Methods,
           Update(p, Recycle([Idle EXCEPT !.op = op], m, TRUE))
    PROVE  proc'[p].pc = "acquire"
<1> DEFINE r == Recycle([Idle EXCEPT !.op = op], m, TRUE)
<1>1. r.pc = "acquire" BY ForceSound, RecycleSound
<1>2. proc'[p] = r BY UpdateHere
<1> HIDE DEF r
<1>. QED BY <1>1, <1>2

-----------------------------------------------------------------------------
(* The inductive invariant.  A step of p keeps what the other goroutines   *)
(* know, because nothing is undone; what p itself knows afterwards depends *)
(* on the step.                                                            *)

\* Program counters of which the invariant says nothing.
Outside == {"idle", "acquire", "deadline", "done", "handle", "retry", "compensate"}

LEMMA OutsideKnows ==
    ASSUME NEW p \in Procs, proc'[p].pc \in Outside
    PROVE  HoldsLock(p)' /\ KnowsVM(p)' /\ KnowsTasks(p)'
    BY DEF Outside, Consuming, HoldsLock, KnowsVM, KnowsTasks, Inside

\* The tasks that run without having been set running again beside q.
Left(q) == {t \in Tasks : ~Terminal(t)} \ reopened[q]

LEMMA LeftShrinks ==
    ASSUME Onward, NEW q \in Procs, reopened'[q] = reopened[q]
    PROVE  Left(q)' \subseteq Left(q)
    BY DEF Onward, Terminal, Left

\* What a goroutine has learnt, kept while its locals are.
LEMMA OthersKnow ==
    ASSUME TypeInv, Onward, NEW q \in Procs, proc'[q] = proc[q], reopened'[q] = reopened[q],
           KnowsVM(q), KnowsTasks(q)
    PROVE  KnowsVM(q)' /\ KnowsTasks(q)'
<1>1. ~remote => ~remote' BY DEF Onward
<1>2. Excused => Excused'
  BY DEF Onward, Excused
<1>3. record # NoRecord => record' # NoRecord BY DEF Onward
<1>4. vm.recycled => vm'.recycled BY DEF Onward
<1>5. KnowsVM(q)' BY <1>1, <1>2, <1>3, <1>4 DEF KnowsVM
<1>6. Left(q)' \subseteq Left(q) BY LeftShrinks
<1>7. KnowsTasks(q)' BY <1>6 DEF KnowsTasks, Left
<1>. QED BY <1>5, <1>7

LEMMA StepReopens ==
    ASSUME TypeInv, NEW p \in Procs,
           \/ Begin(p) \/ ClaimJob(p) \/ RecycleStep(p) \/ CallerStep(p)
           \/ ConsumerStep(p) \/ Failure(p)
    PROVE  /\ \A q \in Procs \ {p} : reopened'[q] = reopened[q]
           /\ reopened' = reopened \/ Release(p) \/ Crash(p)
<1>0. reopened \in [Procs -> SUBSET Tasks] BY DEF TypeInv, TypeOK
<1>1. CASE Release(p) \/ Crash(p) BY <1>0, <1>1 DEF Release, Crash
<1>2. CASE RecycleStep(p) /\ ~Release(p)
  BY <1>2 DEF RecycleStep, Acquire, AcquireHeld, LoadVM, RemoteDelete, RemoteDeleteFails,
     MarkRecycled, CreateRecord, FinishTask, TasksFinished, CleanRedis, RemoveRecycleJob
<1>3. CASE Begin(p) \/ ClaimJob(p)
  BY <1>3 DEF Begin, CloseTask, DeleteVM, ExpireVM, RecordActivity, Repair, ClaimJob
<1>4. CASE CallerStep(p)
  BY <1>4 DEF CallerStep, Transition, HookReturns, CommitTask, DeleteVMReturns,
     ExpireReturns, DeleteRow, MoveDeadline
<1>5. CASE ConsumerStep(p)
  BY <1>5 DEF ConsumerStep, HandleJob, JobReturns, Compensate, CompensateRecord,
     RequeueJob, DeleteJob
<1>6. CASE Failure(p) /\ ~Crash(p)
  BY <1>6 DEF Failure, RecycleFails, AcquireFails, HandlerFails, LastCommandFails
<1>. QED BY <1>1, <1>2, <1>3, <1>4, <1>5, <1>6

\* recycle of p, step by step.
LEMMA KnowsRecycleStep ==
    ASSUME TypeInv, RecycleInv, Onward, NEW p \in Procs,
           RecycleStep(p) \/ RecycleFails(p) \/ AcquireFails(p)
    PROVE  KnowsVM(p)' /\ KnowsTasks(p)'
<1>0. Sound(proc[p]) BY ProcSound
<1>k. KnowsVM(p) /\ KnowsTasks(p) /\ HoldsLock(p) BY DEF RecycleInv
<1>r. proc[p].pc # "release" => Left(p)' \subseteq Left(p)
  BY StepReopens, LeftShrinks DEF Failure, Release, Crash, RecycleFails, AcquireFails,
     RecycleStep, Acquire, AcquireHeld, LoadVM, RemoteDelete, RemoteDeleteFails,
     MarkRecycled, CreateRecord, FinishTask, TasksFinished, CleanRedis, RemoveRecycleJob
<1>pc. Inside \cup {"return"} \subseteq PCs /\ (Inside \cup {"return"}) \cap Consuming = {}
  BY DEF PCs, Inside, Consuming
<1>g. proc[p].gone \in BOOLEAN /\ proc[p].force \in BOOLEAN
  BY <1>0 DEF Sound, ProcStates
\* A failure leaves nothing to know.
<1>l. ASSUME NEW e \in Errors \ {"nil"}, Leave(p, e) PROVE KnowsVM(p)' /\ KnowsTasks(p)'
  <2>1. proc'[p].pc = "release" /\ proc'[p].err # "nil"
    BY <1>0, <1>l, LeaveStep DEF Leave
  <2>. QED BY <2>1 DEF KnowsVM, KnowsTasks
<1>1. CASE Acquire(p)
  <2>1. proc'[p].pc = "load"
    BY <1>0, <1>1, <1>pc, GotoStep DEF Acquire, Inside
  <2>. QED BY <2>1 DEF KnowsVM, KnowsTasks
<1>2. CASE AcquireHeld(p) \/ AcquireFails(p)
  <2>1. proc'[p].pc = "return" /\ proc'[p].err # "nil"
    BY <1>0, <1>2, ReturnStep DEF AcquireHeld, AcquireFails, Errors
  <2>. QED BY <2>1 DEF KnowsVM, KnowsTasks
<1>3. CASE LoadVM(p)
  <2> DEFINE pc == IF vm.recycled THEN "record" ELSE "remote"
             S == {t \in Tasks : ~Terminal(t)}
  <2>1. vm.recycled \in BOOLEAN BY SharedTyped DEF Shared
  <2>2. /\ Update(p, [proc[p] EXCEPT !.pc = pc, !.gone = vm.recycled, !.snapshot = S])
        /\ UNCHANGED <<vm, remote, record, task, abandoned, faults>>
    BY <1>3 DEF LoadVM
  <2>3. pc \in {"record", "remote"} /\ S \in SUBSET Tasks OBVIOUS
  <2>4. proc'[p].pc = pc /\ proc'[p].gone = vm.recycled /\ proc'[p].snapshot = S
    BY <2>1, <2>2, <2>3, LoadStep
  <2>5. vm.recycled => Excused \/ record # NoRecord
    <3> SUFFICES ASSUME vm.recycled, ~Excused, record = NoRecord PROVE FALSE OBVIOUS
    <3>1. abandoned = "forced" /\ faults = 0
      BY RecycleAssumption DEF RecycleInv, RecycledMeansGone, Excused, TypeInv, TypeOK
    <3>2. PICK q \in Procs : At(q, "record")
      BY <3>1 DEF RecycleInv, ForcedIsRecorded
    <3>3. overrun = {} BY <3>1 DEF RecycleInv, ForcedIsRecorded
    <3>4. HoldsLock(q) BY DEF RecycleInv
    <3>5. lock = q BY <3>2, <3>3, <3>4 DEF HoldsLock, Inside
    <3>6. lock = p BY <1>k, <1>3, <3>3 DEF LoadVM, HoldsLock, Inside
    <3>. QED BY <1>3, <3>2, <3>5, <3>6 DEF LoadVM
  <2>6. KnowsVM(p)'
    BY <2>2, <2>4, <2>5 DEF KnowsVM, Excused
  <2>7. KnowsTasks(p)'
    <3>1. {t \in Tasks : ~Terminal(t)}' = S BY <2>2 DEF Terminal
    <3>2. proc'[p].pc \in {"remote", "record"} BY <2>3, <2>4
    <3>. QED BY <2>4, <3>1, <3>2 DEF KnowsTasks
  <2>. QED BY <2>6, <2>7
<1>4. CASE RemoteDelete(p)
  <2>1. /\ proc'[p].pc = "mark" /\ proc'[p].gone
        /\ proc'[p].snapshot = proc[p].snapshot
    BY <1>0, <1>4, MarkStep DEF RemoteDelete
  <2>2. remote' = FALSE /\ proc[p].pc = "remote" BY <1>4 DEF RemoteDelete
  <2>. QED BY <2>1, <2>2, <1>k, <1>r DEF KnowsVM, KnowsTasks, Left
<1>5. CASE RemoteDeleteFails(p)
  <2>1. CASE ~proc[p].force BY <1>5, <1>l, <2>1 DEF RemoteDeleteFails, Errors
  <2>2. CASE proc[p].force
    <3>1. Update(p, [proc[p] EXCEPT !.pc = "mark"]) /\ proc[p].pc = "remote"
      BY <1>5, <2>2 DEF RemoteDeleteFails
    <3>2. /\ proc'[p].pc = "mark" /\ proc'[p].force = proc[p].force
          /\ proc'[p].gone = proc[p].gone /\ proc'[p].snapshot = proc[p].snapshot
      BY <1>0, <1>pc, <3>1, GotoStep DEF Inside
    <3>3. ~proc[p].gone BY <3>1, <1>k DEF KnowsVM
    <3>. QED BY <2>2, <3>1, <3>2, <3>3, <1>k, <1>r DEF KnowsVM, KnowsTasks, Left
  <2>. QED BY <2>1, <2>2
<1>6. CASE MarkRecycled(p)
  <2>1. /\ Update(p, [proc[p] EXCEPT !.pc = "record"]) /\ proc[p].pc = "mark"
        /\ vm' = [vm EXCEPT !.recycled = TRUE] /\ remote' = remote
    BY <1>6 DEF MarkRecycled
  <2>2. /\ proc'[p].pc = "record" /\ proc'[p].gone = proc[p].gone
        /\ proc'[p].snapshot = proc[p].snapshot
    BY <1>0, <1>pc, <2>1, GotoStep DEF Inside
  <2>3. vm'.recycled BY <2>1, SharedTyped DEF Shared
  <2>. QED BY <2>1, <2>2, <2>3, <1>k, <1>r DEF KnowsVM, KnowsTasks, Left, Excused
<1>7. CASE CreateRecord(p)
  <2>1. /\ proc'[p].pc = "tasks" /\ proc[p].pc = "record"
        /\ proc'[p].snapshot = proc[p].snapshot
    BY <1>0, <1>7, TasksStep DEF CreateRecord
  <2>2. vm'.recycled BY <2>1, <1>k DEF KnowsVM, Onward
  <2>. QED BY <2>1, <2>2, <1>k, <1>r DEF KnowsVM, KnowsTasks, Left
<1>8. ASSUME NEW t \in Tasks, FinishTask(p, t) PROVE KnowsVM(p)' /\ KnowsTasks(p)'
  <2>0. proc[p].pc = "tasks" BY <1>8 DEF FinishTask
  <2>1. CASE /\ task' = [task EXCEPT ![t] = "ended"]
             /\ Update(p, [proc[p] EXCEPT !.snapshot = @ \ {t}])
    <3>1. /\ proc'[p].pc = "tasks" /\ proc'[p].clean = proc[p].clean
          /\ proc'[p].snapshot = proc[p].snapshot \ {t}
      BY <2>0, <2>1, FinishStep
    <3>2. vm'.recycled BY <2>0, <1>k DEF KnowsVM, Onward
    <3>3. t \notin {u \in Tasks : ~Terminal(u)}'
      BY <2>1, SharedTyped DEF Shared, Terminal
    <3>. QED BY <2>0, <3>1, <3>2, <3>3, <1>k, <1>r DEF KnowsVM, KnowsTasks, Left
  <2>2. CASE Update(p, [proc[p] EXCEPT !.snapshot = @ \ {t}, !.clean = FALSE])
    <3>1. proc'[p].pc = "tasks" /\ ~proc'[p].clean
      BY <2>0, <2>2, FinishFailsStep
    <3>2. vm'.recycled BY <2>0, <1>k DEF KnowsVM, Onward
    <3>. QED BY <3>1, <3>2 DEF KnowsVM, KnowsTasks
  <2>. QED BY <1>8, <2>1, <2>2 DEF FinishTask
<1>9. CASE TasksFinished(p)
  <2>1. /\ Update(p, [proc[p] EXCEPT !.pc = "clean"])
        /\ proc[p].pc = "tasks" /\ proc[p].snapshot = {}
    BY <1>9 DEF TasksFinished
  <2>2. proc'[p].pc = "clean" /\ proc'[p].clean = proc[p].clean
    BY <1>0, <1>pc, <2>1, GotoStep DEF Inside
  <2>3. vm'.recycled BY <2>1, <1>k DEF KnowsVM, Onward
  <2>. QED BY <2>1, <2>2, <2>3, <1>k, <1>r DEF KnowsVM, KnowsTasks, Left
<1>10. CASE CleanRedis(p)
  <2>0. proc[p].pc = "clean" BY <1>10 DEF CleanRedis
  <2>1. CASE Leave(p, "other") BY <1>l, <2>1 DEF Errors
  <2>2. CASE proc[p].clean /\ Update(p, [proc[p] EXCEPT !.pc = "unqueue"])
    <3>1. proc'[p].pc = "unqueue" BY <1>0, <1>pc, <2>2, GotoStep DEF Inside
    <3>2. vm'.recycled BY <2>0, <1>k DEF KnowsVM, Onward
    <3>. QED BY <2>0, <2>2, <3>1, <3>2, <1>k, <1>r DEF KnowsVM, KnowsTasks, Left
  <2>. QED BY <1>10, <2>1, <2>2 DEF CleanRedis
<1>11. CASE RemoveRecycleJob(p)
  <2>1. proc'[p].pc = "release" /\ proc[p].pc = "unqueue"
    BY <1>0, <1>11, LeaveStep DEF RemoveRecycleJob, Leave, Errors
  <2>2. vm'.recycled BY <2>1, <1>k DEF KnowsVM, Onward
  <2>. QED BY <2>1, <2>2 DEF KnowsVM, KnowsTasks
<1>12. CASE Release(p)
  <2>1. Update(p, [proc[p] EXCEPT !.pc = "return"]) /\ proc[p].pc = "release"
    BY <1>12 DEF Release
  <2>2. proc'[p].pc = "return" /\ proc'[p].err = proc[p].err
    BY <1>0, <1>pc, <2>1, GotoStep
  <2>3. vm.recycled => vm'.recycled BY DEF Onward
  <2>. QED BY <2>1, <2>2, <2>3, <1>k DEF KnowsVM, KnowsTasks
<1>13. CASE RecycleFails(p)
  BY <1>13, <1>l DEF RecycleFails, Errors
<1>. QED BY <1>1, <1>2, <1>3, <1>4, <1>5, <1>6, <1>7, <1>8, <1>9, <1>10, <1>11, <1>12,
        <1>13 DEF RecycleStep

\* Any other step of p leaves it where the invariant says little of it.
LEMMA KnowsOtherStep ==
    ASSUME TypeInv, RecycleInv, Onward, NEW p \in Procs,
           \/ Begin(p) \/ ClaimJob(p) \/ CallerStep(p) \/ ConsumerStep(p)
           \/ HandlerFails(p) \/ LastCommandFails(p) \/ Crash(p)
    PROVE  HoldsLock(p)' /\ KnowsVM(p)' /\ KnowsTasks(p)'
<1>0. Sound(proc[p]) BY ProcSound
<1>k. KnowsVM(p) BY DEF RecycleInv
<1>v. vm.recycled => vm'.recycled BY DEF Onward
<1>i. ASSUME Update(p, Idle) PROVE proc'[p].pc \in Outside
  BY <1>i, IdleSound, UpdateHere DEF Outside
<1>c. ASSUME Update(p, [proc[p] EXCEPT !.pc = "commit"]),
             proc[p].op = "task" \/ vm.recycled
      PROVE  HoldsLock(p)' /\ KnowsVM(p)' /\ KnowsTasks(p)'
  <2>1. proc'[p].pc = "commit" /\ proc'[p].op = proc[p].op
    BY <1>0, <1>c, GotoStep DEF PCs, Consuming
  <2>. QED BY <1>c, <1>v, <2>1 DEF HoldsLock, KnowsVM, KnowsTasks, Inside
<1>j. ASSUME NEW j \in Jobs, NEW pc \in {"handle", "retry", "compensate", "done"},
             JobStep(p, pc, j)
      PROVE  proc'[p].pc \in Outside
  BY <1>j, JobStepStep DEF JobStep, Outside, Consuming
<1>m. proc[p].method \in Methods BY <1>0 DEF Sound, ProcStates
<1>1. CASE Transition(p)
  <2>1. CASE Update(p, Recycle(proc[p], proc[p].method, FALSE))
    <3>1. proc'[p].pc \in Outside
      BY <1>0, <1>m, <2>1, RecycleBegins DEF Outside
    <3>. QED BY <3>1, OutsideKnows
  <2>2. CASE Update(p, [proc[p] EXCEPT !.pc = "commit"])
    <3>1. proc[p].op = "task" BY <1>1, <1>k DEF Transition, KnowsVM
    <3>. QED BY <1>c, <2>2, <3>1
  <2>. QED BY <1>1, <2>1, <2>2 DEF Transition
<1>2. CASE HookReturns(p)
  <2>1. Update(p, [proc[p] EXCEPT !.pc = "commit"]) /\ proc[p].op = "task"
    BY <1>2 DEF HookReturns
  <2>. QED BY <1>c, <2>1
<1>3. CASE DeleteVMReturns(p)
  <2>1. CASE Update(p, Idle) BY <1>i, <2>1, OutsideKnows
  <2>2. CASE proc[p].err = "nil" /\ Update(p, [proc[p] EXCEPT !.pc = "commit"])
    <3>1. vm.recycled BY <1>3, <1>k, <2>2 DEF DeleteVMReturns, KnowsVM
    <3>. QED BY <1>c, <2>2, <3>1
  <2>. QED BY <1>3, <2>1, <2>2 DEF DeleteVMReturns
<1>4. CASE \/ CommitTask(p) \/ DeleteRow(p) \/ ExpireReturns(p) \/ MoveDeadline(p)
           \/ RequeueJob(p) \/ DeleteJob(p) \/ LastCommandFails(p) \/ Crash(p)
  <2>1. Update(p, Idle)
    BY <1>4 DEF CommitTask, DeleteRow, ExpireReturns, MoveDeadline, RequeueJob, DeleteJob,
                LastCommandFails, Crash
  <2>. QED BY <1>i, <2>1, OutsideKnows
<1>5. CASE HandleJob(p)
  <2>1. proc[p].job \in Jobs /\ proc[p].job.method \in Methods
    BY <1>5, JobTyped DEF HandleJob, Consuming
  <2>2. ASSUME NEW pc \in {"compensate", "done"}, Update(p, [proc[p] EXCEPT !.pc = pc])
        PROVE  proc'[p].pc \in Outside
    <3>1. proc[p].job # NoJob BY <2>1, RecycleAssumption
    <3>2. pc \in PCs /\ pc \in Outside BY DEF PCs, Consuming, Outside
    <3>. QED BY <2>2, <3>1, <3>2, GotoStep
  <2>3. ASSUME Update(p, Recycle(proc[p], proc[p].job.method, FALSE))
        PROVE  proc'[p].pc \in Outside
    BY <1>0, <2>1, <2>3, RecycleBegins DEF Outside
  <2>4. ASSUME NEW e \in Policies,
               Update(p, [proc[p] EXCEPT !.pc = "deadline", !.enabled = e])
        PROVE  proc'[p].pc \in Outside
    BY <1>0, <2>4, DeadlineStep, RecycleAssumption DEF Outside
  <2>5. proc'[p].pc \in Outside BY <1>5, <2>2, <2>3, <2>4 DEF HandleJob
  <2>. QED BY <2>5, OutsideKnows
<1>6. CASE JobReturns(p)
  <2>1. proc'[p].pc \in Outside
    BY <1>6, <1>j, JobTyped DEF JobReturns, Consuming
  <2>. QED BY <2>1, OutsideKnows
<1>7. CASE Compensate(p)
  <2>0. proc[p].job \in Jobs BY <1>7, JobTyped DEF Compensate, Consuming
  <2>1. CASE /\ Update(p, [proc[p] EXCEPT !.pc = "compensate record"])
             /\ vm' = [vm EXCEPT !.recycled = TRUE]
    <3>1. proc[p].job # NoJob BY <2>0, RecycleAssumption
    <3>2. proc'[p].pc = "compensate record"
      BY <1>0, <2>1, <3>1, GotoStep DEF PCs, Consuming
    <3>3. vm'.recycled BY <2>1 DEF TypeInv, TypeOK
    <3>. QED BY <3>2, <3>3 DEF HoldsLock, KnowsVM, KnowsTasks, Inside
  <2>2. CASE JobStep(p, "retry", RetryForever(proc[p].job))
    <3>1. proc'[p].pc \in Outside BY <1>j, <2>0, <2>2, RetryTyped DEF Consuming
    <3>. QED BY <3>1, OutsideKnows
  <2>. QED BY <1>7, <2>1, <2>2 DEF Compensate
<1>8. CASE CompensateRecord(p)
  <2>1. Update(p, [proc[p] EXCEPT !.pc = "done"]) BY <1>8 DEF CompensateRecord
  <2>2. proc'[p].pc \in Outside
    BY <1>0, <2>1, GotoStep DEF PCs, Consuming, Outside
  <2>. QED BY <2>2, OutsideKnows
<1>9. CASE HandlerFails(p)
  <2>1. JobStep(p, "retry", RetryForever(proc[p].job)) /\ proc[p].job \in Jobs
    BY <1>9, JobTyped DEF HandlerFails, Consuming
  <2>2. proc'[p].pc \in Outside BY <1>j, <2>1, RetryTyped DEF Consuming
  <2>. QED BY <2>2, OutsideKnows
<1>10. ASSUME NEW t \in Tasks, NEW m \in Closings, CloseTask(p, t, m)
       PROVE  HoldsLock(p)' /\ KnowsVM(p)' /\ KnowsTasks(p)'
  <2>1. PICK pc \in {"commit", "transition"} :
          Update(p, [Idle EXCEPT !.op = "task", !.method = m, !.task = {t}, !.pc = pc])
    BY <1>10 DEF CloseTask
  <2>2. proc'[p].pc \in {"commit", "transition"} /\ proc'[p].op = "task"
    BY <2>1, CloseStep
  <2>. QED BY <2>2 DEF HoldsLock, KnowsVM, KnowsTasks, Inside
<1>11. CASE DeleteVM(p) \/ ExpireVM(p)
  <2>1. proc'[p].pc \in Outside
    BY <1>11, ForceStep DEF DeleteVM, ExpireVM, Methods, Outside
  <2>. QED BY <2>1, OutsideKnows
<1>12. CASE RecordActivity(p) \/ Repair(p)
  <2>1. proc'[p].pc \in Outside
    BY <1>12, BeginStep, RecycleAssumption DEF RecordActivity, Repair, Outside
  <2>. QED BY <2>1, OutsideKnows
<1>13. CASE ClaimJob(p)
  <2>1. CASE UNCHANGED proc
    BY <1>13, <2>1, OutsideKnows DEF ClaimJob, Outside
  <2>2. CASE job # NoJob /\ Update(p, [Idle EXCEPT !.op = "job", !.pc = "handle", !.job = job])
    <3>1. job \in Jobs BY <2>2, SharedTyped DEF Shared
    <3>2. proc'[p].pc \in Outside
      BY <2>2, <3>1, JobStepStep DEF JobStep, Consuming, Outside
    <3>. QED BY <3>2, OutsideKnows
  <2>. QED BY <1>13, <2>1, <2>2 DEF ClaimJob
<1>. QED BY <1>1, <1>2, <1>3, <1>4, <1>5, <1>6, <1>7, <1>8, <1>9, <1>10, <1>11, <1>12,
        <1>13 DEF Begin, CallerStep, ConsumerStep

\* No step of p moves another goroutine.
LEMMA OthersStay ==
    ASSUME TypeInv, NEW p \in Procs,
           \/ Begin(p) \/ ClaimJob(p) \/ RecycleStep(p) \/ CallerStep(p)
           \/ ConsumerStep(p) \/ Failure(p)
    PROVE  \A q \in Procs \ {p} : proc'[q] = proc[q]
<1>0. proc \in [Procs -> ProcStates] BY DEF TypeInv, TypeOK
<1>1. ASSUME \E s : Update(p, s) PROVE \A q \in Procs \ {p} : proc'[q] = proc[q]
  BY <1>0, <1>1 DEF Update
<1>2. CASE RecycleStep(p)
  <2>1. \E s : Update(p, s)
    BY <1>2 DEF RecycleStep, Acquire, AcquireHeld, LoadVM, RemoteDelete, RemoteDeleteFails,
       MarkRecycled, CreateRecord, FinishTask, TasksFinished, CleanRedis,
       RemoveRecycleJob, Release, Leave
  <2>. QED BY <1>1, <2>1
<1>3. CASE Failure(p)
  <2>1. \E s : Update(p, s)
    BY <1>3 DEF Failure, RecycleFails, AcquireFails, HandlerFails, LastCommandFails,
       Crash, Leave, JobStep
  <2>. QED BY <1>1, <2>1
<1>4. CASE CallerStep(p)
  <2>1. \E s : Update(p, s)
    BY <1>4 DEF CallerStep, Transition, HookReturns, CommitTask, DeleteVMReturns, ExpireReturns,
       DeleteRow, MoveDeadline
  <2>. QED BY <1>1, <2>1
<1>5. CASE ConsumerStep(p)
  <2>1. \E s : Update(p, s)
    BY <1>5 DEF ConsumerStep, HandleJob, JobReturns, Compensate, CompensateRecord,
       RequeueJob, DeleteJob, JobStep
  <2>. QED BY <1>1, <2>1
<1>6. CASE Begin(p)
  <2>1. \E s : Update(p, s)
    BY <1>6 DEF Begin, CloseTask, DeleteVM, ExpireVM, RecordActivity, Repair
  <2>. QED BY <1>1, <2>1
<1>7. CASE ClaimJob(p)
  <2>1. UNCHANGED proc \/ \E s : Update(p, s) BY <1>7 DEF ClaimJob
  <2>. QED BY <1>1, <2>1
<1>. QED BY <1>2, <1>3, <1>4, <1>5, <1>6, <1>7

\* The lock.
LEMMA LockStep ==
    ASSUME TypeInv, RecycleInv, Onward, NEW p \in Procs,
           \/ Begin(p) \/ ClaimJob(p) \/ RecycleStep(p) \/ CallerStep(p)
           \/ ConsumerStep(p) \/ Failure(p)
    PROVE  \A q \in Procs : HoldsLock(q)'
<1>o. \A q \in Procs \ {p} : proc'[q] = proc[q] BY OthersStay
<1>h. \A q \in Procs : HoldsLock(q) BY DEF RecycleInv
<1>0. Sound(proc[p]) BY ProcSound
<1>1. CASE Acquire(p)
  <2>1. lock = Nobody /\ lock' = p /\ overrun' = overrun \ {p} BY <1>1 DEF Acquire
  <2>. QED BY <1>o, <1>h, <2>1, RecycleAssumption DEF HoldsLock
<1>2. CASE Release(p)
  <2>1. /\ lock' = IF lock = p THEN Nobody ELSE lock
        /\ overrun' = overrun \ {p}
        /\ Update(p, [proc[p] EXCEPT !.pc = "return"])
    BY <1>2 DEF Release
  <2>2. proc'[p].pc = "return" BY <2>1, GotoStep DEF PCs, Consuming
  <2>. QED BY <1>o, <1>h, <2>1, <2>2 DEF HoldsLock, Inside
<1>3. CASE RecycleFails(p) \/ AcquireFails(p) \/ (RecycleStep(p) /\ ~Acquire(p) /\ ~Release(p))
  <2>1. lock' = lock /\ overrun' = overrun
    BY <1>3 DEF RecycleFails, AcquireFails, RecycleStep, AcquireHeld, LoadVM, RemoteDelete,
       RemoteDeleteFails, MarkRecycled, CreateRecord, FinishTask, TasksFinished,
       CleanRedis, RemoveRecycleJob
  <2>2. proc[p].pc \in Inside \/ proc[p].pc = "acquire"
    BY <1>3 DEF RecycleFails, AcquireFails, RecycleStep, AcquireHeld, LoadVM, RemoteDelete,
       RemoteDeleteFails, MarkRecycled, CreateRecord, FinishTask, TasksFinished,
       CleanRedis, RemoveRecycleJob, Inside
  <2>3. ASSUME proc[p].pc = "acquire" PROVE proc'[p].pc \notin Inside
    <3>1. PICK e \in Errors : Update(p, [proc[p] EXCEPT !.pc = "return", !.err = e])
      BY <1>3, <2>3
      DEF RecycleFails, AcquireFails, RecycleStep, AcquireHeld, LoadVM, RemoteDelete,
          RemoteDeleteFails, MarkRecycled, CreateRecord, FinishTask, TasksFinished,
          CleanRedis, RemoveRecycleJob, Errors
    <3>2. proc'[p].pc = "return" BY <3>1, ReturnStep
    <3>. QED BY <3>2 DEF Inside
  <2>. QED BY <1>o, <1>h, <2>1, <2>2, <2>3 DEF HoldsLock
<1>4. CASE \/ Begin(p) \/ ClaimJob(p) \/ CallerStep(p) \/ ConsumerStep(p)
           \/ HandlerFails(p) \/ LastCommandFails(p) \/ Crash(p)
  <2>1. HoldsLock(p)' BY <1>4, KnowsOtherStep
  <2>2. lock' = lock
    BY <1>4 DEF Begin, CloseTask, DeleteVM, ExpireVM, RecordActivity, Repair, ClaimJob,
       CallerStep, Transition, HookReturns, CommitTask, DeleteVMReturns,
       ExpireReturns, DeleteRow, MoveDeadline, ConsumerStep, HandleJob, JobReturns,
       Compensate, CompensateRecord, RequeueJob,
       DeleteJob, HandlerFails, LastCommandFails, Crash
  <2>3. overrun' = overrun \/ overrun' = overrun \ {p}
    BY <1>4 DEF Begin, CloseTask, DeleteVM, ExpireVM, RecordActivity, Repair, ClaimJob,
       CallerStep, Transition, HookReturns, CommitTask, DeleteVMReturns,
       ExpireReturns, DeleteRow, MoveDeadline, ConsumerStep, HandleJob, JobReturns,
       Compensate, CompensateRecord, RequeueJob,
       DeleteJob, HandlerFails, LastCommandFails, Crash
  <2>. QED BY <1>o, <1>h, <2>1, <2>2, <2>3 DEF HoldsLock
<1>. QED BY <1>1, <1>2, <1>3, <1>4 DEF Failure

\* The VM, its record and who gave the environment up.
LEMMA StateFrame ==
    ASSUME Onward, RecycledMeansGone, RecordIsTrue,
           vm'.recycled => vm.recycled, record' = record
    PROVE  RecycledMeansGone' /\ RecordIsTrue'
<1>1. Excused => Excused' BY DEF Onward, Excused
<1>. QED BY <1>1 DEF Onward, RecycledMeansGone, RecordIsTrue

LEMMA StateStep ==
    ASSUME TypeInv, RecycleInv, Onward, NEW p \in Procs,
           \/ Begin(p) \/ ClaimJob(p) \/ RecycleStep(p) \/ CallerStep(p)
           \/ ConsumerStep(p) \/ Failure(p)
    PROVE  RecycledMeansGone' /\ RecordIsTrue'
<1>0. RecycledMeansGone /\ RecordIsTrue /\ KnowsVM(p) BY DEF RecycleInv
<1>e. Excused => Excused' BY DEF Onward, Excused
<1>1. CASE MarkRecycled(p)
  <2>1. /\ proc[p].pc = "mark" /\ remote' = remote /\ record' = record
        /\ abandoned' = IF abandoned = "no" /\ proc[p].force /\ ~proc[p].gone
                        THEN "forced" ELSE abandoned
    BY <1>1 DEF MarkRecycled
  <2>2. RecycledMeansGone' BY <1>0, <2>1 DEF KnowsVM, RecycledMeansGone
  <2>3. RecordIsTrue' BY <1>0, <1>e, <2>1 DEF RecordIsTrue
  <2>. QED BY <2>2, <2>3
<1>2. CASE CreateRecord(p)
  <2>1. /\ proc[p].pc = "record" /\ vm' = vm
        /\ record' = IF record = NoRecord
                     THEN [method |-> proc[p].method, remoteDeleted |-> proc[p].gone]
                     ELSE record
    BY <1>2 DEF CreateRecord, Insert
  <2>2. RecycledMeansGone' BY <1>0, <2>1 DEF Onward, RecycledMeansGone
  <2>3. RecordIsTrue' BY <1>0, <1>e, <2>1 DEF RecordIsTrue, KnowsVM
  <2>. QED BY <2>2, <2>3
<1>3. CASE Compensate(p)
  <2>1. /\ record' = record
        /\ \/ abandoned' = IF vm.recycled THEN abandoned ELSE "compensated"
           \/ vm' = vm
    BY <1>3 DEF Compensate
  <2>2. RecycledMeansGone' BY <1>0, <2>1 DEF Onward, RecycledMeansGone
  <2>3. RecordIsTrue' BY <1>0, <1>e, <2>1 DEF RecordIsTrue
  <2>. QED BY <2>2, <2>3
<1>4. CASE CompensateRecord(p)
  <2>1. /\ vm' = vm
        /\ record' = IF record = NoRecord
                     THEN [method |-> proc[p].job.method, remoteDeleted |-> FALSE]
                     ELSE record
    BY <1>4 DEF CompensateRecord, Insert
  <2>2. RecycledMeansGone' BY <1>0, <2>1 DEF Onward, RecycledMeansGone
  <2>3. RecordIsTrue' BY <1>0, <1>e, <2>1 DEF RecordIsTrue
  <2>. QED BY <2>2, <2>3
<1>5. CASE DeleteRow(p)
  <2>1. proc[p].pc = "commit" /\ proc[p].op = "delete vm" /\ record' = record
    BY <1>5 DEF DeleteRow
  <2>2. vm.recycled BY <1>0, <2>1 DEF KnowsVM
  <2>. QED BY <1>0, <2>1, <2>2, StateFrame
<1>6. CASE Begin(p) \/ ClaimJob(p) \/ Failure(p)
  <2>1. vm' = vm /\ record' = record
    BY <1>6 DEF Begin, CloseTask, DeleteVM, ExpireVM, RecordActivity, Repair, ClaimJob, Failure,
       RecycleFails, AcquireFails, HandlerFails, LastCommandFails, Crash
  <2>. QED BY <1>0, <2>1, StateFrame
<1>7. CASE RecycleStep(p) /\ ~MarkRecycled(p) /\ ~CreateRecord(p)
  <2>1. vm' = vm /\ record' = record
    BY <1>7 DEF RecycleStep, Acquire, AcquireHeld, LoadVM, RemoteDelete, RemoteDeleteFails,
       FinishTask, TasksFinished, CleanRedis, RemoveRecycleJob, Release
  <2>. QED BY <1>0, <2>1, StateFrame
<1>8. CASE CallerStep(p) /\ ~DeleteRow(p)
  <2>1. vm' = vm /\ record' = record
    BY <1>8 DEF CallerStep, Transition, HookReturns, CommitTask, DeleteVMReturns, ExpireReturns,
       MoveDeadline
  <2>. QED BY <1>0, <2>1, StateFrame
<1>9. CASE ConsumerStep(p) /\ ~Compensate(p) /\ ~CompensateRecord(p)
  <2>1. vm' = vm /\ record' = record
    BY <1>9 DEF ConsumerStep, HandleJob, JobReturns, RequeueJob, DeleteJob
  <2>. QED BY <1>0, <2>1, StateFrame
<1>. QED BY <1>1, <1>2, <1>3, <1>4, <1>5, <1>6, <1>7, <1>8, <1>9

\* A VM marked by force: a goroutine at "record" leaves only by recording, or
\* by a fault.
LEMMA ForcedFrame ==
    ASSUME Onward, ForcedIsRecorded,
           abandoned' = "forced" => abandoned = "forced",
           overrun' \subseteq overrun \/ faults' > 0,
           \A q \in Procs : At(q, "record") => At(q, "record")' \/ record' # NoRecord \/ faults' > 0
    PROVE  ForcedIsRecorded'
<1>1. overrun' # {} => faults' > 0 BY DEF Onward, ForcedIsRecorded
<1>2. ASSUME abandoned' = "forced"
      PROVE  record' # NoRecord \/ faults' > 0 \/ \E q \in Procs : At(q, "record")'
  BY <1>2 DEF Onward, ForcedIsRecorded
<1>. QED BY <1>1, <1>2 DEF ForcedIsRecorded

LEMMA ForcedStep ==
    ASSUME TypeInv, RecycleInv, Onward, NEW p \in Procs,
           \/ Begin(p) \/ ClaimJob(p) \/ RecycleStep(p) \/ CallerStep(p)
           \/ ConsumerStep(p) \/ Failure(p)
    PROVE  ForcedIsRecorded'
<1>o. \A q \in Procs \ {p} : proc'[q] = proc[q] BY OthersStay
<1>0. ForcedIsRecorded BY DEF RecycleInv
<1>f. faults \in 0 .. MaxFaults BY DEF TypeInv, TypeOK
<1>1. CASE MarkRecycled(p)
  <2>1. Update(p, [proc[p] EXCEPT !.pc = "record"]) /\ overrun' = overrun
    BY <1>1 DEF MarkRecycled
  <2>2. proc'[p].pc = "record" BY <2>1, GotoStep DEF PCs, Inside, Consuming
  <2>. QED BY <1>0, <2>1, <2>2 DEF ForcedIsRecorded, Onward
<1>2. CASE CreateRecord(p)
  <2>1. /\ abandoned' = abandoned /\ overrun' = overrun
        /\ record' = IF record = NoRecord
                     THEN [method |-> proc[p].method, remoteDeleted |-> proc[p].gone]
                     ELSE record
    BY <1>2 DEF CreateRecord, Insert
  <2>2. proc[p].method \in Methods /\ proc[p].gone \in BOOLEAN
    BY ProcSound DEF ProcStates
  <2>3. record' # NoRecord BY <2>1, <2>2, RecycleAssumption
  <2>. QED BY <1>0, <2>1, <2>3, ForcedFrame
<1>3. CASE Failure(p)
  <2>1. /\ abandoned' = abandoned /\ Fault
    BY <1>3 DEF Failure, RecycleFails, AcquireFails, HandlerFails, LastCommandFails, Crash
  <2>2. faults' > 0 BY <1>f, <2>1, RecycleAssumption
  <2>. QED BY <1>0, <2>1, <2>2, ForcedFrame
<1>4. CASE RecycleStep(p) /\ ~MarkRecycled(p) /\ ~CreateRecord(p)
  <2>1. /\ abandoned' = abandoned /\ overrun' \subseteq overrun /\ proc[p].pc # "record"
    BY <1>4 DEF RecycleStep, Acquire, AcquireHeld, LoadVM, RemoteDelete, RemoteDeleteFails,
       FinishTask, TasksFinished, CleanRedis, RemoveRecycleJob, Release
  <2>. QED BY <1>0, <1>o, <2>1, ForcedFrame
<1>5. CASE CallerStep(p) \/ Begin(p) \/ ClaimJob(p)
  <2>1. /\ abandoned' = abandoned /\ overrun' = overrun /\ proc[p].pc # "record"
    BY <1>5 DEF CallerStep, Transition, HookReturns, CommitTask, DeleteVMReturns, ExpireReturns,
       DeleteRow, MoveDeadline, Begin, CloseTask, DeleteVM, ExpireVM, RecordActivity,
       Repair, ClaimJob
  <2>. QED BY <1>0, <1>o, <2>1, ForcedFrame
<1>6. CASE ConsumerStep(p)
  <2>1. /\ overrun' = overrun /\ proc[p].pc # "record"
        /\ abandoned' = "forced" => abandoned = "forced"
    BY <1>6 DEF ConsumerStep, HandleJob, JobReturns, Compensate, CompensateRecord,
       RequeueJob, DeleteJob
  <2>. QED BY <1>0, <1>o, <2>1, ForcedFrame
<1>. QED BY <1>1, <1>2, <1>3, <1>4, <1>5, <1>6

-----------------------------------------------------------------------------
LEMMA RecycleInit == Init => RecycleInv
<1> SUFFICES ASSUME Init PROVE RecycleInv OBVIOUS
<1>1. proc = [p \in Procs |-> Idle] BY DEF Init
<1>2. \A p \in Procs : proc[p].pc = "idle" BY <1>1, IdleSound
<1>3. \A p \in Procs : HoldsLock(p) /\ KnowsVM(p) /\ KnowsTasks(p)
  BY <1>2 DEF HoldsLock, KnowsVM, KnowsTasks, Inside
<1>4. ForcedIsRecorded BY DEF Init, ForcedIsRecorded
<1>5. RecycledMeansGone /\ RecordIsTrue BY DEF Init, RecycledMeansGone, RecordIsTrue
<1>. QED BY <1>3, <1>4, <1>5 DEF RecycleInv

LEMMA RecycleProcStep ==
    ASSUME TypeInv, RecycleInv, Onward, NEW p \in Procs,
           \/ Begin(p) \/ ClaimJob(p) \/ RecycleStep(p) \/ CallerStep(p)
           \/ ConsumerStep(p) \/ Failure(p)
    PROVE  RecycleInv'
<1>1. \A q \in Procs \ {p} : KnowsVM(q)' /\ KnowsTasks(q)'
  BY OthersStay, OthersKnow, StepReopens DEF RecycleInv
<1>2. KnowsVM(p)' /\ KnowsTasks(p)'
  BY KnowsRecycleStep, KnowsOtherStep DEF Failure
<1>3. \A q \in Procs : HoldsLock(q)' BY LockStep
<1>4. RecycledMeansGone' /\ RecordIsTrue' BY StateStep
<1>5. ForcedIsRecorded' BY ForcedStep
<1>. QED BY <1>1, <1>2, <1>3, <1>4, <1>5 DEF RecycleInv

\* Steps of no goroutine: only the expiry of the lock touches the invariant.
LEMMA RecycleEnvironment ==
    ASSUME TypeInv, RecycleInv, Onward, \A t \in Tasks : ~HookStarts(t),
           \/ UNCHANGED vars
           \/ \E t \in Tasks : TaskCallback(t)
           \/ BecomesDue \/ ActivityAges \/ AgentReturns \/ LockExpires
    PROVE  RecycleInv'
<1>0. proc' = proc /\ reopened' = reopened /\ vm' = vm /\ record' = record /\ abandoned' = abandoned
  BY DEF vars, TaskCallback, HookLooks, RequestGoes, TaskFails,
     BecomesDue, ActivityAges, AgentReturns, LockExpires
<1>1. \A q \in Procs : KnowsVM(q)' /\ KnowsTasks(q)'
  BY <1>0, OthersKnow DEF RecycleInv
<1>2. RecycledMeansGone' /\ RecordIsTrue' BY <1>0, StateFrame DEF RecycleInv
<1>3. CASE UNCHANGED <<lock, overrun>>
  <2>1. \A q \in Procs : HoldsLock(q)' BY <1>0, <1>3 DEF RecycleInv, HoldsLock
  <2>2. ForcedIsRecorded' BY <1>0, <1>3, ForcedFrame DEF RecycleInv
  <2>. QED BY <1>1, <1>2, <2>1, <2>2 DEF RecycleInv
<1>4. CASE LockExpires
  <2>1. /\ lock # Nobody
        /\ \/ proc[lock].pc \in Inside /\ Fault /\ overrun' = overrun \cup {lock}
           \/ proc[lock].pc \notin Inside /\ overrun' = overrun
    BY <1>4 DEF LockExpires
  <2>2. \A q \in Procs : HoldsLock(q)' BY <1>0, <2>1 DEF RecycleInv, HoldsLock
  <2>3. overrun' \subseteq overrun \/ faults' > 0
    BY <2>1, RecycleAssumption DEF TypeInv, TypeOK
  <2>4. ForcedIsRecorded' BY <1>0, <2>3, ForcedFrame DEF RecycleInv
  <2>. QED BY <1>1, <1>2, <2>2, <2>4 DEF RecycleInv
<1>5. UNCHANGED <<lock, overrun>> \/ LockExpires
  BY DEF vars, TaskCallback, HookLooks, RequestGoes, TaskFails,
     BecomesDue, ActivityAges, AgentReturns
<1>. QED BY <1>3, <1>4, <1>5

\* A start beside the goroutines inside recycle is one they do not answer for.
LEMMA RecycleStarts ==
    ASSUME TypeInv, RecycleInv, NEW t \in Tasks, HookStarts(t)
    PROVE  RecycleInv'
<1>1. /\ task' = [task EXCEPT ![t] = "running"]
      /\ reopened' = [p \in Procs |-> IF Terminal(t) /\ proc[p].pc \in Loaded
                                      THEN reopened[p] \cup {t} ELSE reopened[p]]
      /\ UNCHANGED <<vm, remote, record, lock, proc, faults, overrun, abandoned>>
  BY DEF HookStarts
<1>2. task \in [Tasks -> {"running", "ended"}] BY DEF TypeInv, TypeOK
<1>3. ASSUME NEW q \in Procs PROVE HoldsLock(q)' /\ KnowsVM(q)' /\ KnowsTasks(q)'
  <2>0. HoldsLock(q) /\ KnowsVM(q) /\ KnowsTasks(q) BY DEF RecycleInv
  <2>1. HoldsLock(q)' /\ KnowsVM(q)'
    BY <1>1, <2>0 DEF HoldsLock, KnowsVM, Excused
  <2>2. CASE proc[q].pc \notin Loaded
    BY <1>1, <2>1, <2>2 DEF KnowsTasks, Loaded, Inside
  <2>3. CASE proc[q].pc \in Loaded
    <3>1. reopened'[q] = IF Terminal(t) THEN reopened[q] \cup {t} ELSE reopened[q]
      BY <1>1, <2>3
    <3>2. Left(q)' \subseteq Left(q) BY <1>1, <1>2, <3>1 DEF Left, Terminal
    <3>3. KnowsTasks(q)' BY <1>1, <2>0, <3>2 DEF KnowsTasks, Left
    <3>. QED BY <2>1, <3>3
  <2>. QED BY <2>2, <2>3
<1>4. RecycledMeansGone' /\ RecordIsTrue'
  BY <1>1 DEF RecycleInv, RecycledMeansGone, RecordIsTrue, Excused
<1>5. ForcedIsRecorded' BY <1>1 DEF RecycleInv, ForcedIsRecorded
<1>. QED BY <1>3, <1>4, <1>5 DEF RecycleInv

THEOREM RecycleInvariant == Spec => [](TypeInv /\ RecycleInv)
<1>1. Init => TypeInv /\ RecycleInv BY TypeInit, RecycleInit
<1>2. TypeInv /\ RecycleInv /\ [Next]_vars => (TypeInv /\ RecycleInv)'
  <2> SUFFICES ASSUME TypeInv, RecycleInv, [Next]_vars PROVE TypeInv' /\ RecycleInv'
    OBVIOUS
  <2>1. TypeInv' BY TypeStep
  <2>2. CASE \E t \in Tasks : HookStarts(t) BY <2>1, <2>2, RecycleStarts
  <2>3. CASE \A t \in Tasks : ~HookStarts(t)
    <3>1. Onward BY <2>3, OnwardStep
    <3>. QED BY <2>1, <2>3, <3>1, RecycleProcStep, RecycleEnvironment DEF Next
  <2>. QED BY <2>2, <2>3
<1>. QED BY <1>1, <1>2, PTL DEF Spec

\* Mutual exclusion of recycle as far as the lock's TTL goes: OneRecycler for
\* every instance.  Every goroutine inside holds the lock or has lost it.
THEOREM RecycleIsExclusive == Spec => []OneRecycler
<1>1. RecycleInv => OneRecycler BY DEF RecycleInv, HoldsLock, OneRecycler
<1>. QED BY <1>1, RecycleInvariant, PTL

\* No environment is lost by recycling: RecycledMeansGone for every instance.
THEOREM NoEnvironmentIsLost == Spec => []RecycledMeansGone
<1>1. RecycleInv => RecycledMeansGone BY DEF RecycleInv
<1>. QED BY <1>1, RecycleInvariant, PTL

\* The record does not lie about the environment: RecordIsTrue for every
\* instance.
THEOREM RecordsTellTheTruth == Spec => []RecordIsTrue
<1>1. RecycleInv => RecordIsTrue BY DEF RecycleInv
<1>. QED BY <1>1, RecycleInvariant, PTL

\* The recycle job is removed when no task is left running that was not started
\* beside recycle, and not before: JobOutlivesTasks for every instance.
THEOREM RecycleJobGoesLast == Spec => []JobOutlivesTasks
<1>1. RecycleInv => JobOutlivesTasks
  BY DEF RecycleInv, KnowsVM, KnowsTasks, JobOutlivesTasks
<1>. QED BY <1>1, RecycleInvariant, PTL

-----------------------------------------------------------------------------
(* VMRecycle implements RecycleContract: each of its steps is a step of the *)
(* contract or leaves what the contract speaks of as it is.                 *)

Open == {t \in Tasks : ~Terminal(t)}
Waived == abandoned # "no"
Doubt == faults > 0 \/ abandoned = "compensated"

Asking == request \cup starting

\* What the contract's step is when the environment, the row and the record
\* stay as they are: tasks end, or a fault happens.
LEMMA ContractFrame ==
    ASSUME Onward, vm' = vm, remote' = remote, record' = record, abandoned' = abandoned,
           Asking' \subseteq Asking, task' = task \/ faults' = faults
    PROVE  Contract!Next \/ UNCHANGED Contract!vars
<1>1. Open' \subseteq Open BY DEF Onward, Open, Terminal
<1>2. CASE faults' = faults
  BY <1>1, <1>2 DEF Contract!Next, Contract!TasksMove, Open, Asking
<1>3. CASE task' = task
  <2>1. Open' = Open BY <1>3 DEF Open, Terminal
  <2>2. CASE Doubt' = Doubt
    BY <1>1, <2>2 DEF Contract!Next, Contract!TasksMove, Open, Asking, Doubt
  <2>3. CASE Doubt' # Doubt
    BY <2>1, <2>3 DEF Onward, Doubt, Contract!Next, Contract!Trouble, Open, Asking
  <2>. QED BY <2>2, <2>3
<1>. QED BY <1>2, <1>3

LEMMA ContractProcStep ==
    ASSUME TypeInv, RecycleInv, Onward, NEW p \in Procs,
           \/ Begin(p) \/ ClaimJob(p) \/ RecycleStep(p) \/ CallerStep(p)
           \/ ConsumerStep(p) \/ Failure(p)
    PROVE  Contract!Next \/ UNCHANGED Contract!vars
<1>0. KnowsVM(p) /\ RecycledMeansGone BY DEF RecycleInv
<1>s. proc[p] \in ProcStates BY ProcSound
<1>1. CASE RemoteDelete(p) \/ RemoteDeleteFails(p)
  <2>1. /\ vm' = vm /\ record' = record /\ task' = task /\ UNCHANGED use
        /\ abandoned' = abandoned /\ faults' = faults
        /\ remote' = remote \/ remote' = FALSE
    BY <1>1 DEF RemoteDelete, RemoteDeleteFails
  <2>2. CASE remote' = remote BY <2>1, <2>2, ContractFrame DEF Asking
  <2>3. CASE remote' = FALSE
    BY <2>1, <2>3 DEF Contract!Next, Contract!EnvironmentGoes, Terminal
  <2>. QED BY <2>1, <2>2, <2>3
<1>2. CASE MarkRecycled(p)
  <2>1. /\ vm' = [vm EXCEPT !.recycled = TRUE] /\ proc[p].pc = "mark"
        /\ UNCHANGED <<remote, record, task, use, faults>>
        /\ abandoned' = IF abandoned = "no" /\ proc[p].force /\ ~proc[p].gone
                        THEN "forced" ELSE abandoned
    BY <1>2 DEF MarkRecycled
  <2>2. vm'.recycled = TRUE /\ vm'.deleted = vm.deleted BY <2>1 DEF TypeInv, TypeOK
  <2>3. ~remote \/ Waived' BY <1>0, <2>1 DEF KnowsVM, Waived
  <2>4. (Waived => Waived') /\ Doubt' = Doubt BY <2>1 DEF Waived, Doubt
  <2>5. Open' = Open BY <2>1 DEF Open, Terminal
  <2>. QED BY <2>1, <2>2, <2>3, <2>4, <2>5
           DEF Contract!Next, Contract!Recycle, Open, Waived, Doubt
<1>3. CASE CreateRecord(p)
  <2>1. /\ proc[p].pc = "record"
        /\ UNCHANGED <<vm, remote, task, use, faults, abandoned>>
        /\ record' = IF record = NoRecord
                     THEN [method |-> proc[p].method, remoteDeleted |-> proc[p].gone]
                     ELSE record
    BY <1>3 DEF CreateRecord, Insert
  <2>2. CASE record # NoRecord BY <2>1, <2>2, ContractFrame DEF Asking
  <2>3. CASE record = NoRecord
    <3>1. proc[p].method \in Methods /\ proc[p].gone \in BOOLEAN BY <1>s DEF ProcStates
    <3>2. vm.recycled /\ (proc[p].gone => ~remote \/ Doubt)
      BY <1>0, <2>1, <2>3 DEF KnowsVM, Excused, Doubt
    <3>3. Open' = Open BY <2>1 DEF Open, Terminal
    <3>. QED BY <2>1, <2>3, <3>1, <3>2, <3>3 DEF Contract!Next, Contract!Record, Open, Doubt
  <2>. QED BY <2>2, <2>3
<1>4. CASE Compensate(p)
  <2>1. UNCHANGED <<remote, record, task, use, faults>> BY <1>4 DEF Compensate
  <2>2. CASE vm' = vm /\ abandoned' = abandoned BY <2>1, <2>2, ContractFrame DEF Asking
  <2>3. CASE /\ vm' = [vm EXCEPT !.recycled = TRUE]
             /\ abandoned' = IF vm.recycled THEN abandoned ELSE "compensated"
    <3>1. vm'.recycled = TRUE /\ vm'.deleted = vm.deleted BY <2>3 DEF TypeInv, TypeOK
    <3>2. vm.recycled \/ Waived' BY <2>3 DEF Waived
    <3>3. (Waived => Waived') /\ (Doubt => Doubt') BY <2>1, <2>3 DEF Waived, Doubt
    <3>4. Open' = Open BY <2>1 DEF Open, Terminal
    <3>. QED BY <2>1, <3>1, <3>2, <3>3, <3>4
             DEF Contract!Next, Contract!Recycle, Open, Waived, Doubt
  <2>. QED BY <1>4, <2>2, <2>3 DEF Compensate
<1>5. CASE CompensateRecord(p)
  <2>1. /\ proc[p].pc = "compensate record"
        /\ UNCHANGED <<vm, remote, task, use, faults, abandoned>>
        /\ record' = IF record = NoRecord
                     THEN [method |-> proc[p].job.method, remoteDeleted |-> FALSE]
                     ELSE record
    BY <1>5 DEF CompensateRecord, Insert
  <2>2. CASE record # NoRecord BY <2>1, <2>2, ContractFrame DEF Asking
  <2>3. CASE record = NoRecord
    <3>1. vm.recycled BY <1>0, <2>1 DEF KnowsVM
    <3>2. proc[p].job \in Jobs BY <2>1, ProcSound, <1>s DEF Sound, Consuming, ProcStates
    <3>3. proc[p].job.method \in Methods BY <3>2 DEF Jobs
    <3>4. Open' = Open BY <2>1 DEF Open, Terminal
    <3>. QED BY <2>1, <2>3, <3>1, <3>3, <3>4 DEF Contract!Next, Contract!Record, Open
  <2>. QED BY <2>2, <2>3
<1>6. CASE DeleteRow(p)
  <2>1. /\ proc[p].pc = "commit" /\ proc[p].op = "delete vm"
        /\ UNCHANGED <<remote, record, use, abandoned>>
    BY <1>6 DEF DeleteRow
  <2>2. vm.recycled BY <1>0, <2>1 DEF KnowsVM
  <2>3. CASE /\ vm' = [recycled |-> TRUE, deleted |-> TRUE]
             /\ task' = [t \in Tasks |-> IF Terminal(t) THEN task[t] ELSE "ended"]
             /\ UNCHANGED faults
    <3>1. Open' = {} BY <2>3 DEF Open, Terminal
    <3>. QED BY <2>1, <2>2, <2>3, <3>1 DEF Contract!Next, Contract!Delete, Open, TypeInv, TypeOK
  <2>4. CASE UNCHANGED <<vm, task>> BY <2>1, <2>4, ContractFrame DEF Asking
  <2>. QED BY <1>6, <2>3, <2>4 DEF DeleteRow
<1>7. CASE Begin(p) \/ ClaimJob(p) \/ Failure(p)
  <2>1. Asking' \subseteq Asking /\ UNCHANGED <<vm, remote, record, abandoned, task>>
    BY <1>7 DEF Begin, CloseTask, DeleteVM, ExpireVM, RecordActivity, Repair, ClaimJob, Failure,
       RecycleFails, AcquireFails, HandlerFails, LastCommandFails, Crash, Asking
  <2>. QED BY <2>1, ContractFrame DEF Asking
<1>8. CASE /\ RecycleStep(p) /\ ~RemoteDelete(p) /\ ~RemoteDeleteFails(p)
           /\ ~MarkRecycled(p) /\ ~CreateRecord(p)
  <2>1. Asking' \subseteq Asking /\ UNCHANGED <<vm, remote, record, abandoned>> /\ (task' = task \/ faults' = faults)
    BY <1>8 DEF RecycleStep, Acquire, AcquireHeld, LoadVM, FinishTask, TasksFinished,
       CleanRedis, DelKeys, RemoveRecycleJob, Release, Asking
  <2>. QED BY <2>1, ContractFrame DEF Asking
<1>9. CASE CallerStep(p) /\ ~DeleteRow(p)
  <2>1. Asking' \subseteq Asking /\ UNCHANGED <<vm, remote, record, abandoned>> /\ (task' = task \/ faults' = faults)
    BY <1>9 DEF CallerStep, Transition, HookReturns, CommitTask, DeleteVMReturns, ExpireReturns,
       MoveDeadline, Asking
  <2>. QED BY <2>1, ContractFrame DEF Asking
<1>10. CASE ConsumerStep(p) /\ ~Compensate(p) /\ ~CompensateRecord(p)
  <2>1. Asking' \subseteq Asking /\ UNCHANGED <<vm, remote, record, abandoned, task>>
    BY <1>10 DEF ConsumerStep, HandleJob, JobReturns, RequeueJob, DeleteJob, Asking
  <2>. QED BY <2>1, ContractFrame DEF Asking
<1>. QED BY <1>1, <1>2, <1>3, <1>4, <1>5, <1>6, <1>7, <1>8, <1>9, <1>10

LEMMA ContractStarts ==
    ASSUME NEW t \in Tasks, HookStarts(t)
    PROVE  Contract!Next
<1>1. /\ task' = [task EXCEPT ![t] = "running"] /\ t \in starting /\ starting' \subseteq starting
      /\ UNCHANGED <<vm, remote, record, request, faults, abandoned>>
  BY DEF HookStarts
<1>2. Open' \subseteq Open \cup Asking BY <1>1 DEF Open, Asking, Terminal
<1>3. Asking' \subseteq Asking BY <1>1 DEF Asking
<1>. QED BY <1>1, <1>2, <1>3 DEF Contract!Next, Contract!TasksMove, Open, Asking

LEMMA ContractEnvironment ==
    ASSUME Onward, \A t \in Tasks : ~HookStarts(t),
           \/ UNCHANGED vars
           \/ \E t \in Tasks : TaskCallback(t)
           \/ BecomesDue \/ ActivityAges \/ AgentReturns \/ LockExpires
    PROVE  Contract!Next \/ UNCHANGED Contract!vars
<1>1. CASE AgentReturns
  BY <1>1 DEF AgentReturns, Contract!Next, Contract!EnvironmentGoes, Terminal
<1>2. CASE ~AgentReturns
  <2>1. Asking' \subseteq Asking /\ UNCHANGED <<vm, remote, record, abandoned>> /\ (task' = task \/ faults' = faults)
    BY <1>2 DEF vars, TaskCallback, HookLooks, RequestGoes, TaskFails,
     BecomesDue, ActivityAges, LockExpires, Asking
  <2>. QED BY <2>1, ContractFrame DEF Asking
<1>. QED BY <1>1, <1>2

LEMMA ContractInit == Init => Contract!Init
<1> SUFFICES ASSUME Init PROVE Contract!Init OBVIOUS
<1>1. Open = Tasks BY DEF Init, Open, Terminal
<1>. QED BY <1>1, RecycleAssumption DEF Init, Contract!Init, Open

\* VMRecycle implements its contract: ImplementsContract for every instance.
THEOREM RecycleImplementsContract == Spec => ImplementsContract
<1>1. TypeInv /\ RecycleInv /\ [Next]_vars => [Contract!Next]_(Contract!vars)
  <2> SUFFICES ASSUME TypeInv, RecycleInv, [Next]_vars
               PROVE  Contract!Next \/ UNCHANGED Contract!vars
    OBVIOUS
  <2>1. CASE \E t \in Tasks : HookStarts(t) BY <2>1, ContractStarts
  <2>2. CASE \A t \in Tasks : ~HookStarts(t)
    <3>1. Onward BY <2>2, OnwardStep
    <3>. QED BY <2>2, <3>1, ContractProcStep, ContractEnvironment DEF Next
  <2>. QED BY <2>1, <2>2
<1>. QED BY <1>1, ContractInit, RecycleInvariant, PTL
         DEF Spec, ImplementsContract, Contract!Spec
=============================================================================
