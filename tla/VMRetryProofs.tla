--------------------------- MODULE VMRetryProofs ----------------------------
(***************************************************************************)
(* RetryIsKept, for any number of goroutines, tasks and attempts.          *)
(*                                                                         *)
(* The retry a Stop or Delete leaves to the recycle queue passes from hand *)
(* to hand: it is queued, or a consumer handles it, or the job is dropped  *)
(* because somebody else is recycling, who then queues it again.  The      *)
(* invariant says who has it.  The property excuses every fault, so the    *)
(* invariant speaks of the steps in which nothing but the host fails.      *)
(***************************************************************************)
EXTENDS VMRecycleProofs

USE DEF Goto, Finish, Start, At, Same, Fault, db, redis, use, history

-----------------------------------------------------------------------------
(* The inductive invariant.                                                *)

\* What a goroutine recycles the VM for, and what may have come of it.
Role(s) ==
    /\ s.pc = "idle" => s.op = "none"
    /\ s.pc \in {"acquire", "return"} \cup Inside
         => s.op \in {"task", "job", "delete vm", "expire"}
    /\ s.pc \in {"acquire"} \cup Inside /\ s.op \in {"delete vm", "expire"} => s.force
    /\ s.pc \in Consuming \cup {"done"} => s.op = "job"
    /\ s.pc \in {"tasks", "clean"} => s.clean
    /\ s.pc = "release" => s.err = "nil" \/ (s.err = "remote delete" /\ ~s.force)
    /\ s.pc = "return" => s.err # "other"

\* The row is deleted after the VM was recycled.
DeletedLast == vm.deleted => vm.recycled

\* Who holds the lock is in recycle.
LockInUse == lock # Nobody => proc[lock].pc \in Inside

\* A goroutine that will recycle the VM or leave it to the queue.
Trying(p) ==
    \/ proc[p].pc \in Inside
    \/ proc[p].op = "task" /\ proc[p].pc = "return" /\ proc[p].err # "nil"

\* A consumer that found the lock taken, and may give up its job.
PassedOver(p) ==
    /\ proc[p].op = "job"
    /\ proc[p].pc = "done" \/ (proc[p].pc = "return" /\ proc[p].err = "in progress")

\* There is one job: queued, or with one consumer.
OneJob ==
    /\ \A p, q \in Procs : proc[p].op = "job" /\ proc[q].op = "job" => p = q
    /\ Handled => entry = "none"

\* Somebody has the retry in hand ...
Attended == Pending \/ Handled \/ \E p \in Procs : Trying(p)

\* ... and the consumer that drops it leaves it to somebody else.
HandedOver == \A p \in Procs : PassedOver(p) => \E q \in Procs \ {p} : Trying(q)

Retry == OneJob /\ Attended /\ HandedOver

RetryInv ==
    faults = 0 =>
       /\ \A p \in Procs : Role(proc[p])
       /\ DeletedLast /\ LockInUse
       /\ owed = "queued" /\ ~vm.recycled => Retry

-----------------------------------------------------------------------------
(* Where a step leaves the goroutine that takes it.                        *)

\* p is at pc, with what it recycles for unchanged.
Moves(p, pc) ==
    proc'[p].pc = pc /\ proc'[p].op = proc[p].op /\ proc'[p].force = proc[p].force

LEMMA NoFault ==
    ASSUME TypeInv, faults' = 0
    PROVE  ~Fault
    BY RecycleAssumption DEF TypeInv, TypeOK

LEMMA GotoMoves ==
    ASSUME TypeInv, NEW p \in Procs, NEW pc, Goto(p, pc)
    PROVE  Moves(p, pc) /\ proc'[p].err = proc[p].err /\ proc'[p].clean = proc[p].clean
<1> DEFINE r == [proc[p] EXCEPT !.pc = pc]
<1>1. /\ r.pc = pc /\ r.op = proc[p].op /\ r.force = proc[p].force
      /\ r.err = proc[p].err /\ r.clean = proc[p].clean
  BY ProcSound DEF ProcStates
<1>2. proc'[p] = r
  BY UpdateHere
<1> HIDE DEF r
<1> QED
  BY <1>1, <1>2 DEF Moves

LEMMA LeaveMoves ==
    ASSUME TypeInv, NEW p \in Procs, NEW e, Leave(p, e)
    PROVE  Moves(p, "release") /\ proc'[p].err = e
<1> DEFINE r == [proc[p] EXCEPT !.pc = "release", !.err = e,
                                !.snapshot = {}, !.gone = FALSE, !.clean = TRUE]
<1>1. r.pc = "release" /\ r.op = proc[p].op /\ r.force = proc[p].force /\ r.err = e
  BY ProcSound DEF ProcStates
<1>2. proc'[p] = r
  BY UpdateHere DEF Leave
<1> HIDE DEF r
<1> QED
  BY <1>1, <1>2 DEF Moves

LEMMA HeldMoves ==
    ASSUME TypeInv, NEW p \in Procs, AcquireHeld(p)
    PROVE  Moves(p, "return") /\ proc'[p].err = "in progress"
<1> DEFINE r == [proc[p] EXCEPT !.pc = "return", !.err = "in progress"]
<1>1. /\ r.pc = "return" /\ r.op = proc[p].op /\ r.force = proc[p].force
      /\ r.err = "in progress"
  BY ProcSound DEF ProcStates
<1>2. proc'[p] = r
  BY UpdateHere DEF AcquireHeld
<1> HIDE DEF r
<1> QED
  BY <1>1, <1>2 DEF Moves

LEMMA LoadMoves ==
    ASSUME TypeInv, NEW p \in Procs, LoadVM(p)
    PROVE  \E pc \in {"record", "remote"} : Moves(p, pc)
<1> DEFINE pc == IF vm.recycled THEN "record" ELSE "remote"
           r == [proc[p] EXCEPT !.pc = pc, !.gone = vm.recycled,
                                !.snapshot = {t \in Tasks : ~Terminal(t)}]
<1>1. r.pc = pc /\ r.op = proc[p].op /\ r.force = proc[p].force
  BY ProcSound DEF ProcStates
<1>2. proc'[p] = r
  BY UpdateHere DEF LoadVM
<1>3. pc \in {"record", "remote"}
  OBVIOUS
<1> HIDE DEF r, pc
<1> QED
  BY <1>1, <1>2, <1>3 DEF Moves

LEMMA MarkMoves ==
    ASSUME TypeInv, NEW p \in Procs, RemoteDelete(p)
    PROVE  Moves(p, "mark")
<1> DEFINE r == [proc[p] EXCEPT !.pc = "mark", !.gone = TRUE]
<1>1. r.pc = "mark" /\ r.op = proc[p].op /\ r.force = proc[p].force
  BY ProcSound DEF ProcStates
<1>2. proc'[p] = r
  BY UpdateHere DEF RemoteDelete
<1> HIDE DEF r
<1> QED
  BY <1>1, <1>2 DEF Moves

LEMMA RecordMoves ==
    ASSUME TypeInv, NEW p \in Procs, CreateRecord(p)
    PROVE  Moves(p, "tasks") /\ proc'[p].clean
<1> DEFINE r == [proc[p] EXCEPT !.pc = "tasks", !.clean = TRUE]
<1>1. r.pc = "tasks" /\ r.op = proc[p].op /\ r.force = proc[p].force /\ r.clean
  BY ProcSound DEF ProcStates
<1>2. proc'[p] = r
  BY UpdateHere DEF CreateRecord
<1> HIDE DEF r
<1> QED
  BY <1>1, <1>2 DEF Moves

LEMMA FinishMoves ==
    ASSUME TypeInv, NEW p \in Procs, NEW t \in Tasks, FinishTask(p, t), ~Fault
    PROVE  Moves(p, "tasks") /\ proc'[p].clean = proc[p].clean
<1> DEFINE r == [proc[p] EXCEPT !.snapshot = @ \ {t}]
<1>1. /\ r.pc = proc[p].pc /\ r.op = proc[p].op /\ r.force = proc[p].force
      /\ r.clean = proc[p].clean
  BY ProcSound DEF ProcStates
<1>2. proc'[p] = r /\ proc[p].pc = "tasks"
  BY UpdateHere DEF FinishTask
<1> HIDE DEF r
<1> QED
  BY <1>1, <1>2 DEF Moves

LEMMA RecycleMoves ==
    ASSUME TypeInv, NEW p \in Procs, NEW s \in ProcStates, NEW m, NEW f,
           Update(p, Recycle(s, m, f))
    PROVE  proc'[p].pc = "acquire" /\ proc'[p].op = s.op /\ proc'[p].force = f
<1> DEFINE r == Recycle(s, m, f)
<1>1. r.pc = "acquire" /\ r.op = s.op /\ r.force = f
  BY DEF Recycle, ProcStates
<1>2. proc'[p] = r
  BY UpdateHere
<1> HIDE DEF r
<1> QED
  BY <1>1, <1>2

LEMMA DeadlineMoves ==
    ASSUME TypeInv, NEW p \in Procs, NEW e,
           Update(p, [proc[p] EXCEPT !.pc = "deadline", !.enabled = e])
    PROVE  Moves(p, "deadline")
<1> DEFINE r == [proc[p] EXCEPT !.pc = "deadline", !.enabled = e]
<1>1. r.pc = "deadline" /\ r.op = proc[p].op /\ r.force = proc[p].force
  BY ProcSound DEF ProcStates
<1>2. proc'[p] = r
  BY UpdateHere
<1> HIDE DEF r
<1> QED
  BY <1>1, <1>2 DEF Moves

LEMMA JobMoves ==
    ASSUME TypeInv, NEW p \in Procs, NEW pc, NEW j, JobStep(p, pc, j)
    PROVE  proc'[p].pc = pc /\ proc'[p].op = "job"
<1> DEFINE r == [Idle EXCEPT !.op = "job", !.pc = pc, !.job = j]
<1>1. r.pc = pc /\ r.op = "job"
  BY DEF Idle
<1>2. proc'[p] = r
  BY UpdateHere DEF JobStep
<1> HIDE DEF r
<1> QED
  BY <1>1, <1>2

LEMMA HandleMoves ==
    ASSUME TypeInv, NEW p \in Procs, HandleJob(p), Role(proc[p])
    PROVE  /\ proc'[p].op = "job"
           /\ proc'[p].pc \in {"compensate", "acquire", "done", "deadline"}
           /\ proc'[p].pc = "done" => vm.deleted
<1>1. proc[p].pc = "handle" /\ proc[p].op = "job"
  BY DEF HandleJob, Role, Consuming
<1>2. \/ Goto(p, "compensate")
      \/ Goto(p, "done") /\ vm.deleted
      \/ Update(p, Recycle(proc[p], proc[p].job.method, FALSE))
      \/ \E e \in Policies : Update(p, [proc[p] EXCEPT !.pc = "deadline", !.enabled = e])
  BY DEF HandleJob
<1>3. CASE Goto(p, "compensate") \/ (Goto(p, "done") /\ vm.deleted)
  <2>1. Moves(p, "compensate") \/ (Moves(p, "done") /\ vm.deleted)
    BY <1>3, GotoMoves
  <2> QED
    BY <1>1, <2>1 DEF Moves
<1>4. CASE Update(p, Recycle(proc[p], proc[p].job.method, FALSE))
  <2>1. proc'[p].pc = "acquire" /\ proc'[p].op = proc[p].op
    BY <1>4, ProcSound, RecycleMoves
  <2> QED
    BY <1>1, <2>1
<1>5. ASSUME NEW e \in Policies, Update(p, [proc[p] EXCEPT !.pc = "deadline", !.enabled = e])
      PROVE  proc'[p].pc = "deadline" /\ proc'[p].op = "job"
  <2>1. Moves(p, "deadline")
    BY <1>5, DeadlineMoves
  <2> QED
    BY <1>1, <2>1 DEF Moves
<1> QED
  BY <1>2, <1>3, <1>4, <1>5

LEMMA FinishIdles ==
    ASSUME TypeInv, NEW p \in Procs, Finish(p)
    PROVE  proc'[p].pc = "idle" /\ proc'[p].op = "none"
<1>1. proc'[p] = Idle
  BY UpdateHere
<1> QED
  BY <1>1 DEF Idle

LEMMA BeginMoves ==
    ASSUME TypeInv, NEW p \in Procs, Begin(p)
    PROVE  /\ proc[p].pc = "idle"
           /\ proc'[p].pc \in {"commit", "transition", "acquire", "deadline"}
           /\ proc'[p].op \in {"task", "delete vm", "expire", "activity", "repair"}
           /\ proc'[p].pc = "acquire"
                => proc'[p].op \in {"delete vm", "expire"} /\ proc'[p].force
<1>1. ASSUME NEW t \in Tasks, NEW m \in Closings, CloseTask(p, t, m)
      PROVE  /\ proc[p].pc = "idle" /\ proc'[p].pc \in {"commit", "transition"}
             /\ proc'[p].op = "task"
  <2>1. PICK pc \in {"commit", "transition"} :
           Update(p, [Idle EXCEPT !.op = "task", !.method = m, !.task = {t}, !.pc = pc])
    BY <1>1 DEF CloseTask
  <2>2. proc'[p].pc = pc /\ proc'[p].op = "task"
    BY <2>1, CloseStep
  <2> QED
    BY <1>1, <2>2 DEF CloseTask
<1>2. ASSUME DeleteVM(p) \/ ExpireVM(p)
      PROVE  /\ proc[p].pc = "idle" /\ proc'[p].pc = "acquire"
             /\ proc'[p].op \in {"delete vm", "expire"} /\ proc'[p].force
  <2>1. PICK op \in {"delete vm", "expire"}, m \in Methods :
           Update(p, Recycle([Idle EXCEPT !.op = op], m, TRUE)) /\ proc[p].pc = "idle"
    BY <1>2 DEF DeleteVM, ExpireVM, Methods
  <2>2. PICK s \in ProcStates : s = [Idle EXCEPT !.op = op]
    BY ForceSound DEF Sound
  <2>3. s.op = op
    BY <2>2 DEF Idle
  <2>4. proc'[p] = Recycle(s, m, TRUE)
    BY <2>1, <2>2, UpdateHere
  <2>5. proc'[p].pc = "acquire" /\ proc'[p].op = s.op /\ proc'[p].force
    BY <2>4 DEF Recycle, ProcStates
  <2> QED
    BY <2>1, <2>3, <2>5
<1>3. ASSUME RecordActivity(p) \/ Repair(p)
      PROVE  /\ proc[p].pc = "idle" /\ proc'[p].pc = "deadline"
             /\ proc'[p].op \in {"activity", "repair"}
  <2>1. PICK op \in {"activity", "repair"}, e \in BOOLEAN :
           Update(p, [Idle EXCEPT !.op = op, !.pc = "deadline", !.enabled = e])
    BY <1>3, RecycleAssumption DEF RecordActivity, Repair
  <2> DEFINE r == [Idle EXCEPT !.op = op, !.pc = "deadline", !.enabled = e]
  <2>2. r.pc = "deadline" /\ r.op = op
    BY DEF Idle
  <2>3. proc'[p] = r
    BY <2>1, UpdateHere
  <2> HIDE DEF r
  <2> QED
    BY <1>3, <2>2, <2>3 DEF RecordActivity, Repair
<1> QED
  BY <1>1, <1>2, <1>3 DEF Begin

-----------------------------------------------------------------------------
(* What the steps of a goroutine do, as long as nothing fails.             *)

\* The four ways a goroutine goes through recycle.
RecycleGoes(p) ==
    \/ /\ proc[p].pc = "acquire" /\ proc'[p].pc = "load"
       /\ lock = Nobody /\ lock' = p
    \/ /\ proc[p].pc = "acquire" /\ proc'[p].pc = "return"
       /\ lock # Nobody /\ lock' = lock /\ proc'[p].err = "in progress"
    \/ /\ proc[p].pc \in Inside /\ proc'[p].pc \in Inside /\ lock' = lock
    \/ /\ proc[p].pc = "release" /\ proc'[p].pc = "return"
       /\ proc'[p].err = proc[p].err
       /\ lock' = IF lock = p THEN Nobody ELSE lock

LEMMA RecycleKeepsRole ==
    ASSUME TypeInv, NEW p \in Procs, RecycleStep(p), ~Fault, Role(proc[p])
    PROVE  /\ Role(proc'[p]) /\ proc'[p].op = proc[p].op /\ RecycleGoes(p)
           /\ UNCHANGED owed
           /\ UNCHANGED <<entry, job>> \/ proc[p].pc = "unqueue"
<1>1. CASE Acquire(p)
  <2>1. Moves(p, "load")
    BY <1>1, GotoMoves DEF Acquire
  <2> QED
    BY <1>1, <2>1 DEF Acquire, Moves, Role, RecycleGoes, Inside, Consuming
<1>2. CASE AcquireHeld(p)
  <2>1. Moves(p, "return") /\ proc'[p].err = "in progress"
    BY <1>2, HeldMoves
  <2> QED
    BY <1>2, <2>1 DEF AcquireHeld, Moves, Role, RecycleGoes, Inside, Consuming
<1>3. CASE LoadVM(p)
  <2>1. PICK pc \in {"record", "remote"} : Moves(p, pc)
    BY <1>3, LoadMoves
  <2> QED
    BY <1>3, <2>1 DEF LoadVM, Moves, Role, RecycleGoes, Inside, Consuming
<1>4. CASE RemoteDelete(p)
  <2>1. Moves(p, "mark")
    BY <1>4, MarkMoves
  <2> QED
    BY <1>4, <2>1 DEF RemoteDelete, Moves, Role, RecycleGoes, Inside, Consuming
<1>5. CASE RemoteDeleteFails(p)
  <2>1. \/ Moves(p, "mark")
        \/ ~proc[p].force /\ Moves(p, "release") /\ proc'[p].err = "remote delete"
    BY <1>5, GotoMoves, LeaveMoves DEF RemoteDeleteFails
  <2> QED
    BY <1>5, <2>1 DEF RemoteDeleteFails, Moves, Role, RecycleGoes, Inside, Consuming
<1>6. CASE MarkRecycled(p)
  <2>1. Moves(p, "record")
    BY <1>6, GotoMoves DEF MarkRecycled
  <2> QED
    BY <1>6, <2>1 DEF MarkRecycled, Moves, Role, RecycleGoes, Inside, Consuming
<1>7. CASE CreateRecord(p)
  <2>1. Moves(p, "tasks") /\ proc'[p].clean
    BY <1>7, RecordMoves
  <2> QED
    BY <1>7, <2>1 DEF CreateRecord, Moves, Role, RecycleGoes, Inside, Consuming
<1>8. ASSUME NEW t \in Tasks, FinishTask(p, t)
      PROVE  /\ Role(proc'[p]) /\ proc'[p].op = proc[p].op /\ RecycleGoes(p)
             /\ UNCHANGED <<owed, entry, job>>
  <2>1. Moves(p, "tasks") /\ proc'[p].clean = proc[p].clean
    BY <1>8, FinishMoves
  <2> QED
    BY <1>8, <2>1 DEF FinishTask, Moves, Role, RecycleGoes, Inside, Consuming
<1>9. CASE TasksFinished(p)
  <2>1. Moves(p, "clean") /\ proc'[p].clean = proc[p].clean
    BY <1>9, GotoMoves DEF TasksFinished
  <2> QED
    BY <1>9, <2>1 DEF TasksFinished, Moves, Role, RecycleGoes, Inside, Consuming
<1>10. CASE CleanRedis(p)
  <2>1. proc[p].clean
    BY <1>10 DEF CleanRedis, Role
  <2>2. Moves(p, "unqueue")
    BY <1>10, <2>1, GotoMoves DEF CleanRedis
  <2> QED
    BY <1>10, <2>2 DEF CleanRedis, Moves, Role, RecycleGoes, Inside, Consuming
<1>11. CASE RemoveRecycleJob(p)
  <2>1. Moves(p, "release") /\ proc'[p].err = "nil"
    BY <1>11, LeaveMoves DEF RemoveRecycleJob
  <2> QED
    BY <1>11, <2>1 DEF RemoveRecycleJob, Moves, Role, RecycleGoes, Inside, Consuming
<1>12. CASE Release(p)
  <2>1. Moves(p, "return") /\ proc'[p].err = proc[p].err
    BY <1>12, GotoMoves DEF Release
  <2> QED
    BY <1>12, <2>1 DEF Release, Moves, Role, RecycleGoes, Inside, Consuming
<1> QED
  BY <1>1, <1>2, <1>3, <1>4, <1>5, <1>6, <1>7, <1>8, <1>9, <1>10, <1>11, <1>12
  DEF RecycleStep

\* A caller is where recycle has returned to, or not in it yet.
LEMMA CallerKeepsRole ==
    ASSUME TypeInv, NEW p \in Procs, CallerStep(p), ~Fault, Role(proc[p]), KnowsVM(p)
    PROVE  Role(proc'[p]) /\ proc[p].pc \notin Inside /\ UNCHANGED lock
<1>1. CASE Transition(p)
  <2>1. proc[p].op = "task"
    BY <1>1 DEF Transition, KnowsVM
  <2>2. proc'[p].pc = "acquire" /\ proc'[p].op = "task"
    BY <1>1, <2>1, ProcSound, RecycleMoves DEF Transition
  <2> QED
    BY <1>1, <2>2 DEF Transition, Role, Inside, Consuming
<1>2. CASE HookReturns(p)
  <2>1. Moves(p, "commit")
    BY <1>2, GotoMoves DEF HookReturns
  <2> QED
    BY <1>2, <2>1 DEF HookReturns, Moves, Role, Inside, Consuming
<1>3. CASE CommitTask(p) \/ DeleteRow(p) \/ ExpireReturns(p) \/ MoveDeadline(p)
  <2>1. proc'[p].pc = "idle" /\ proc'[p].op = "none"
    BY <1>3, FinishIdles DEF CommitTask, DeleteRow, ExpireReturns, MoveDeadline
  <2> QED
    BY <1>3, <2>1
    DEF CommitTask, DeleteRow, ExpireReturns, MoveDeadline, Role, Inside, Consuming
<1>4. CASE DeleteVMReturns(p)
  <2>1. Moves(p, "commit") \/ (proc'[p].pc = "idle" /\ proc'[p].op = "none")
    BY <1>4, GotoMoves, FinishIdles DEF DeleteVMReturns
  <2> QED
    BY <1>4, <2>1 DEF DeleteVMReturns, Moves, Role, Inside, Consuming
<1> QED
  BY <1>1, <1>2, <1>3, <1>4 DEF CallerStep

\* A consumer that goes on has its job still.
LEMMA ConsumerKeepsRole ==
    ASSUME TypeInv, NEW p \in Procs, ConsumerStep(p), Role(proc[p])
    PROVE  Role(proc'[p]) /\ proc[p].pc \notin Inside /\ UNCHANGED lock
<1>1. CASE HandleJob(p)
  <2>1. proc'[p].op = "job" /\ proc'[p].pc \in {"compensate", "acquire", "done", "deadline"}
    BY <1>1, HandleMoves
  <2> QED
    BY <1>1, <2>1 DEF HandleJob, Role, Inside, Consuming
<1>2. CASE JobReturns(p)
  <2>1. proc'[p].op = "job" /\ proc'[p].pc \in {"done", "compensate", "retry"}
    BY <1>2, JobMoves DEF JobReturns
  <2> QED
    BY <1>2, <2>1 DEF JobReturns, Role, Inside, Consuming
<1>3. CASE Compensate(p)
  <2>1. proc'[p].op = "job" /\ proc'[p].pc \in {"compensate record", "retry"}
    BY <1>3, JobMoves, GotoMoves DEF Compensate, Moves, Role, Consuming
  <2> QED
    BY <1>3, <2>1 DEF Compensate, Role, Inside, Consuming
<1>4. CASE CompensateRecord(p)
  <2>1. Moves(p, "done")
    BY <1>4, GotoMoves DEF CompensateRecord
  <2> QED
    BY <1>4, <2>1 DEF CompensateRecord, Moves, Role, Inside, Consuming
<1>5. CASE RequeueJob(p) \/ DeleteJob(p)
  <2>1. proc'[p].pc = "idle" /\ proc'[p].op = "none"
    BY <1>5, FinishIdles DEF RequeueJob, DeleteJob
  <2> QED
    BY <1>5, <2>1 DEF RequeueJob, DeleteJob, Role, Inside, Consuming
<1> QED
  BY <1>1, <1>2, <1>3, <1>4, <1>5 DEF ConsumerStep

-----------------------------------------------------------------------------
(* The retry changes hands.                                                *)

\* Most steps leave the queue alone, and p with what it had of the retry.
LEMMA RetryFrame ==
    ASSUME Retry, NEW p \in Procs, \A q \in Procs \ {p} : proc'[q] = proc[q],
           UNCHANGED <<entry, job>>,
           proc'[p].op = "job" <=> proc[p].op = "job",
           Trying(p) => Trying(p)' \/ proc'[p].op = "job",
           PassedOver(p)' => PassedOver(p) \/ \E q \in Procs \ {p} : Trying(q)
    PROVE  Retry'
<1>1. \A q \in Procs : proc'[q].op = "job" <=> proc[q].op = "job"
  OBVIOUS
<1>2. \A q \in Procs \ {p} : (Trying(q)' <=> Trying(q)) /\ (PassedOver(q)' <=> PassedOver(q))
  BY DEF Trying, PassedOver
<1>3. OneJob' /\ (Handled => Handled')
  BY <1>1 DEF Retry, OneJob, Handled
<1>4. Attended'
  <2>1. CASE Pending \/ Handled
    BY <1>3, <2>1 DEF Attended, Pending
  <2>2. ASSUME NEW q \in Procs, Trying(q) PROVE Attended'
    BY <1>2, <2>2 DEF Attended, Handled
  <2> QED
    BY <2>1, <2>2 DEF Retry, Attended
<1>5. HandedOver'
  <2> SUFFICES ASSUME NEW q \in Procs, PassedOver(q)'
               PROVE  \E r \in Procs \ {q} : Trying(r)'
    BY DEF HandedOver
  <2>1. CASE q = p
    <3>1. \E r \in Procs \ {p} : Trying(r)
      BY <2>1 DEF Retry, HandedOver
    <3> QED
      BY <1>2, <2>1, <3>1
  <2>2. CASE q # p
    <3>1. PICK r \in Procs \ {q} : Trying(r)
      BY <1>2, <2>2 DEF Retry, HandedOver
    <3>2. proc[p].op # "job"
      BY <1>2, <2>2 DEF PassedOver, Retry, OneJob
    <3> QED
      BY <1>2, <3>1, <3>2
  <2> QED
    BY <2>1, <2>2
<1> QED
  BY <1>3, <1>4, <1>5 DEF Retry

\* A job that is queued while nobody handles one.
LEMMA RetryQueued ==
    ASSUME \A q \in Procs : proc'[q].op # "job", entry' # "none", job' # NoJob
    PROVE  Retry'
    BY DEF Retry, OneJob, Handled, Attended, Pending, HandedOver, PassedOver

LEMMA RecycleKeepsRetry ==
    ASSUME TypeInv, NEW p \in Procs, RecycleStep(p), ~Fault, Role(proc[p]), KnowsVM(p),
           \A q \in Procs \ {p} : proc'[q] = proc[q],
           LockInUse, ~vm.recycled, Retry
    PROVE  Retry'
<1>1. /\ RecycleGoes(p) /\ proc'[p].op = proc[p].op
      /\ UNCHANGED <<entry, job>>
  BY RecycleKeepsRole DEF KnowsVM
<1>2. ASSUME proc[p].pc = "acquire", proc'[p].pc = "load"
      PROVE  Retry'
  <2>1. Trying(p)' /\ ~PassedOver(p)'
    BY <1>2 DEF Trying, PassedOver, Inside
  <2> QED
    BY <1>1, <2>1, RetryFrame
<1>3. ASSUME proc[p].pc = "acquire", lock # Nobody
      PROVE  Retry'
  <2>1. ~Trying(p)
    BY <1>3 DEF Trying, Inside
  <2>2. lock \in Procs \ {p} /\ Trying(lock)
    BY <1>3 DEF LockInUse, Trying, TypeInv, TypeOK, Inside
  <2> QED
    BY <1>1, <2>1, <2>2, RetryFrame
<1>4. ASSUME proc'[p].pc \in Inside
      PROVE  Retry'
  <2>1. Trying(p)' /\ ~PassedOver(p)'
    BY <1>4 DEF Trying, PassedOver, Inside
  <2> QED
    BY <1>1, <2>1, RetryFrame
<1>5. ASSUME proc[p].pc = "release", proc'[p].pc = "return", proc'[p].err = proc[p].err
      PROVE  Retry'
  <2>1. proc[p].err = "remote delete" /\ proc[p].op \in {"task", "job"}
    BY <1>5 DEF KnowsVM, Role, Inside
  <2>2. (Trying(p)' \/ proc'[p].op = "job") /\ ~PassedOver(p)'
    BY <1>1, <1>5, <2>1 DEF Trying, PassedOver
  <2> QED
    BY <1>1, <2>2, RetryFrame
<1> QED
  BY <1>1, <1>2, <1>3, <1>4, <1>5 DEF RecycleGoes

LEMMA CallerKeepsRetry ==
    ASSUME TypeInv, NEW p \in Procs, CallerStep(p), ~Fault, Role(proc[p]), KnowsVM(p),
           \A q \in Procs \ {p} : proc'[q] = proc[q],
           ~vm.recycled, owed' = "queued", owed = "queued" => Retry
    PROVE  Retry'
<1>0. \A m \in Methods : NewJob(m) # NoJob
  BY NewJobTyped, RecycleAssumption
<1>1. CASE Transition(p)
  <2>1. proc[p].pc = "transition" /\ proc[p].op = "task"
    BY <1>1 DEF Transition, KnowsVM
  <2>2. proc'[p].pc = "acquire" /\ proc'[p].op = "task"
    BY <1>1, <2>1, ProcSound, RecycleMoves DEF Transition
  <2>3. ~Trying(p) /\ ~PassedOver(p)'
    BY <2>1, <2>2 DEF Trying, PassedOver, Inside
  <2> QED
    BY <1>1, <2>1, <2>2, <2>3, RetryFrame DEF Transition
<1>2. CASE HookReturns(p)
  <2>1. Moves(p, "commit") /\ proc[p].op = "task"
    BY <1>2, GotoMoves DEF HookReturns
  <2>2. proc[p].err # "nil"
    BY <1>2 DEF HookReturns, KnowsVM
  <2>3. Enqueue(proc[p].method, "due") /\ ~HandledBeside(p)
    BY <1>2, <2>2 DEF HookReturns
  <2>4. \A q \in Procs : proc'[q].op # "job"
    BY <2>1, <2>3 DEF Moves, HandledBeside
  <2>5. proc[p].method \in Methods
    BY ProcSound DEF ProcStates
  <2> QED
    BY <1>0, <2>3, <2>4, <2>5, RetryQueued DEF Enqueue
<1>3. CASE CommitTask(p)
  <2>1. proc[p].pc = "commit" /\ proc[p].op = "task"
    BY <1>3 DEF CommitTask
  <2>2. proc'[p].pc = "idle" /\ proc'[p].op = "none"
    BY <1>3, FinishIdles DEF CommitTask
  <2>3. ~Trying(p) /\ ~PassedOver(p)'
    BY <2>1, <2>2 DEF Trying, PassedOver, Inside
  <2> QED
    BY <1>3, <2>1, <2>2, <2>3, RetryFrame DEF CommitTask
<1>4. CASE DeleteVMReturns(p)
  <2>1. proc[p].pc = "return" /\ proc[p].op = "delete vm"
    BY <1>4 DEF DeleteVMReturns
  <2>2. \/ proc'[p].pc = "commit" /\ proc'[p].op = "delete vm"
        \/ proc'[p].pc = "idle" /\ proc'[p].op = "none"
    BY <1>4, <2>1, GotoMoves, FinishIdles DEF DeleteVMReturns, Moves
  <2>3. ~Trying(p) /\ ~PassedOver(p)'
    BY <2>1, <2>2 DEF Trying, PassedOver, Inside
  <2> QED
    BY <1>4, <2>1, <2>2, <2>3, RetryFrame DEF DeleteVMReturns
<1>5. CASE DeleteRow(p)
  BY <1>5 DEF DeleteRow, KnowsVM
<1>6. CASE MoveDeadline(p)
  <2>1. proc[p].pc = "deadline" /\ owed = "queued" /\ ~HandledBeside(p)
    BY <1>6 DEF MoveDeadline
  <2>2. proc'[p].pc = "idle" /\ proc'[p].op = "none"
    BY <1>6, FinishIdles DEF MoveDeadline
  <2>3. \/ proc[p].op = "repair" /\ UNCHANGED <<entry, job>>
        \/ Enqueue("idle", "later")
    BY <1>6, <2>1 DEF MoveDeadline
  <2>4. CASE proc[p].op = "repair" /\ UNCHANGED <<entry, job>>
    <3>1. ~Trying(p) /\ ~PassedOver(p)'
      BY <2>1, <2>2 DEF Trying, PassedOver, Inside
    <3> QED
      BY <2>1, <2>2, <2>4, <3>1, RetryFrame
  <2>5. CASE Enqueue("idle", "later")
    <3>1. \A q \in Procs : proc'[q].op # "job"
      BY <2>1, <2>2 DEF HandledBeside
    <3> QED
      BY <1>0, <2>5, <3>1, RetryQueued DEF Enqueue, Methods
  <2> QED
    BY <2>3, <2>4, <2>5
<1>7. CASE ExpireReturns(p)
  <2>1. proc[p].pc = "return" /\ proc[p].op = "expire"
    BY <1>7 DEF ExpireReturns
  <2>2. proc'[p].pc = "idle" /\ proc'[p].op = "none"
    BY <1>7, FinishIdles DEF ExpireReturns
  <2>3. ~Trying(p) /\ ~PassedOver(p)'
    BY <2>1, <2>2 DEF Trying, PassedOver, Inside
  <2> QED
    BY <1>7, <2>1, <2>2, <2>3, RetryFrame DEF ExpireReturns
<1> QED
  BY <1>1, <1>2, <1>3, <1>4, <1>5, <1>6, <1>7 DEF CallerStep

\* A consumer keeps its job, queues it again, or leaves it to who passed it over.
LEMMA ConsumerKeepsRetry ==
    ASSUME TypeInv, NEW p \in Procs, ConsumerStep(p), Role(proc[p]), KnowsVM(p),
           \A q \in Procs \ {p} : proc'[q] = proc[q],
           DeletedLast, ~vm.recycled, ~vm'.recycled, Retry
    PROVE  Retry'
<1>0. /\ ~vm.deleted
      /\ proc[p].op = "job" /\ proc[p].pc \notin Inside
      /\ ~Trying(p)
  BY DEF DeletedLast, ConsumerStep, HandleJob, JobReturns, Compensate, CompensateRecord,
     RequeueJob, DeleteJob, Role, Consuming, Inside, Trying
<1>1. CASE HandleJob(p)
  <2>1. proc'[p].op = "job" /\ proc'[p].pc \in {"compensate", "acquire", "deadline"}
    BY <1>0, <1>1, HandleMoves
  <2>2. ~PassedOver(p)'
    BY <2>1 DEF PassedOver
  <2> QED
    BY <1>0, <1>1, <2>1, <2>2, RetryFrame DEF HandleJob
<1>2. CASE JobReturns(p)
  <2>1. proc[p].pc = "return" /\ proc[p].err \in Errors /\ proc[p].err \notin {"nil", "other"}
    BY <1>2, ProcSound DEF JobReturns, KnowsVM, Role, ProcStates
  <2>2. /\ proc'[p].op = "job"
        /\ proc'[p].pc \in {"compensate", "retry", "done"}
        /\ proc'[p].pc = "done" => proc[p].err = "in progress"
    <3>1. PICK pc \in {"compensate", "retry", "done"} :
             (\E j : JobStep(p, pc, j)) /\ (pc = "done" => proc[p].err = "in progress")
      BY <1>2, <2>1 DEF JobReturns, Errors
    <3> QED
      BY <3>1, JobMoves
  <2>3. PassedOver(p)' => PassedOver(p)
    BY <1>0, <2>1, <2>2 DEF PassedOver
  <2> QED
    BY <1>0, <1>2, <2>2, <2>3, RetryFrame DEF JobReturns
<1>3. CASE Compensate(p)
  <2>1. vm \in [recycled : BOOLEAN, deleted : BOOLEAN] /\ vm' = [vm EXCEPT !.recycled = TRUE]
    BY <1>0, <1>3 DEF Compensate, TypeInv, TypeOK
  <2> QED
    BY <2>1
<1>4. CASE CompensateRecord(p)
  BY <1>4 DEF CompensateRecord, KnowsVM
<1>5. CASE RequeueJob(p)
  <2>1. proc'[p].op = "none" /\ entry' = "later" /\ job' # NoJob
    BY <1>0, <1>5, ProcSound, FinishIdles DEF RequeueJob, Sound
  <2>2. \A q \in Procs : proc'[q].op # "job"
    BY <1>0, <2>1 DEF Retry, OneJob
  <2> QED
    BY <2>1, <2>2, RetryQueued
<1>6. CASE DeleteJob(p)
  <2>1. proc'[p].op = "none" /\ proc[p].pc = "done"
    BY <1>6, FinishIdles DEF DeleteJob
  <2>2. \A q \in Procs : proc'[q].op # "job"
    BY <1>0, <2>1 DEF Retry, OneJob
  <2>3. PICK q \in Procs \ {p} : Trying(q)
    BY <1>0, <2>1 DEF Retry, HandedOver, PassedOver
  <2>4. Trying(q)'
    BY <2>3 DEF Trying
  <2> QED
    BY <2>2, <2>4 DEF Retry, OneJob, Handled, Attended, HandedOver, PassedOver
<1> QED
  BY <1>1, <1>2, <1>3, <1>4, <1>5, <1>6 DEF ConsumerStep

\* A claim takes the job from the queue into one pair of hands, or an entry
\* without data that nobody relied on.
LEMMA ClaimKeepsRetry ==
    ASSUME TypeInv, NEW p \in Procs, ClaimJob(p), Retry,
           \A q \in Procs \ {p} : proc'[q] = proc[q]
    PROVE  Retry'
<1>1. /\ entry = "due" /\ entry' = "none" /\ job' = job
      /\ \A q \in Procs : proc[q].op # "job"
  BY DEF ClaimJob, Retry, OneJob, Handled
<1>2. CASE job = NoJob
  <2>1. proc' = proc
    BY <1>2 DEF ClaimJob
  <2>2. PICK q \in Procs : Trying(q)
    BY <1>1, <1>2 DEF Retry, Attended, Pending, Handled
  <2>3. Trying(q)' /\ \A r \in Procs : proc'[r].op # "job"
    BY <1>1, <2>1, <2>2 DEF Trying
  <2> QED
    BY <2>3 DEF Retry, OneJob, Handled, Attended, HandedOver, PassedOver
<1>3. CASE job # NoJob
  <2>1. proc'[p].op = "job" /\ proc'[p].pc = "handle"
    BY <1>3, JobMoves DEF ClaimJob, JobStep
  <2> QED
    BY <1>1, <2>1 DEF Retry, OneJob, Handled, Attended, HandedOver, PassedOver
<1> QED
  BY <1>2, <1>3

LEMMA BeginKeepsRetry ==
    ASSUME TypeInv, NEW p \in Procs, Begin(p), Role(proc[p]), Retry,
           \A q \in Procs \ {p} : proc'[q] = proc[q]
    PROVE  Retry'
<1>1. /\ proc[p].pc = "idle" /\ proc[p].op = "none"
      /\ proc'[p].pc \in {"commit", "transition", "acquire", "deadline"}
      /\ proc'[p].op # "job"
  BY BeginMoves DEF Role
<1>2. ~Trying(p) /\ ~PassedOver(p)'
  BY <1>1 DEF Trying, PassedOver, Inside
<1>3. UNCHANGED <<entry, job>>
  BY DEF Begin, CloseTask, DeleteVM, ExpireVM, RecordActivity, Repair
<1> QED
  BY <1>1, <1>2, <1>3, RetryFrame

-----------------------------------------------------------------------------
(* The theorem.                                                            *)

LEMMA RetryProcStep ==
    ASSUME TypeInv, RecycleInv, RetryInv, Onward, faults = 0, faults' = 0, NEW p \in Procs,
           \/ Begin(p) \/ ClaimJob(p) \/ RecycleStep(p) \/ CallerStep(p)
           \/ ConsumerStep(p) \/ Failure(p)
    PROVE  RetryInv'
<1>0. /\ ~Fault /\ Role(proc[p]) /\ KnowsVM(p) /\ DeletedLast /\ LockInUse
      /\ \A q \in Procs \ {p} : proc'[q] = proc[q]
      /\ owed = "queued" /\ ~vm.recycled => Retry
  BY NoFault, OthersStay DEF RetryInv, RecycleInv
<1>1. ~Failure(p)
  BY <1>0 DEF Failure, RecycleFails, AcquireFails, HandlerFails, LastCommandFails, Crash
<1>2. Role(proc'[p])
  <2>1. CASE Begin(p)
    BY <2>1, BeginMoves DEF Role, Inside, Consuming
  <2>2. CASE ClaimJob(p)
    <3>1. proc'[p] = proc[p] \/ (proc'[p].pc = "handle" /\ proc'[p].op = "job")
      BY <2>2, JobMoves DEF ClaimJob, JobStep
    <3> QED
      BY <1>0, <3>1 DEF Role, Inside, Consuming
  <2> QED
    BY <1>0, <1>1, <2>1, <2>2, RecycleKeepsRole, CallerKeepsRole, ConsumerKeepsRole
<1>3. \A q \in Procs : Role(proc'[q])
  BY <1>0, <1>2 DEF RetryInv
<1>4. DeletedLast'
  <2>1. vm'.deleted => vm.deleted \/ vm'.recycled
    <3>1. CASE DeleteRow(p)
      <4>1. vm' = [recycled |-> TRUE, deleted |-> TRUE] \/ vm' = vm
        BY <3>1 DEF DeleteRow
      <4> QED
        BY <4>1
    <3>2. CASE ~DeleteRow(p)
      <4>1. UNCHANGED vm \/ vm' = [vm EXCEPT !.recycled = TRUE]
        BY <1>1, <3>2 DEF Begin, CloseTask, DeleteVM, ExpireVM, RecordActivity, Repair,
           ClaimJob, RecycleStep, Acquire, AcquireHeld, LoadVM, RemoteDelete, RemoteDeleteFails,
           MarkRecycled, CreateRecord, FinishTask, TasksFinished, CleanRedis,
           RemoveRecycleJob, Release, CallerStep, Transition, HookReturns, CommitTask,
           DeleteVMReturns, ExpireReturns, MoveDeadline, ConsumerStep, HandleJob,
           JobReturns, Compensate, CompensateRecord, RequeueJob, DeleteJob
      <4> QED
        BY <4>1 DEF TypeInv, TypeOK
    <3> QED
      BY <3>1, <3>2
  <2> QED
    BY <1>0, <2>1 DEF DeletedLast, Onward
<1>5. LockInUse'
  <2>1. CASE RecycleStep(p)
    <3>1. RecycleGoes(p) /\ lock \in Procs \cup {Nobody}
      BY <1>0, <2>1, RecycleKeepsRole DEF TypeInv, TypeOK
    <3> QED
      BY <1>0, <3>1, RecycleAssumption DEF LockInUse, RecycleGoes, Inside
  <2>2. CASE ~RecycleStep(p)
    <3>1. UNCHANGED lock /\ (proc[p].pc \notin Inside \/ UNCHANGED proc)
      <4>1. CASE Begin(p)
        BY <4>1, BeginMoves DEF Begin, CloseTask, DeleteVM, ExpireVM,
           RecordActivity, Repair, Inside
      <4>2. CASE ClaimJob(p)
        BY <4>2 DEF ClaimJob, Inside
      <4> QED
        BY <1>0, <1>1, <2>2, <4>1, <4>2, CallerKeepsRole, ConsumerKeepsRole
    <3> QED
      BY <1>0, <3>1 DEF LockInUse, TypeInv, TypeOK
  <2> QED
    BY <2>1, <2>2
<1>6. ASSUME owed' = "queued", ~vm'.recycled PROVE Retry'
  <2>1. ~vm.recycled
    BY <1>6 DEF Onward
  <2>2. CASE CallerStep(p)
    BY <1>0, <1>6, <2>1, <2>2, CallerKeepsRetry
  <2>3. CASE ~CallerStep(p)
    <3>1. Retry
      <4>1. UNCHANGED owed
        BY <1>0, <1>1, <2>3, RecycleKeepsRole DEF Begin, CloseTask, DeleteVM,
           ExpireVM, RecordActivity, Repair, ClaimJob, ConsumerStep, HandleJob, JobReturns,
           Compensate, CompensateRecord, RequeueJob, DeleteJob
      <4> QED
        BY <1>0, <1>6, <2>1, <4>1
    <3> QED
      BY <1>0, <1>1, <1>6, <2>1, <2>3, <3>1, RecycleKeepsRetry, ConsumerKeepsRetry,
         ClaimKeepsRetry, BeginKeepsRetry
  <2> QED
    BY <2>2, <2>3
<1> QED
  BY <1>3, <1>4, <1>5, <1>6 DEF RetryInv

LEMMA RetryEnvironment ==
    ASSUME TypeInv, RetryInv, faults = 0, faults' = 0,
           \/ UNCHANGED vars
           \/ \E t \in Tasks : TaskCallback(t)
           \/ BecomesDue \/ ActivityAges \/ AgentReturns \/ LockExpires
    PROVE  RetryInv'
<1>1. UNCHANGED <<proc, vm, job, owed>>
  BY DEF vars, TaskCallback, HookLooks, HookStarts, RequestGoes, TaskFails,
     BecomesDue, ActivityAges, AgentReturns, LockExpires
<1>2. entry' = entry \/ (entry = "later" /\ entry' = "due")
  BY DEF vars, TaskCallback, HookLooks, HookStarts, RequestGoes, TaskFails,
     BecomesDue, ActivityAges, AgentReturns, LockExpires
<1>3. lock' = lock \/ lock' = Nobody
  BY DEF vars, TaskCallback, HookLooks, HookStarts, RequestGoes, TaskFails,
     BecomesDue, ActivityAges, AgentReturns, LockExpires
<1>4. (\A q \in Procs : Role(proc'[q])) /\ DeletedLast' /\ LockInUse'
  BY <1>1, <1>3 DEF RetryInv, DeletedLast, LockInUse
<1>5. Retry => Retry'
  BY <1>1, <1>2 DEF Retry, OneJob, Handled, Attended, Pending, Trying, HandedOver, PassedOver
<1> QED
  BY <1>1, <1>4, <1>5 DEF RetryInv

LEMMA RetryInit == Init => RetryInv
<1> SUFFICES ASSUME Init PROVE RetryInv
  OBVIOUS
<1>1. \A p \in Procs : proc[p].pc = "idle" /\ proc[p].op = "none"
  BY DEF Init, Idle
<1>2. \A p \in Procs : Role(proc[p])
  BY <1>1 DEF Role, Inside, Consuming
<1> QED
  BY <1>2 DEF Init, RetryInv, DeletedLast, LockInUse

\* The retry of a Stop or Delete is not lost before the VM is recycled:
\* RetryIsKept for every instance.
THEOREM RetryStaysKept == Spec => []RetryIsKept
<1>1. TypeInv /\ RecycleInv /\ RetryInv /\ [Next]_vars => RetryInv'
  <2> SUFFICES ASSUME TypeInv, RecycleInv, RetryInv, [Next]_vars
               PROVE  RetryInv'
    OBVIOUS
  <2>1. Onward \/ \E t \in Tasks : HookStarts(t)
    BY OnwardStep
  <2>2. CASE faults = 0 /\ faults' = 0
    <3>1. CASE \E t \in Tasks : HookStarts(t)
      BY <2>2, <3>1, RetryEnvironment DEF TaskCallback
    <3>2. CASE Onward
      BY <2>2, <3>2, RetryProcStep, RetryEnvironment DEF Next
    <3> QED
      BY <2>1, <3>1, <3>2
  <2>3. CASE faults' # 0
    BY <2>3 DEF RetryInv
  <2>4. faults' = 0 => faults = 0
    BY <2>1 DEF Onward, HookStarts, TypeInv, TypeOK
  <2> QED
    BY <2>2, <2>3, <2>4
<1>2. TypeInv /\ RetryInv => RetryIsKept
  <2> SUFFICES ASSUME TypeInv, RetryInv, owed = "queued", ~vm.recycled, faults = 0
               PROVE  Pending \/ Handled \/ InRecycle
    BY DEF RetryIsKept, TypeInv, TypeOK
  <2>1. Attended
    BY DEF RetryInv, Retry
  <2>2. \A p \in Procs : Trying(p) => InRecycle
    BY DEF Trying, InRecycle
  <2> QED
    BY <2>1, <2>2 DEF Attended
<1> QED
  BY <1>1, <1>2, RetryInit, RecycleInvariant, PTL DEF Spec
=============================================================================
