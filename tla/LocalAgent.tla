----------------------------- MODULE LocalAgent -----------------------------
(***************************************************************************)
(* The engine of a local VM: backend/pkg/taskflow/local.                   *)
(*                                                                         *)
(* A turn is one `opencode run`: a request starts the process, a goroutine *)
(* (streamOpenCode) reads its output to the end and publishes how the turn *)
(* ended.  Requests stop, replace or cancel it.  They share the VM record: *)
(* its agent and its stopped flag, under a mutex that each request takes   *)
(* several times, never for the whole of what it does; and the ignored     *)
(* flag of each process, which is set outside that mutex.  A step is one   *)
(* critical section, or one effect outside them.                           *)
(*                                                                         *)
(* The chunks of a turn's output, and the task-error that goes with a      *)
(* failed end, are left out: live holds the task-ended chunks.             *)
(***************************************************************************)
EXTENDS Naturals, Sequences, FiniteSets

CONSTANTS
    Callers,  \* goroutines that serve requests on this VM
    MaxTurns, \* bound: the turns of one behaviour
    NoTurn    \* rec.agent is nil

Turns == 1 .. MaxTurns

ASSUME AgentAssumption == MaxTurns \in Nat /\ NoTurn \notin Turns

VARIABLES
    agent,       \* rec.agent: the turn whose process is current
    stopped,     \* rec.stopped
    ignored,     \* turns whose process has its ignored flag set
    process,     \* each turn's process
    reader,      \* where each turn's streamOpenCode is
    live,        \* the task-ended chunks published, with the turn they end
    registered,  \* the registry has the VM
    caller,      \* what each goroutine is in the middle of
    \* History, read by properties only.
    cancelled,   \* turns that were being read when a Cancel came
    clash        \* an engine was being started while another request ran

rec == <<agent, stopped>>
engine == <<ignored, process, reader, live>>
vars == <<rec, engine, registered, caller, cancelled, clash>>

Requests == {"create", "continue", "cancel", "restart", "delete"}
Starting == {"create", "continue"}
Exits == {"success", "failed"}
Kinds == Exits \cup {"cancelled"}

IdleCaller == [pc |-> "idle", op |-> "restart", turn |-> NoTurn]
CallerStates ==
    [pc : {"idle", "check", "stop", "take", "kill", "launch", "attach", "publish"},
     op : Requests,
     turn : Turns \cup {NoTurn}]

TypeOK ==
    /\ agent \in Turns \cup {NoTurn}
    /\ stopped \in BOOLEAN
    /\ ignored \subseteq Turns
    /\ process \in [Turns -> {"none", "running"} \cup Exits]
    /\ reader \in [Turns -> {"none", "reading", "decide", "publish", "done"}]
    /\ live \in Seq([turn : Turns, kind : Kinds])
    /\ registered \in BOOLEAN
    /\ caller \in [Callers -> CallerStates]
    /\ cancelled \subseteq Turns
    /\ clash \in BOOLEAN

\* A VM just created, or restored from its workspace.
Init ==
    /\ agent = NoTurn
    /\ stopped = FALSE
    /\ ignored = {}
    /\ process = [t \in Turns |-> "none"]
    /\ reader = [t \in Turns |-> "none"]
    /\ live = <<>>
    /\ registered = TRUE
    /\ caller = [c \in Callers |-> IdleCaller]
    /\ cancelled = {}
    /\ clash = FALSE

-----------------------------------------------------------------------------
Busy(c) == caller[c].pc # "idle"
At(c, pc) == caller[c].pc = pc
Become(c, s) == caller' = [caller EXCEPT ![c] = s]
Hold(c, pc, t) == Become(c, [pc |-> pc, op |-> caller[c].op, turn |-> t])
Goto(c, pc) == Become(c, [caller[c] EXCEPT !.pc = pc])
Return(c) == Become(c, IdleCaller)

\* Turns are numbered in the order they start.
Fresh(t) == process[t] = "none" /\ \A s \in Turns : s < t => process[s] # "none"

Publish(t, kind) == live' = Append(live, [turn |-> t, kind |-> kind])

\* A request finds the VM in the registry.
Begin(c, op, pc) ==
    /\ ~Busy(c)
    /\ registered
    /\ Become(c, [pc |-> pc, op |-> op, turn |-> NoTurn])
    /\ clash' = (clash \/ \E d \in Callers \ {c} :
                    Busy(d) /\ (op \in Starting \/ caller[d].op \in Starting))

NoNews == UNCHANGED <<registered, cancelled, clash>>

-----------------------------------------------------------------------------
(* Requests.                                                               *)

\* Create keeps the request and writes its configuration; if that fails the
\* turn is published as failed.
Create(c) ==
    /\ Begin(c, "create", "take")
    /\ UNCHANGED <<rec, engine, registered, cancelled>>

CreateFails(c, t) ==
    /\ At(c, "take") /\ caller[c].op = "create"
    /\ Fresh(t)
    /\ process' = [process EXCEPT ![t] = "failed"]
    /\ Publish(t, "failed")
    /\ Return(c)
    /\ UNCHANGED <<rec, ignored, reader>> /\ NoNews

\* Continue is refused while there is an agent.
Continue(c) ==
    /\ Begin(c, "continue", "check")
    /\ UNCHANGED <<rec, engine, registered, cancelled>>

CheckAgent(c) ==
    /\ At(c, "check")
    /\ IF agent = NoTurn THEN Goto(c, "take") ELSE Return(c)
    /\ UNCHANGED <<rec, engine>> /\ NoNews

\* Cancel sets stopped first, and takes the agent in a second critical section.
Cancel(c) ==
    /\ Begin(c, "cancel", "stop")
    /\ UNCHANGED <<rec, engine, registered, cancelled>>

SetStopped(c) ==
    /\ At(c, "stop")
    /\ stopped' = TRUE
    /\ cancelled' = cancelled \cup {t \in Turns : reader[t] = "reading"}
    /\ Goto(c, "take")
    /\ UNCHANGED <<agent, engine, registered, clash>>

\* Restart (and Stop, which nothing calls) only stops the engine.
Restart(c) ==
    /\ Begin(c, "restart", "take")
    /\ UNCHANGED <<rec, engine, registered, cancelled>>

\* Mutant: the VM is forgotten and its engine goes on.
DeleteForgetsAgent(c) ==
    /\ ~Busy(c) /\ registered
    /\ registered' = FALSE
    /\ UNCHANGED <<rec, engine, caller, cancelled, clash>>

\* Delete: out of the registry, then stop.  Requests under way keep the record;
\* later ones find none, or a new one if the workspace was kept (ensureVM).
Delete(c) ==
    /\ Begin(c, "delete", "take")
    /\ registered' = FALSE
    /\ UNCHANGED <<rec, engine, cancelled>>

-----------------------------------------------------------------------------
(* stopAgent, then what the request does after it.                         *)

\* Mutant: no check for a missing agent.
TakeUnchecked(c) ==
    /\ At(c, "take")
    /\ agent' = NoTurn
    /\ Hold(c, "kill", agent)
    /\ UNCHANGED <<stopped, engine>> /\ NoNews

\* Under the mutex: take the agent off the record.  Without one, Cancel has
\* nothing to publish.
Take(c) ==
    /\ At(c, "take")
    /\ agent' = NoTurn
    /\ IF agent # NoTurn
       THEN Hold(c, "kill", agent)
       ELSE IF caller[c].op \in Starting THEN Goto(c, "launch") ELSE Return(c)
    /\ UNCHANGED <<stopped, engine>> /\ NoNews

\* Outside it: mark the process ignored and signal its group.
Kill(c) ==
    /\ At(c, "kill")
    /\ ignored' = ignored \cup {caller[c].turn}
    /\ CASE caller[c].op \in Starting -> Goto(c, "launch")
         [] caller[c].op = "cancel" -> Goto(c, "publish")
         [] OTHER -> Return(c)
    /\ UNCHANGED <<rec, process, reader, live>> /\ NoNews

PublishCancelled(c) ==
    /\ At(c, "publish")
    /\ Publish(caller[c].turn, "cancelled")
    /\ Return(c)
    /\ UNCHANGED <<rec, ignored, process, reader>> /\ NoNews

-----------------------------------------------------------------------------
(* The rest of spawnAgent.                                                 *)

\* The configuration files are written and the process is started.
Launch(c, t) ==
    /\ At(c, "launch")
    /\ Fresh(t)
    /\ process' = [process EXCEPT ![t] = "running"]
    /\ Hold(c, "attach", t)
    /\ UNCHANGED <<rec, ignored, reader, live>> /\ NoNews

\* Or not: Create publishes a failed turn, Continue returns the error.
LaunchFails(c, t) ==
    /\ At(c, "launch")
    /\ IF caller[c].op = "create"
       THEN /\ Fresh(t)
            /\ process' = [process EXCEPT ![t] = "failed"]
            /\ Publish(t, "failed")
       ELSE UNCHANGED <<process, live>>
    /\ Return(c)
    /\ UNCHANGED <<rec, ignored, reader>> /\ NoNews

\* Mutant: stopped keeps its value.
AttachStopped(c) ==
    /\ At(c, "attach")
    /\ agent' = caller[c].turn
    /\ reader' = [reader EXCEPT ![caller[c].turn] = "reading"]
    /\ Return(c)
    /\ UNCHANGED <<stopped, ignored, process, live>> /\ NoNews

\* Under the mutex the process becomes the agent; its reader starts after.
Attach(c) ==
    /\ At(c, "attach")
    /\ agent' = caller[c].turn
    /\ stopped' = FALSE
    /\ reader' = [reader EXCEPT ![caller[c].turn] = "reading"]
    /\ Return(c)
    /\ UNCHANGED <<ignored, process, live>> /\ NoNews

-----------------------------------------------------------------------------
(* Processes and streamOpenCode.                                           *)

\* By itself or by the signal, with an exit code and output that make it a
\* success or not; output that cannot be read makes it a failure too.
Exit(t) ==
    /\ process[t] = "running"
    /\ \E kind \in Exits : process' = [process EXCEPT ![t] = kind]
    /\ UNCHANGED <<rec, ignored, reader, live, caller>> /\ NoNews

\* Mutant: the record's agent is cleared whoever it is.
ReapAnyAgent(t) ==
    /\ reader[t] = "reading"
    /\ process[t] \in Exits
    /\ agent' = NoTurn
    /\ reader' = [reader EXCEPT ![t] = IF stopped THEN "done" ELSE "decide"]
    /\ UNCHANGED <<stopped, ignored, process, live, caller>> /\ NoNews

\* Mutant: the agent stays on the record.
ReapKeepsAgent(t) ==
    /\ reader[t] = "reading"
    /\ process[t] \in Exits
    /\ reader' = [reader EXCEPT ![t] = IF stopped THEN "done" ELSE "decide"]
    /\ UNCHANGED <<rec, ignored, process, live, caller>> /\ NoNews

\* Under the mutex: read stopped, clear the agent unless it was replaced.
Reap(t) ==
    /\ reader[t] = "reading"
    /\ process[t] \in Exits
    /\ agent' = IF agent = t THEN NoTurn ELSE agent
    /\ reader' = [reader EXCEPT ![t] = IF stopped THEN "done" ELSE "decide"]
    /\ UNCHANGED <<stopped, ignored, process, live, caller>> /\ NoNews

\* Mutant: only stopped makes a turn end silently.
DecideToPublish(t) ==
    /\ reader[t] = "decide"
    /\ reader' = [reader EXCEPT ![t] = "publish"]
    /\ UNCHANGED <<rec, ignored, process, live, caller>> /\ NoNews

Decide(t) ==
    /\ reader[t] = "decide"
    /\ reader' = [reader EXCEPT ![t] = IF t \in ignored THEN "done" ELSE "publish"]
    /\ UNCHANGED <<rec, ignored, process, live, caller>> /\ NoNews

\* Mutant: an exit code other than zero is not looked at.
PublishEndAsSuccess(t) ==
    /\ reader[t] = "publish"
    /\ reader' = [reader EXCEPT ![t] = "done"]
    /\ Publish(t, "success")
    /\ UNCHANGED <<rec, ignored, process, caller>> /\ NoNews

PublishEnd(t) ==
    /\ reader[t] = "publish"
    /\ reader' = [reader EXCEPT ![t] = "done"]
    /\ Publish(t, process[t])
    /\ UNCHANGED <<rec, ignored, process, caller>> /\ NoNews

-----------------------------------------------------------------------------
Request(c) == Create(c) \/ Continue(c) \/ Cancel(c) \/ Restart(c) \/ Delete(c)

CallerStep(c) ==
    \/ CheckAgent(c) \/ SetStopped(c)
    \/ Take(c) \/ Kill(c) \/ PublishCancelled(c)
    \/ \E t \in Turns : CreateFails(c, t) \/ Launch(c, t) \/ LaunchFails(c, t)
    \/ Attach(c)

ReaderStep(t) == Reap(t) \/ Decide(t) \/ PublishEnd(t)

Next ==
    \/ \E c \in Callers : Request(c) \/ CallerStep(c)
    \/ \E t \in Turns : Exit(t) \/ ReaderStep(t)

Spec == Init /\ [][Next]_vars

-----------------------------------------------------------------------------
(* Properties.                                                             *)

\* At work: its process runs and nobody has signalled it.
Working(t) == process[t] = "running" /\ t \notin ignored
InHand(t) == \E c \in Callers : caller[c].turn = t
EndsOf(t) == {i \in DOMAIN live : live[i].turn = t}

\* A process at work can be reached: it is the VM's agent, or a request is
\* about to attach or to signal it.  So there is one at a time, and Cancel,
\* Restart and Delete stop it; provided no engine is started while another
\* request is under way.
OneEngine ==
    ~clash => /\ \A t \in Turns : Working(t) => agent = t \/ InHand(t)
              /\ \A s, t \in Turns : Working(s) /\ Working(t) => s = t

\* No turn ends twice for those who watch, under the same proviso: the reader
\* and the Cancel that stops its process never both publish.
EndsOnce ==
    ~clash => \A t \in Turns : \A i, j \in EndsOf(t) : i = j

\* A turn passes without an end only if somebody asked for it: its process was
\* stopped or replaced, or a Cancel came while it was being read.  A Cancel
\* that found nothing to stop never silences a turn that starts after it.
SilentOnlyIfAsked ==
    \A t \in Turns :
       reader[t] = "done" /\ EndsOf(t) = {} => t \in ignored \cup cancelled

\* Once Delete is done with a VM no process of it is at work.
DeleteStopsEngine ==
    ~registered /\ ~clash /\ (\A c \in Callers : ~Busy(c))
      => \A t \in Turns : ~Working(t)

\* What the comment on stopped says (local.go:36-37): when a reader is silent
\* because of it, Cancel has published the end.
CancelEndsTurn ==
    (\A c \in Callers : ~Busy(c)) =>
       \A t \in cancelled : reader[t] = "done" => EndsOf(t) # {} \/ t \in ignored

\* The VM refuses messages only on account of a process whose output is being
\* read: once its reader is through, or a request has taken it, Continue is
\* accepted again, whatever else happened to the turn.
AgentIsRead == agent # NoTurn => reader[agent] = "reading" /\ agent \notin ignored

\* In any order of the critical sections, and as long as no engine is started
\* beside another request, the requests and readers do together what an engine
\* without them would: one turn at work, no start once the VM is deleted, each end
\* told once and truly, as cancelled only if a Cancel came while the turn was
\* being read, and none kept back unasked.
Contract == INSTANCE EngineContract WITH
    signalled <- ignored,
    told <- live,
    asked <- cancelled,
    over <- {t \in Turns : reader[t] = "done"},
    gone <- ~registered,
    doubt <- clash

ImplementsContract == Contract!Spec

=============================================================================
