-------------------------- MODULE RecycleContract ---------------------------
(***************************************************************************)
(* What recycling a VM promises to those who look at the database and the  *)
(* host, with no goroutines, lock, queue or retries: what may become of    *)
(* the VM's environment, row, record and tasks, and in which order.        *)
(* Module VMRecycle implements it.                                         *)
(***************************************************************************)
CONSTANTS
    Tasks,        \* tasks bound to the VM
    Methods,      \* why a VM is recycled
    NoRecord      \* no recycle record

VARIABLES
    env,        \* the environment exists on its host
    recycled,   \* the row says is_recycled
    deleted,    \* the row is deleted
    record,     \* the recycle record
    open,       \* the tasks that are not terminal
    asked,      \* the tasks that are being started or may yet be
    waived,     \* somebody entitled to do so gave the environment up
    doubt       \* a fault, or a give-up beside the recycle lock, has happened

vars == <<env, recycled, deleted, record, open, asked, waived, doubt>>

Init ==
    /\ env = TRUE /\ recycled = FALSE /\ deleted = FALSE
    /\ record = NoRecord
    /\ open = Tasks
    /\ asked \subseteq Tasks
    /\ waived = FALSE /\ doubt = FALSE

\* A host deletes the environment; none comes back.
EnvironmentGoes ==
    /\ env' = FALSE
    /\ UNCHANGED <<recycled, deleted, record, open, asked, waived, doubt>>

\* A VM becomes recycled when its environment is gone or given up.
Recycle ==
    /\ recycled' = TRUE
    /\ waived => waived'
    /\ doubt => doubt'
    /\ recycled \/ ~env \/ waived'
    /\ waived' \in BOOLEAN /\ doubt' \in BOOLEAN
    /\ UNCHANGED <<env, deleted, record, open, asked>>

\* A recycled VM gets one record, once, and it tells the truth.
Record ==
    /\ recycled
    /\ record = NoRecord
    /\ \E method \in Methods, remoteDeleted \in BOOLEAN :
          /\ remoteDeleted => ~env \/ doubt
          /\ record' = [method |-> method, remoteDeleted |-> remoteDeleted]
    /\ UNCHANGED <<env, recycled, deleted, open, asked, waived, doubt>>

\* Tasks end, recycled or not, and only one whose start was asked for runs
\* again; nobody asks anew.
TasksMove ==
    /\ open' \subseteq open \cup asked
    /\ asked' \subseteq asked
    /\ UNCHANGED <<env, recycled, deleted, record, waived, doubt>>

\* Only a recycled VM is deleted, and its tasks end with it.
Delete ==
    /\ recycled
    /\ deleted' = TRUE
    /\ open' = {}
    /\ UNCHANGED <<env, recycled, record, asked, waived, doubt>>

Trouble ==
    /\ doubt' = TRUE
    /\ asked' \subseteq asked
    /\ UNCHANGED <<env, recycled, deleted, record, open, waived>>

Next == EnvironmentGoes \/ Recycle \/ Record \/ TasksMove \/ Delete \/ Trouble

Spec == Init /\ [][Next]_vars
=============================================================================
