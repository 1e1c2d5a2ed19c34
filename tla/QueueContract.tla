--------------------------- MODULE QueueContract ----------------------------
(***************************************************************************)
(* What a delay queue promises to those who use it, with no Redis commands *)
(* in between: an id is queued together with its job, comes due, is        *)
(* claimed by one consumer, handed to its handler with that job, and is    *)
(* then gone or queued again, all at once.  Module DelayQueue implements   *)
(* it.                                                                     *)
(*                                                                         *)
(* The promise is made of an id for as long as it is not in doubt: no      *)
(* command on it failed, its key did not expire, no process died with it,  *)
(* and its users took turns.                                               *)
(***************************************************************************)
EXTENDS Naturals

CONSTANTS
    Ids, Payloads,
    Workers,      \* consumers
    MaxAttempts,
    NoJob

VARIABLES
    when,    \* id -> "none" | "later" | "due"
    data,    \* id -> its job, or NoJob
    hands,   \* id -> who has claimed it, with the job the handler was given
    doubt    \* ids of which nothing is promised any more

vars == <<when, data, hands, doubt>>

Fresh(p) == [payload |-> p, attempts |-> 0]
Claimed(w) == [by |-> w, job |-> NoJob]
Handling(w, j) == [by |-> w, job |-> j]

Init ==
    /\ when = [i \in Ids |-> "none"]
    /\ data = [i \in Ids |-> NoJob]
    /\ hands = [i \in Ids |-> {}]
    /\ doubt = {}

-----------------------------------------------------------------------------
(* What may become of one id.                                              *)

Becomes(i, at, j, h) == when'[i] = at /\ data'[i] = j /\ hands'[i] = h

Schedule(i) ==
    /\ hands[i] = {}
    /\ \E at \in {"later", "due"}, p \in Payloads : Becomes(i, at, Fresh(p), {})

Cancel(i) ==
    /\ hands[i] = {}
    /\ Becomes(i, "none", NoJob, {})

ComesDue(i) ==
    /\ when[i] = "later"
    /\ Becomes(i, "due", data[i], hands[i])

\* A job is claimed when it is due, by one consumer, with its data.
Claim(i) ==
    /\ when[i] = "due" /\ data[i] # NoJob /\ hands[i] = {}
    /\ \E w \in Workers : Becomes(i, "none", data[i], {Claimed(w)})

\* What is claimed is handled, with the job as it was last queued.
Deliver(i) ==
    /\ data[i] # NoJob
    /\ \E w \in Workers :
          /\ hands[i] = {Claimed(w)}
          /\ Becomes(i, when[i], data[i], {Handling(w, data[i])})

\* Success, or the last attempt.
Finish(i) ==
    /\ \E w \in Workers : hands[i] = {Handling(w, data[i])}
    /\ Becomes(i, "none", NoJob, {})

\* One attempt more, up to the limit.
Retry(i) ==
    /\ \E w \in Workers : hands[i] = {Handling(w, data[i])}
    /\ \E p \in Payloads :
          LET made == data[i].attempts + 1
          IN  Becomes(i, "later",
                      [payload |-> p,
                       attempts |-> IF made < MaxAttempts THEN made ELSE MaxAttempts - 1],
                      {})

Reschedule(i) ==
    /\ \E w \in Workers : hands[i] = {Handling(w, data[i])}
    /\ \E at \in {"later", "due"}, p \in Payloads : Becomes(i, at, Fresh(p), {})

Same(i) == Becomes(i, when[i], data[i], hands[i])

Step(i) ==
    \/ Schedule(i) \/ Cancel(i) \/ ComesDue(i) \/ Claim(i) \/ Deliver(i)
    \/ Finish(i) \/ Retry(i) \/ Reschedule(i)

\* Doubt does not go away; an id that is not in doubt moves as above, whatever
\* happens to the others.
Next ==
    /\ doubt \subseteq doubt'
    /\ \A i \in Ids \ doubt' : Step(i) \/ Same(i)

Spec == Init /\ [][Next]_vars
=============================================================================
