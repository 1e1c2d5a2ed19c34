--------------------------- MODULE EngineContract ---------------------------
(***************************************************************************)
(* What the engine of a local VM promises to those who watch it and send   *)
(* requests, with no mutex, record or goroutine in between: turns are      *)
(* started one at a time, on a VM that is there; what is told of the end   *)
(* of a turn is told once and is true; and a turn is passed over in        *)
(* silence only if somebody asked for it.  Module LocalAgent implements it.*)
(*                                                                         *)
(* The promise ends where an engine is started while another request on    *)
(* the VM is under way: doubt.                                             *)
(***************************************************************************)
EXTENDS Naturals, Sequences

CONSTANT Turns

VARIABLES
    process,    \* turn -> "none" | "running" | "success" | "failed"
    signalled,  \* turns a request has stopped or replaced
    told,       \* the ends that were told, with their turns
    asked,      \* turns a Cancel came for
    over,       \* turns whose output has been read to its end
    gone,       \* the VM was deleted
    doubt       \* nothing is promised any more

promised == <<process, signalled, told, asked, over, gone>>
vars == <<promised, doubt>>

AtWork(t) == process[t] = "running" /\ t \notin signalled
Ended(t) == process[t] \in {"success", "failed"}
Untold(t) == \A i \in DOMAIN told : told[i].turn # t
Tell(t, kind) == Untold(t) /\ told' = Append(told, [turn |-> t, kind |-> kind])

Init ==
    /\ process = [t \in Turns |-> "none"]
    /\ signalled = {} /\ told = <<>> /\ asked = {} /\ over = {}
    /\ gone = FALSE /\ doubt = FALSE

-----------------------------------------------------------------------------
\* Turns are numbered in the order they start.
NextTurn(t) == process[t] = "none" /\ \A s \in Turns : s < t => process[s] # "none"

\* A turn starts when no other is at work.
Start(t) ==
    /\ ~gone /\ NextTurn(t)
    /\ \A s \in Turns : ~AtWork(s)
    /\ process' = [process EXCEPT ![t] = "running"]
    /\ UNCHANGED <<signalled, told, asked, over, gone>>

\* Or it cannot be started, which is told at once.
NoStart(t) ==
    /\ ~gone /\ NextTurn(t)
    /\ process' = [process EXCEPT ![t] = "failed"]
    /\ Tell(t, "failed")
    /\ UNCHANGED <<signalled, asked, over, gone>>

End(t) ==
    /\ process[t] = "running"
    /\ \E kind \in {"success", "failed"} : process' = [process EXCEPT ![t] = kind]
    /\ UNCHANGED <<signalled, told, asked, over, gone>>

Signal(t) ==
    /\ process[t] # "none"
    /\ signalled' = signalled \cup {t}
    /\ UNCHANGED <<process, told, asked, over, gone>>

\* A Cancel asks for the turns that are not over.
Ask(S) ==
    /\ \A t \in S : process[t] # "none" /\ t \notin over
    /\ asked' = asked \cup S
    /\ UNCHANGED <<process, signalled, told, over, gone>>

\* The end of a turn is told as it was, ...
TellEnd(t) ==
    /\ Ended(t) /\ t \notin over
    /\ Tell(t, process[t])
    /\ over' = over \cup {t}
    /\ UNCHANGED <<process, signalled, asked, gone>>

\* ... that of a turn which was cancelled as cancelled, ...
TellCancelled(t) ==
    /\ t \in signalled \cap asked
    /\ Tell(t, "cancelled")
    /\ UNCHANGED <<process, signalled, asked, over, gone>>

\* ... and that of one which was stopped, replaced or cancelled not at all.
PassOver(t) ==
    /\ Ended(t) /\ t \notin over
    /\ t \in signalled \cup asked
    /\ over' = over \cup {t}
    /\ UNCHANGED <<process, signalled, told, asked, gone>>

Remove == gone' = TRUE /\ UNCHANGED <<process, signalled, told, asked, over>>

Move ==
    \/ \E t \in Turns : \/ Start(t) \/ NoStart(t) \/ End(t) \/ Signal(t)
                        \/ TellEnd(t) \/ TellCancelled(t) \/ PassOver(t)
    \/ \E S \in SUBSET Turns : Ask(S)
    \/ Remove

Next ==
    /\ doubt => doubt'
    /\ doubt' \/ Move \/ UNCHANGED promised

Spec == Init /\ [][Next]_vars
=============================================================================
