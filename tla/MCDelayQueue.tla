---------------------------- MODULE MCDelayQueue ----------------------------
(* Small instances of DelayQueue for TLC.                                  *)
EXTENDS DelayQueue, TLC

\* Ids, callers, workers and payloads are interchangeable in every action.
MCSymmetry == Permutations(Ids) \cup Permutations(Callers)
                \cup Permutations(Workers) \cup Permutations(Payloads)

\* Most queues are fed by Enqueue alone; only the deadline repair of the
\* recycle queue calls EnqueueIfMissing.
EnqueueOnly ==
    Next /\ \A c \in Callers, i \in Ids, p \in Payloads, at \in Whens :
               ~EnqueueIfMissing(c, i, p, at)
EnqueueSpec == Init /\ [][EnqueueOnly]_vars
=============================================================================
