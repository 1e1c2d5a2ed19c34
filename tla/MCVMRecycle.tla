---------------------------- MODULE MCVMRecycle -----------------------------
(* Small instances of VMRecycle for TLC.                                   *)
EXTENDS VMRecycle, TLC

\* Goroutines and tasks are interchangeable in every action.
MCSymmetry == Permutations(Procs) \cup Permutations(Tasks)

\* For properties that do not read the history of abandoned and owed, which no
\* action looks at, and a policy that does not recycle, which makes nothing of
\* activity: states that differ in these alone are one.
MCView == <<db, redis, request, starting, proc, faults, overrun, reopened>>

\* For liveness: no step unmarks a VM, so what follows it cannot undo the goal of
\* StopRecycles, and behaviours are followed up to there (a state constraint).
Unmarked == ~vm.recycled
=============================================================================
