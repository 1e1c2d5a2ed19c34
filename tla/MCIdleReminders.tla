-------------------------- MODULE MCIdleReminders --------------------------
(* A small instance of IdleReminders for TLC.                              *)
EXTENDS IdleReminders, TLC

MCTiers == <<"default">>
MCMatches == [t \in {"default"} |-> Subscriptions]

\* Backends are interchangeable in every action.
MCSymmetry == Permutations(Backends)
=============================================================================
