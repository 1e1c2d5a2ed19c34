---------------------------- MODULE MCLocalAgent ----------------------------
(* Small instances of LocalAgent for TLC.                                  *)
EXTENDS LocalAgent, TLC

\* Goroutines are interchangeable in every action; turns are numbered.
MCSymmetry == Permutations(Callers)
=============================================================================
