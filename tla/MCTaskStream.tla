---------------------------- MODULE MCTaskStream ----------------------------
(* Small instances of TaskStream for TLC.                                  *)
EXTENDS TaskStream

\* With and without a log store, in one state space.
MCLogs == BOOLEAN
=============================================================================
