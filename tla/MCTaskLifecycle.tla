-------------------------- MODULE MCTaskLifecycle --------------------------
(* Small instances of TaskLifecycle for TLC.                               *)
EXTENDS TaskLifecycle

\* The local backend and the cloud's, in one state space.
MCModes == {"local", "cloud"}
=============================================================================
