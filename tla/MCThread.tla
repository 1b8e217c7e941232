------------------------------ MODULE MCThread ------------------------------
(***************************************************************************)
(* The sets of methods with which Thread is model-checked.                 *)
(***************************************************************************)
EXTENDS Thread

\* Every use of the class that waits for the worker before the queue goes away.
WaitingMethods == Method \ {"terminate"}

\* Everything but the explicit suspension and the waits for the worker's exit.
ReturningMethods == {"submit", "resume", "terminate"}
=============================================================================
