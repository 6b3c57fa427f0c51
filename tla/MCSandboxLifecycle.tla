-------------------------- MODULE MCSandboxLifecycle --------------------------
(***************************************************************************)
(* Instances of SandboxLifecycle for TLC: two workers.                     *)
(***************************************************************************)
EXTENDS SandboxLifecycle

CONSTANTS w1, w2

MCWorkers == {w1, w2}
=============================================================================
