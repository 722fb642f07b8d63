-------------------------- MODULE MCSandboxChannel --------------------------
(* Instances of SandboxChannel for TLC. *)
EXTENDS SandboxChannel

CONSTANTS t1, t2

=============================================================================
