-------------------------- MODULE MCKernelSession --------------------------
(* Bounds for model checking one kernel session on its own.               *)
EXTENDS KernelSession

MCProtocols == {"V0", "V3"}
\* Executions of both sorts, with queries, edits and a shutdown between them.
SessionKinds == {"execute", "loop", "inspect", "set", "shutdown"}
=============================================================================
