--------------------------- MODULE MCKernelServer ---------------------------
(* Bounds for model checking one kernel connection.                       *)
EXTENDS KernelServer

MCProtocols == {"V3"}
\* Programs that end by themselves.
FiniteKinds == {"execute", "inspect", "shutdown"}
\* A program that only a cancellation ends.
LoopKinds == {"loop"}
=============================================================================
