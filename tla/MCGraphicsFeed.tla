--------------------------- MODULE MCGraphicsFeed ---------------------------
(* Environments for model checking the way of a Figure to its window.      *)
EXTENDS GraphicsFeed

\* What executions do.
MCAllOps == {"create", "mutate", "close"}
\* What users do in the window: nothing, or everything.
MCNoUser == {}
MCUser == {"limits", "close"}
=============================================================================
