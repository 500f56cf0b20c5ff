------------------------- MODULE MCGraphicsRegistry -------------------------
(* Bounds for model checking the graphics registry.                        *)
EXTENDS GraphicsRegistry, TLC

MCSymmetry == Permutations(Renderers) \cup Permutations(Kernels)
=============================================================================
