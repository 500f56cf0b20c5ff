-------------------------- MODULE MCGraphicsScene --------------------------
EXTENDS GraphicsScene
=============================================================================
