------------------------- MODULE MCDocumentSession -------------------------
EXTENDS DocumentSession
=============================================================================
