------------------------ MODULE MCClientConnection ------------------------
EXTENDS ClientConnection
=============================================================================
