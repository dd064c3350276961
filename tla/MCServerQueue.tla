--------------------------- MODULE MCServerQueue ---------------------------
EXTENDS ServerQueue
=============================================================================
