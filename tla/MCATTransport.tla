--------------------------- MODULE MCATTransport ---------------------------
EXTENDS ATTransport
CONSTANTS a, b, c
MCRequests == {a, b, c}
=============================================================================
