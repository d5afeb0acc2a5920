--------------------------- MODULE MCHttpEndpoint ---------------------------
EXTENDS HttpEndpoint

CONSTANTS c1, c2, c3
=============================================================================
