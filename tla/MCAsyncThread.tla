--------------------------- MODULE MCAsyncThread ----------------------------
EXTENDS AsyncThread

CONSTANTS h1, h2, x1, x2, v1, v2
=============================================================================
