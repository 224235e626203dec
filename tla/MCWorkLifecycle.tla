--------------------------- MODULE MCWorkLifecycle ---------------------------
EXTENDS WorkLifecycle
=============================================================================
