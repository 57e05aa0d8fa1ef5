----------------------------- MODULE MCMainLoop -----------------------------
EXTENDS MainLoop
=============================================================================
