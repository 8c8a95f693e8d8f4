---------------------------- MODULE MCInitScript ----------------------------
EXTENDS InitScript
=============================================================================
