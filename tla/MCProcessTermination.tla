------------------------ MODULE MCProcessTermination ------------------------
EXTENDS ProcessTermination
=============================================================================
