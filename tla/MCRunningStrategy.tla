------------------------- MODULE MCRunningStrategy -------------------------
EXTENDS RunningStrategy
=============================================================================
