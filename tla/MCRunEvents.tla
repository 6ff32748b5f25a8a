---------------------------- MODULE MCRunEvents ----------------------------
EXTENDS RunEvents
==============================================================================
