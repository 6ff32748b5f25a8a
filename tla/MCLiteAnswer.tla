---------------------------- MODULE MCLiteAnswer ----------------------------
EXTENDS LiteAnswer
==============================================================================
