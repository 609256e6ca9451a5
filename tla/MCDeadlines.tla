---------------------------- MODULE MCDeadlines ----------------------------
EXTENDS Deadlines
=============================================================================
