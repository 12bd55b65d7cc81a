------------------------------ MODULE MCSched ------------------------------
EXTENDS Sched
=============================================================================
