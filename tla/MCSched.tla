------------------------------- MODULE MCSched --------------------------------
EXTENDS SleepClock, KernelRR
=============================================================================
