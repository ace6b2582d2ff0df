------------------------------ MODULE MCSignals -------------------------------
EXTENDS Signals
=============================================================================
