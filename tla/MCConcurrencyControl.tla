---------------------- MODULE MCConcurrencyControl ----------------------
EXTENDS ConcurrencyControl
=============================================================================
