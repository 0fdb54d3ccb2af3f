-------------------------- MODULE MCSignalHandling --------------------------
(* TLC instance of SignalHandling: threads and signals are model values.    *)
EXTENDS SignalHandling
=============================================================================
