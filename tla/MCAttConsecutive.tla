-------------------------- MODULE MCAttConsecutive --------------------------
(* TLC instance of AttConsecutive: kernel 1 is targeted on its iterations   *)
(* in MCRange, kernel 2 never; up to Threads callbacks run at once.         *)
EXTENDS AttConsecutive

MCDispatch == 1..5
MCKernel == 1..2
MCIncluded == {1}
MCExcluded == {}
MCRange == {1, 3}
=============================================================================
