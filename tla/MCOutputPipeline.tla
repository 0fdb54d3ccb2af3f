-------------------------- MODULE MCOutputPipeline --------------------------
(* TLC instance of OutputPipeline: two kernel dispatches, one of them of a   *)
(* kernel without a symbol, a counter record of the second context, written *)
(* straight to its ring, and a PC sample.                                    *)
EXTENDS OutputPipeline

CONSTANTS kernel, counter, sample, hip

MCDomain == {kernel, counter, sample}
MCRecord == 1..4
MCDomainOf == <<kernel, kernel, counter, sample>>

MCFewDomain == {kernel, hip}
MCFewRecord == 1..2
MCFewDomainOf == <<kernel, hip>>
=============================================================================
