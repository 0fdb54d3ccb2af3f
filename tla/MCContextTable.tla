--------------------------- MODULE MCContextTable ---------------------------
(* TLC instance of ContextTable: context 1 has a queue of its own, 2 and 3   *)
(* share one, or all share one; the filter rejects context 3.              *)
EXTENDS ContextTable

CONSTANTS q1, q2
MCContext == 1..3
MCRejected == {3}
MCQueueOf == [c \in MCContext |-> IF c = 1 THEN q1 ELSE q2]
MCOneQueue == [c \in MCContext |-> q1]
=============================================================================
