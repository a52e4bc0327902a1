------------------------------ MODULE MCSched ------------------------------
(* Model values for Sched: three slots, two levels with quanta 1 and 2, and *)
(* room for MaxStacks submissions, so that slots are reused.               *)
EXTENDS Sched

MCQuantum == [p \in Levels |-> p + 1]
=============================================================================
