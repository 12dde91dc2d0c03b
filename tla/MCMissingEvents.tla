-------------------------- MODULE MCMissingEvents --------------------------
(* Every other event grows deeper than its prev events.                     *)
EXTENDS MissingEvents

MCGrowth == [e \in 1..N |-> IF e % 2 = 0 THEN 1 ELSE 0]
=============================================================================
