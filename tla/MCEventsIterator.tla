-------------------------- MODULE MCEventsIterator --------------------------
(* Two server processes.                                                    *)
EXTENDS EventsIterator, TLC

CONSTANTS p1, p2

ProcSymmetry == Permutations(Procs)
=============================================================================
