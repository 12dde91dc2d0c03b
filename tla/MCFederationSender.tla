------------------------- MODULE MCFederationSender -------------------------
(* Two processes; the first may have two goroutines for the destination.    *)
EXTENDS FederationSender, TLC

CONSTANTS p1, p2, g1, g2, g3, r1, r2

MCOf == [g \in Tasks |-> IF g = g3 THEN p2 ELSE p1]

(* The rooms are alike, and so are the processes with their goroutines.    *)
SwapProcs == (p1 :> p2) @@ (p2 :> p1) @@ (g1 :> g3) @@ (g3 :> g1)
Symmetry  == Permutations(Rooms) \cup {SwapProcs}
=============================================================================
