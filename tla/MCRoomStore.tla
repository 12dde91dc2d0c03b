---------------------------- MODULE MCRoomStore ----------------------------
(* Small rooms for TLC: one local user, one remote user and, where a run    *)
(* needs another, a second local user.                                      *)
EXTENDS RoomStore, TLC

CONSTANTS alice, bob, carol, here, there, f1, f2

MCHome == [u \in Users |-> IF u = bob THEN there ELSE here]
FlightSymmetry == Permutations(Flights)
=============================================================================
