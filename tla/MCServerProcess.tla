--------------------------- MODULE MCServerProcess ---------------------------
(* Requests of every kind beside one another.                               *)
EXTENDS ServerProcess

CONSTANTS q1, q2, q3
=============================================================================
