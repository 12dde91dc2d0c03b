---------------------------- MODULE MCUserProfile ----------------------------
(* A public room and one that is not.                                       *)
EXTENDS UserProfile

CONSTANTS r1, r2
=============================================================================
