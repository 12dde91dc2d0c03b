--------------------------- MODULE Authorisation ---------------------------
(***************************************************************************)
(* gomatrixserverlib.Allowed, reduced to membership, over the events of a  *)
(* room that any server ever made, and what an allowed event makes of the  *)
(* members it was judged by.                                               *)
(***************************************************************************)

CONSTANTS
  Users,
  Creator,     \* the user who creates the room, its only administrator
  Public       \* the room's join rule: public, or invite only

VARIABLE ev    \* every event created by any server, the index is its ID

MemberKinds == {"join", "invite", "leave", "ban"}

Membership(m, u) == IF m[u] = 0 THEN "leave" ELSE ev[m[u]].kind

Allowed(e, m) ==
  LET mine   == Membership(m, e.sender)
      theirs == Membership(m, e.target)
      self   == e.sender = e.target
      rules  == e.sender = Creator /\ mine = "join"
  IN CASE e.kind = "create" -> e.prevs = {} /\ e.sender = Creator
       [] e.kind = "join"   -> /\ self /\ mine # "ban"
                               /\ \/ Public \/ mine \in {"join", "invite"}
                                  \/ /\ e.sender = Creator
                                     /\ \E p \in e.prevs : ev[p].kind = "create"
       [] e.kind = "invite" -> mine = "join" /\ theirs \in {"leave", "invite"}
       [] e.kind = "leave"  -> IF self THEN mine \in {"join", "invite"}
                                       ELSE rules /\ e.target # Creator
       [] e.kind = "ban"    -> rules /\ e.target # Creator
       [] OTHER             -> mine = "join"

(* IsEventAllowed adds an event it allowed to its state map.               *)
Applied(m, e, id) ==
  IF e.kind \in MemberKinds THEN [m EXCEPT ![e.target] = id] ELSE m

=============================================================================
