------------------------------ MODULE Timeline ------------------------------
(***************************************************************************)
(* What the send engine promises about a room: one order of events that is *)
(* only ever added to at its end, each event allowed by the members the    *)
(* events before it leave, and the room's servers and member count always  *)
(* those of its joined members.  It has no requests, batches, transactions *)
(* or soft failures.                                                       *)
(***************************************************************************)
EXTENDS Authorisation, Naturals, FiniteSets, Sequences

CONSTANT Home \* the server of each user

VARIABLES
  timeline, \* event at each version of the room's order
  members,  \* current member event of each user, 0 if none
  servers,  \* servers in the room
  count     \* its number of members

room == <<timeline, members, servers, count>>

JoinedBy(m) == {u \in Users : Membership(m, u) = "join"}

Init ==
  /\ DOMAIN timeline = {} /\ members = [u \in Users |-> 0]
  /\ servers = {} /\ count = 0

(* Some server makes an event, which changes nothing here yet.             *)
Make ==
  /\ Len(ev') = Len(ev) + 1 /\ \A id \in 1..Len(ev) : ev'[id] = ev[id]
  /\ UNCHANGED room

(* The next event takes a version after those of all others.               *)
Add(id) ==
  /\ Allowed(ev[id], members)
  /\ \E v \in DOMAIN timeline' :
       /\ \A w \in DOMAIN timeline : w < v
       /\ timeline' = [w \in DOMAIN timeline \cup {v} |-> IF w = v THEN id ELSE timeline[w]]
  /\ members' = Applied(members, ev[id], id)
  /\ servers' = {Home[u] : u \in JoinedBy(members')}
  /\ count' = Cardinality(JoinedBy(members'))
  /\ UNCHANGED ev

Next == Make \/ \E id \in 1..Len(ev) : Add(id)

Spec == Init /\ [][Next]_<<ev, room>>

=============================================================================
