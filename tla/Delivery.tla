------------------------------ MODULE Delivery ------------------------------
(***************************************************************************)
(* What a federation sender promises one destination: a position in the    *)
(* log of events that only moves forward, and never past an event that is  *)
(* owed to the destination and has not reached it.  An event is owed while *)
(* the destination stays in its room; it may be sent any number of times.  *)
(***************************************************************************)
EXTENDS Naturals

VARIABLES events,    \* number of events stored
          owed,      \* versions the destination is owed
          sent,      \* versions that have reached it
          position   \* the sender is done with every version up to this one

delivery == <<events, owed, sent, position>>

Init == events = 0 /\ owed = {} /\ sent = {} /\ position = 0

(* A new event may be owed, and may end what was owed before.              *)
Store == /\ events' = events + 1
         /\ owed' \in SUBSET (owed \cup {events + 1})
         /\ UNCHANGED <<sent, position>>

Send == /\ \E S \in SUBSET (1..events) : sent' = sent \cup S
        /\ UNCHANGED <<events, owed, position>>

Move == /\ position' \in position..events
        /\ \A v \in owed : v <= position' => v \in sent
        /\ UNCHANGED <<events, owed, sent>>

Next == Store \/ Send \/ Move

Spec == Init /\ [][Next]_delivery

=============================================================================
