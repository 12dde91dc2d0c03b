----------------------------- MODULE EventCursor -----------------------------
(***************************************************************************)
(* What the events iterator promises: a position in the server's log of    *)
(* events that only moves forward, and only over events that it has passed *)
(* on, or tried to.  An event may be passed on any number of times.        *)
(***************************************************************************)
EXTENDS Naturals

VARIABLES events,    \* number of events stored
          told,      \* versions passed on, or tried, at least once
          position   \* every version up to this one is done

cursor == <<events, told, position>>

Init == events = 0 /\ told = {} /\ position = 0

Store == events' = events + 1 /\ UNCHANGED <<told, position>>

Tell == /\ \E S \in SUBSET (1..events) : told' = told \cup S
        /\ UNCHANGED <<events, position>>

Move == /\ position' \in position..events
        /\ 1..position' \subseteq told
        /\ UNCHANGED <<events, told>>

Next == Store \/ Tell \/ Move

Spec == Init /\ [][Next]_cursor

=============================================================================
