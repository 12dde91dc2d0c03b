---------------------------- MODULE UserProfile ----------------------------
(***************************************************************************)
(* The profile of one user of this server and the rooms that show it       *)
(* (UpdateUserProfile in internal/databases/rooms/user_profiles.go): an    *)
(* update changes the profile and leaves a task that sends a member event  *)
(* to each room the user was in, one transaction after the other, while    *)
(* the user leaves rooms, is invited, joins, and updates the profile again.*)
(***************************************************************************)
EXTENDS Naturals, FiniteSets

CONSTANTS
  Rooms,
  Public,      \* rooms that anyone may join
  MaxUpdates,  \* bound: updates of the profile
  MaxMoves,    \* bound: joins, leaves and invites
  MaxFaults    \* bound: sends that fail and processes that end

ASSUME RoomsAssumption  == Public \subseteq Rooms
ASSUME BoundsAssumption == {MaxUpdates, MaxMoves, MaxFaults} \subseteq Nat

VARIABLES
  profile,     \* number of the last update
  membership,  \* the user's membership in each room
  shown,       \* the profile in the user's member event; 0: an event without
  task,        \* what each update's task has to send, and to which rooms
  overtaken,   \* (history) rooms an earlier task had still to send to as
               \* the profile was updated
  moves, faults

vars == <<profile, membership, shown, task, overtaken, moves, faults>>

Updates == 1..MaxUpdates
Fault   == faults < MaxFaults /\ faults' = faults + 1

(* Profile and memberships are read and written in one transaction; the    *)
(* task passes over rooms whose membership is not a join.                  *)
NotYetShown == {r \in Rooms : membership[r] = "join" /\ shown[r] = 0}
Joined      == {r \in Rooms : membership[r] = "join"}
Update ==
  /\ profile < MaxUpdates /\ profile' = profile + 1
  /\ task' = [task EXCEPT ![profile'] = Joined]
  /\ overtaken' = overtaken \cup UNION {task[u] : u \in Updates}
  /\ UNCHANGED <<membership, shown, moves, faults>>

(* The member event is a join; the room's rules decide on the membership   *)
(* there is when it is sent.                                               *)
JoinAllowed(r) == membership[r] \in {"join", "invite"} \/ r \in Public
SendMemberEvent(u, r) ==
  /\ r \in task[u] /\ task' = [task EXCEPT ![u] = @ \ {r}]
  /\ IF JoinAllowed(r)
     THEN membership' = [membership EXCEPT ![r] = "join"] /\ shown' = [shown EXCEPT ![r] = u]
     ELSE UNCHANGED <<membership, shown>>
  /\ UNCHANGED <<profile, overtaken, moves, faults>>

(* The error is logged, and the room left as it is.                        *)
FailToSend(u, r) ==
  /\ Fault /\ r \in task[u] /\ task' = [task EXCEPT ![u] = @ \ {r}]
  /\ UNCHANGED <<profile, membership, shown, overtaken, moves>>

(* Tasks are not kept anywhere.                                            *)
Crash ==
  /\ Fault /\ task' = [u \in Updates |-> {}]
  /\ UNCHANGED <<profile, membership, shown, overtaken, moves>>

(* The member events of other requests, which hold no profile.             *)
MoveTo(r, m) ==
  /\ moves < MaxMoves /\ moves' = moves + 1
  /\ membership' = [membership EXCEPT ![r] = m] /\ shown' = [shown EXCEPT ![r] = 0]
  /\ UNCHANGED <<profile, task, overtaken, faults>>
SendRoomJoin(r)   == membership[r] # "join" /\ JoinAllowed(r) /\ MoveTo(r, "join")
SendRoomLeave(r)  == membership[r] # "leave" /\ MoveTo(r, "leave")
SendRoomInvite(r) == membership[r] = "leave" /\ MoveTo(r, "invite")  \* by another user

Init ==
  /\ profile = 0 /\ membership \in [Rooms -> {"join", "leave"}]
  /\ shown = [r \in Rooms |-> 0] /\ task = [u \in Updates |-> {}]
  /\ overtaken = {} /\ moves = 0 /\ faults = 0

Next ==
  \/ Update \/ Crash
  \/ \E u \in Updates, r \in Rooms : SendMemberEvent(u, r) \/ FailToSend(u, r)
  \/ \E r \in Rooms : SendRoomJoin(r) \/ SendRoomLeave(r) \/ SendRoomInvite(r)

Spec == Init /\ [][Next]_vars

-----------------------------------------------------------------------------
(* Properties.                                                             *)

(* A room with a profile of the user, for which no send is under way or    *)
(* was lost, shows the last one: unless an update's task was overtaken     *)
(* there by the next update, and the older member event came last.         *)
Settled(r) == \A u \in Updates : r \notin task[u]
StaleOnlyIfOvertaken ==
  faults = 0 =>
    \A r \in Rooms \ overtaken : Settled(r) /\ shown[r] # 0 => shown[r] = profile

=============================================================================
