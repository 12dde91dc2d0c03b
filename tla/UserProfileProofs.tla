------------------------- MODULE UserProfileProofs -------------------------
(* Theorems about a user's profile, for any number of rooms, updates, moves *)
(* and faults.                                                              *)
EXTENDS UserProfile, TLAPS

(* Types; no task has work for an update that was not made, and only a room *)
(* the user is in shows a profile.                                          *)
Typed ==
  /\ profile \in 0..MaxUpdates /\ shown \in [Rooms -> 0..profile]
  /\ membership \in [Rooms -> {"join", "leave", "invite"}]
  /\ task \in [Updates -> SUBSET Rooms] /\ overtaken \subseteq Rooms
  /\ \A u \in Updates : u > profile => task[u] = {}
  /\ \A r \in Rooms : shown[r] # 0 => membership[r] = "join"
  /\ faults \in Nat

(* Where nothing was overtaken or lost, only the last update has work to    *)
(* do, and where it has done it, its profile is shown.                      *)
InOrder ==
  faults = 0 =>
    \A r \in Rooms \ overtaken :
      /\ \A u \in Updates : u < profile => r \notin task[u]
      /\ shown[r] # 0 /\ shown[r] # profile => profile \in Updates /\ r \in task[profile]

Inv == Typed /\ InOrder

LEMMA Initially == Init => Inv
  BY BoundsAssumption DEF Init, Inv, Typed, InOrder, Updates

LEMMA InvStep ==
  ASSUME Inv, [Next]_vars
  PROVE  Inv'
<1> USE BoundsAssumption DEF Updates
<1>1. CASE UNCHANGED vars BY <1>1 DEF Inv, Typed, InOrder, vars
<1>2. CASE Update
  <2>1. profile' = profile + 1 /\ profile' \in Updates /\ profile \in 0..MaxUpdates
    BY <1>2 DEF Update, Inv, Typed
  <2>2. task' = [task EXCEPT ![profile'] = Joined] /\ Joined \subseteq Rooms
    BY <1>2 DEF Update, Joined
  <2>3. Typed'
    <3>1. \A u \in Updates : task[u] \subseteq Rooms BY DEF Inv, Typed
    <3>2. overtaken' \subseteq Rooms BY <1>2, <3>1 DEF Update, Inv, Typed
    <3>3. shown' \in [Rooms -> 0..profile'] BY <1>2, <2>1 DEF Update, Inv, Typed
    <3>4. \A u \in Updates : u > profile' => task'[u] = {}
      BY <2>1, <2>2 DEF Inv, Typed
    <3>5. task' \in [Updates -> SUBSET Rooms] BY <2>1, <2>2 DEF Inv, Typed
    <3> QED BY <1>2, <2>1, <3>2, <3>3, <3>4, <3>5 DEF Update, Inv, Typed
  <2>4. ASSUME faults' = 0, NEW r \in Rooms \ overtaken'
        PROVE  /\ \A u \in Updates : u < profile' => r \notin task'[u]
               /\ shown'[r] # 0 /\ shown'[r] # profile' =>
                    profile' \in Updates /\ r \in task'[profile']
    <3>1. \A u \in Updates : r \notin task[u] BY <1>2, <2>4 DEF Update
    <3>2. \A u \in Updates : u < profile' => task'[u] = task[u]
      BY <2>1, <2>2 DEF Inv, Typed
    <3>3. r \in Rooms /\ r \notin overtaken /\ faults = 0 BY <1>2, <2>4 DEF Update
    <3>4. shown[r] # 0 => shown[r] = profile BY <3>1, <3>3 DEF Inv, InOrder
    <3>5. shown'[r] # 0 => membership[r] = "join" BY <1>2 DEF Update, Inv, Typed
    <3> QED BY <2>1, <2>2, <3>1, <3>2, <3>5 DEF Joined, Inv, Typed
  <2> QED BY <2>3, <2>4 DEF Inv, InOrder
<1>3. CASE Crash
  <2>1. faults' # 0 BY <1>3 DEF Crash, Fault, Inv, Typed
  <2> QED BY <1>3, <2>1 DEF Crash, Fault, Inv, Typed, InOrder
<1>4. ASSUME NEW u \in Updates, NEW r \in Rooms, SendMemberEvent(u, r) PROVE Inv'
  <2>1. u <= profile BY <1>4 DEF SendMemberEvent, Inv, Typed
  <2>2. Typed'
    <3>1. u \in 0..profile BY <2>1 DEF Inv, Typed
    <3>2. task' \in [Updates -> SUBSET Rooms] /\ \A w \in Updates : w > profile => task'[w] = {}
      BY <1>4, <2>1 DEF SendMemberEvent, Inv, Typed
    <3>3. CASE JoinAllowed(r)
      <4>1. membership' = [membership EXCEPT ![r] = "join"] /\ shown' = [shown EXCEPT ![r] = u]
            /\ profile' = profile /\ overtaken' = overtaken /\ faults' = faults
        BY <1>4, <3>3 DEF SendMemberEvent
      <4>2. membership' \in [Rooms -> {"join", "leave", "invite"}] BY <4>1 DEF Inv, Typed
      <4>3. shown' \in [Rooms -> 0..profile'] BY <3>1, <4>1 DEF Inv, Typed
      <4>4. \A x \in Rooms : shown'[x] # 0 => membership'[x] = "join" BY <4>1 DEF Inv, Typed
      <4> QED BY <3>2, <4>1, <4>2, <4>3, <4>4 DEF Inv, Typed
    <3>4. CASE ~JoinAllowed(r) BY <1>4, <3>2, <3>4 DEF SendMemberEvent, Inv, Typed
    <3> QED BY <3>3, <3>4
  <2>3. ASSUME faults' = 0, NEW x \in Rooms \ overtaken'
        PROVE  /\ \A w \in Updates : w < profile' => x \notin task'[w]
               /\ shown'[x] # 0 /\ shown'[x] # profile' =>
                    profile' \in Updates /\ x \in task'[profile']
    <3>1. CASE x = r
      <4>1. u = profile BY <1>4, <2>1, <2>3, <3>1 DEF SendMemberEvent, Inv, Typed, InOrder
      <4> QED BY <1>4, <2>3, <3>1, <4>1 DEF SendMemberEvent, JoinAllowed, Inv, Typed, InOrder
    <3>2. CASE x # r
      BY <1>4, <2>3, <3>2 DEF SendMemberEvent, Inv, Typed, InOrder
    <3> QED BY <3>1, <3>2
  <2> QED BY <2>2, <2>3 DEF Inv, InOrder
<1>5. ASSUME NEW u \in Updates, NEW r \in Rooms, FailToSend(u, r) PROVE Inv'
  <2>1. faults' # 0 BY <1>5 DEF FailToSend, Fault, Inv, Typed
  <2> QED BY <1>5, <2>1 DEF FailToSend, Fault, Inv, Typed, InOrder
<1>6. ASSUME NEW r \in Rooms, SendRoomJoin(r) \/ SendRoomLeave(r) \/ SendRoomInvite(r)
      PROVE  Inv'
  <2>1. PICK m \in {"join", "leave", "invite"} : MoveTo(r, m)
    BY <1>6 DEF SendRoomJoin, SendRoomLeave, SendRoomInvite
  <2> QED BY <2>1 DEF MoveTo, Inv, Typed, InOrder
<1> QED BY <1>1, <1>2, <1>3, <1>4, <1>5, <1>6 DEF Next

-----------------------------------------------------------------------------
(* A room shows an older profile than the user's only where the task of an  *)
(* update was overtaken by the next update, or a send was lost.             *)
THEOREM StaleOnlyThere == Spec => []StaleOnlyIfOvertaken
<1>1. Inv => StaleOnlyIfOvertaken
  BY DEF Inv, InOrder, StaleOnlyIfOvertaken, Settled
<1> QED BY <1>1, Initially, InvStep, PTL DEF Spec

=============================================================================
