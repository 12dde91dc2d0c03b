------------------------ MODULE ServerProcessProofs ------------------------
(* Theorems about one process of the server, for any number of requests     *)
(* and any capacity of the channels.                                        *)
EXTENDS ServerProcess, TLAPS

Phases == {"running", "routes", "client", "iterator", "sender", "notifier", "db", "stopped"}

(* The phase after each.                                                    *)
LEMMA PositionIs ==
  ASSUME NEW i \in 1..8
  PROVE  Position(StopOrder[i]) = i
<1>1. DOMAIN StopOrder = 1..8 BY DEF StopOrder
<1>2. \A j \in 1..8 : StopOrder[j] = StopOrder[i] => j = i BY DEF StopOrder
<1> QED BY <1>1, <1>2 DEF Position

LEMMA FollowingIs ==
  /\ main = "running"  => Following = "routes"
  /\ main = "routes"   => Following = "client"
  /\ main = "client"   => Following = "iterator"
  /\ main = "iterator" => Following = "sender"
  /\ main = "sender"   => Following = "notifier"
  /\ main = "notifier" => Following = "db"
  /\ main = "db"       => Following = "stopped"
<1>1. /\ StopOrder[1] = "running" /\ StopOrder[2] = "routes" /\ StopOrder[3] = "client"
      /\ StopOrder[4] = "iterator" /\ StopOrder[5] = "sender" /\ StopOrder[6] = "notifier"
      /\ StopOrder[7] = "db" /\ StopOrder[8] = "stopped"
  BY DEF StopOrder
<1>2. /\ Position("running") = 1 /\ Position("routes") = 2 /\ Position("client") = 3
      /\ Position("iterator") = 4 /\ Position("sender") = 5 /\ Position("notifier") = 6
      /\ Position("db") = 7
  BY <1>1, PositionIs
<1> QED BY <1>1, <1>2 DEF Following

LEMMA PhasesAre == {StopOrder[i] : i \in DOMAIN StopOrder} = Phases
<1>1. DOMAIN StopOrder = 1..8 BY DEF StopOrder
<1>2. \A i \in 1..8 : StopOrder[i] \in Phases BY DEF StopOrder, Phases
<1>3. /\ StopOrder[1] = "running" /\ StopOrder[2] = "routes" /\ StopOrder[3] = "client"
      /\ StopOrder[4] = "iterator" /\ StopOrder[5] = "sender" /\ StopOrder[6] = "notifier"
      /\ StopOrder[7] = "db" /\ StopOrder[8] = "stopped"
  BY DEF StopOrder
<1>4. \A p \in Phases : \E i \in 1..8 : StopOrder[i] = p BY <1>3 DEF Phases
<1> QED BY <1>1, <1>2, <1>4

-----------------------------------------------------------------------------
(* The inductive invariant: what has stopped stays stopped, in the order of *)
(* Stop, and a task belongs to a handler that has returned.                 *)

LoopLast == loop # "up" => main \in {"db", "stopped"}

TaskAfterRequest ==
  \A r \in Requests :
    /\ request[r].pc # "done" => task[r] = "none"
    /\ request[r].pc = "spawn" => request[r].kind \in {"create", "profile"}
    /\ task[r] # "none" => request[r].kind \in {"create", "profile"}

RoutesStopped ==
  main \in Phases \ {"running", "routes"} => \A r \in Requests : Handled(r)

ClientStopped ==
  main \in Phases \ {"running", "routes", "client"} => Tasks("create") = {}

WorkersStopped ==
  /\ main \in {"sender", "notifier", "db", "stopped"} => worker["iterator"] = "done"
  /\ main \in {"notifier", "db", "stopped"} => worker["sender"] = "done"

DbStopped == main = "stopped" => Tasks("profile") = {}

Stopping ==
  /\ LoopLast /\ TaskAfterRequest /\ RoutesStopped /\ ClientStopped
  /\ WorkersStopped /\ DbStopped

LEMMA Initially == Init => TypeOK /\ Stopping
<1> SUFFICES ASSUME Init PROVE TypeOK /\ Stopping OBVIOUS
<1>1. TypeOK
  BY PhasesAre, CapacityAssumption, RemoteAssumption
  DEF Init, TypeOK, RequestKinds, Workers, Phases
<1>2. Stopping
  BY DEF Init, Stopping, LoopLast, TaskAfterRequest, RoutesStopped, ClientStopped,
         WorkersStopped, DbStopped, Phases
<1> QED BY <1>1, <1>2

LEMMA DeliverTyped ==
  ASSUME TypeOK, NEW w \in Workers, Deliver(w)
  PROVE  inbox' \in [Workers -> 0..Capacity]
  BY CapacityAssumption DEF TypeOK, Deliver, HasRoom

LEMMA TypeStep ==
  ASSUME TypeOK, [Next]_vars
  PROVE  TypeOK'
<1> USE CapacityAssumption, RemoteAssumption, KindsAssumption
<1>1. CASE UNCHANGED vars BY <1>1 DEF TypeOK, vars
<1>2. ASSUME NEW r \in Requests, Begin(r) \/ OfRequest(r) \/ TaskEnds(r) PROVE TypeOK'
  <2>1. CASE Begin(r) BY <2>1 DEF Begin, TypeOK, RequestKinds
  <2>2. CASE Store(r)
    BY <2>2 DEF Store, AfterCommit, AfterChange, TypeOK, RequestKinds
  <2>3. CASE Notify(r)
    <3>1. "iterator" \in Workers BY DEF Workers
    <3>2. inbox' \in [Workers -> 0..Capacity] BY <2>3, <3>1, DeliverTyped DEF Notify
    <3> QED BY <2>3, <3>2 DEF Notify, AfterChange, TypeOK
  <2>4. CASE Spawn(r) BY <2>4 DEF Spawn, TypeOK
  <2>5. CASE TaskStore(r) BY <2>5 DEF TaskStore, TypeOK
  <2>6. CASE TaskNotify(r)
    <3>1. "iterator" \in Workers BY DEF Workers
    <3>2. inbox' \in [Workers -> 0..Capacity] BY <2>6, <3>1, DeliverTyped DEF TaskNotify
    <3> QED BY <2>6, <3>2 DEF TaskNotify, TypeOK
  <2>7. CASE TaskEnds(r) BY <2>7 DEF TaskEnds, TypeOK
  <2> QED BY <1>2, <2>1, <2>2, <2>3, <2>4, <2>5, <2>6, <2>7 DEF OfRequest
<1>3. ASSUME NEW w \in Workers, OfWorker(w) PROVE TypeOK'
  <2>1. CASE Subscribe(w) BY <2>1 DEF Subscribe, Onward, TypeOK
  <2>2. CASE Receive(w) BY <2>2 DEF Receive, Onward, TypeOK
  <2>3. CASE Leave(w) BY <2>3 DEF Leave, TypeOK
  <2>4. CASE Unsubscribe(w) BY <2>4 DEF Unsubscribe, TypeOK
  <2> QED BY <1>3, <2>1, <2>2, <2>3, <2>4 DEF OfWorker
<1>4. CASE GiveUp BY <1>4 DEF GiveUp, TypeOK
<1>5. CASE TellSenders
  <2>1. "sender" \in Workers BY DEF Workers
  <2>2. inbox' \in [Workers -> 0..Capacity] BY <1>5, <2>1, DeliverTyped DEF TellSenders
  <2> QED BY <1>5, <2>2 DEF TellSenders, TypeOK
<1>6. CASE RemoteChange BY <1>6 DEF RemoteChange, TypeOK
<1>7. CASE RemoteNotify
  <2>1. redis \in Workers BY <1>7 DEF RemoteNotify, TypeOK
  <2>2. inbox' \in [Workers -> 0..Capacity] BY <1>7, <2>1, DeliverTyped DEF RemoteNotify
  <2> QED BY <1>7, <2>2 DEF RemoteNotify, TypeOK
<1>8. CASE LoopEnds BY <1>8 DEF LoopEnds, TypeOK
<1>9. CASE Stop
  BY <1>9, FollowingIs, PhasesAre DEF Stop, TypeOK, Phases
<1>10. CASE Advance
  BY <1>10, FollowingIs, PhasesAre DEF Advance, Alive, TypeOK, Phases
<1>11. CASE ShutdownTimesOut BY <1>11 DEF ShutdownTimesOut, TypeOK
<1> QED
  BY <1>1, <1>2, <1>3, <1>4, <1>5, <1>6, <1>7, <1>8, <1>9, <1>10, <1>11 DEF Next

LEMMA StoppingStep ==
  ASSUME TypeOK, Stopping, [Next]_vars
  PROVE  Stopping'
<1> USE DEF Stopping, LoopLast, TaskAfterRequest, RoutesStopped, ClientStopped,
            WorkersStopped, DbStopped, Handled, Tasks
<1>1. CASE UNCHANGED vars BY <1>1 DEF vars
<1>2. ASSUME NEW r \in Requests, Begin(r) \/ OfRequest(r) \/ TaskEnds(r) PROVE Stopping'
  <2>1. CASE Begin(r) BY <2>1 DEF Begin, TypeOK, Phases
  <2>2. CASE Store(r) BY <2>2 DEF Store, AfterCommit, AfterChange, TypeOK, Phases
  <2>3. CASE Notify(r) BY <2>3 DEF Notify, AfterChange, TypeOK, Phases
  <2>4. CASE Spawn(r) BY <2>4 DEF Spawn, TypeOK, Phases
  <2>5. CASE TaskStore(r) BY <2>5 DEF TaskStore, TypeOK
  <2>6. CASE TaskNotify(r) BY <2>6 DEF TaskNotify, TypeOK
  <2>7. CASE TaskEnds(r) BY <2>7 DEF TaskEnds, TypeOK
  <2> QED BY <1>2, <2>1, <2>2, <2>3, <2>4, <2>5, <2>6, <2>7 DEF OfRequest
<1>3. ASSUME NEW w \in Workers, OfWorker(w) PROVE Stopping'
  <2>1. CASE Subscribe(w) BY <2>1 DEF Subscribe, Onward, TypeOK, Workers
  <2>2. CASE Receive(w) BY <2>2 DEF Receive, Onward, TypeOK, Workers
  <2>3. CASE Leave(w) BY <2>3 DEF Leave, TypeOK, Workers
  <2>4. CASE Unsubscribe(w) BY <2>4 DEF Unsubscribe, TypeOK, Workers
  <2> QED BY <1>3, <2>1, <2>2, <2>3, <2>4 DEF OfWorker
<1>4. CASE GiveUp BY <1>4 DEF GiveUp, TypeOK, Workers
<1>5. CASE TellSenders BY <1>5 DEF TellSenders, TypeOK, Workers
<1>6. CASE RemoteChange BY <1>6 DEF RemoteChange
<1>7. CASE RemoteNotify BY <1>7 DEF RemoteNotify
<1>8. CASE LoopEnds BY <1>8 DEF LoopEnds
<1>9. CASE Stop BY <1>9, FollowingIs DEF Stop, Phases
<1>10. CASE Advance
  <2>0. main \in Phases \ {"running", "stopped"}
    BY <1>10, PhasesAre DEF Advance, Alive, TypeOK
  <2>1. CASE main = "routes"
    BY <1>10, <2>1, FollowingIs DEF Advance, Finished, Phases, Workers
  <2>2. CASE main = "client"
    BY <1>10, <2>2, FollowingIs DEF Advance, Finished, Phases, Workers
  <2>3. CASE main = "iterator"
    BY <1>10, <2>3, FollowingIs DEF Advance, Finished, Phases, Workers
  <2>4. CASE main = "sender"
    BY <1>10, <2>4, FollowingIs DEF Advance, Finished, Phases, Workers
  <2>5. CASE main = "notifier"
    BY <1>10, <2>5, FollowingIs DEF Advance, Finished, Phases
  <2>6. CASE main = "db"
    BY <1>10, <2>6, FollowingIs DEF Advance, Finished, Phases
  <2> QED BY <2>0, <2>1, <2>2, <2>3, <2>4, <2>5, <2>6 DEF Phases
<1>11. CASE ShutdownTimesOut BY <1>11 DEF ShutdownTimesOut, Phases
<1> QED
  BY <1>1, <1>2, <1>3, <1>4, <1>5, <1>6, <1>7, <1>8, <1>9, <1>10, <1>11 DEF Next

-----------------------------------------------------------------------------
(* No channel of a worker is ever filled past its capacity, and every part  *)
(* of the process is in a state the code has a name for.                    *)
THEOREM TypeCorrect == Spec => []TypeOK
<1>1. Init => TypeOK BY Initially
<1>2. TypeOK /\ [Next]_vars => TypeOK' BY TypeStep
<1> QED BY <1>1, <1>2, PTL DEF Spec

(* The order in which Babbleserv.Stop stops its parts is right for as many  *)
(* requests as there may be: whoever is waited for before the notifier is   *)
(* told to end is never left waiting for it.                                *)
THEOREM NotifierIsLast == Spec => []NotifierOutlives
<1>1. Init => TypeOK /\ Stopping BY Initially
<1>2. TypeOK /\ Stopping /\ [Next]_vars => TypeOK' /\ Stopping' BY TypeStep, StoppingStep
<1>3. TypeOK /\ Stopping => NotifierOutlives
  BY DEF TypeOK, Stopping, LoopLast, TaskAfterRequest, RoutesStopped, ClientStopped,
         WorkersStopped, NotifierOutlives, Handled, Tasks, Phases, Workers
<1> QED BY <1>1, <1>2, <1>3, PTL DEF Spec

(* A process that has stopped has left nothing half done.                   *)
THEOREM StopsClean == Spec => []StoppedClean
<1>1. Init => TypeOK /\ Stopping BY Initially
<1>2. TypeOK /\ Stopping /\ [Next]_vars => TypeOK' /\ Stopping' BY TypeStep, StoppingStep
<1>3. TypeOK /\ Stopping => StoppedClean
  BY DEF TypeOK, Stopping, TaskAfterRequest, RoutesStopped, ClientStopped,
         WorkersStopped, DbStopped, StoppedClean, Handled, Tasks, Phases, Workers
<1> QED BY <1>1, <1>2, <1>3, PTL DEF Spec

=============================================================================
