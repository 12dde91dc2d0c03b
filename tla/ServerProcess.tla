--------------------------- MODULE ServerProcess ---------------------------
(***************************************************************************)
(* One process of the server from the moment it runs to the end of         *)
(* Babbleserv.Stop (internal/babbleserv.go): the notifier, whose loop      *)
(* takes every change and every subscription from unbuffered channels      *)
(* (internal/notifier/notifier.go), the requests with the background tasks *)
(* they leave, and the two workers, all of which send to that loop.        *)
(***************************************************************************)
EXTENDS Naturals, FiniteSets

CONSTANTS
  Requests,    \* requests that come in before the process is told to stop
  Kinds,       \* what they may be
  Capacity,    \* of a subscriber's channel
  MaxRemote    \* bound: changes that come from other processes

(* A send stores an event; a createRoom also leaves a task that sends      *)
(* invites to other servers; a profile update leaves a task that sends     *)
(* member events.                                                          *)
RequestKinds == {"send", "create", "profile"}

ASSUME KindsAssumption    == Kinds \subseteq RequestKinds
ASSUME CapacityAssumption == Capacity \in Nat /\ Capacity > 0
ASSUME RemoteAssumption   == MaxRemote \in Nat

Workers == {"iterator", "sender"}

VARIABLES
  main,      \* running, or what Stop waits for
  loop,      \* the notifier's loop: up, cancelled, ended
  request,   \* each request's handler
  task,      \* each request's background task
  worker,    \* each worker's loop
  inbox,     \* values in the channels of the workers
  remote,    \* changes from other processes not yet received
  redis      \* redisLoop

vars == <<main, loop, request, task, worker, inbox, remote, redis>>

(* Every component in the order in which Stop goes through them.           *)
NotifierFirst ==
  <<"running", "routes", "client", "notifier", "iterator", "sender", "db", "stopped">>
StopOrder ==
  <<"running", "routes", "client", "iterator", "sender", "notifier", "db", "stopped">>
Position(phase) == CHOOSE i \in DOMAIN StopOrder : StopOrder[i] = phase
Reached(phase)  == main # "died" /\ Position(main) >= Position(phase)
Following       == StopOrder[Position(main) + 1]
Alive           == main \notin {"stopped", "died"}

-----------------------------------------------------------------------------
(* The notifier: whoever uses one of its channels waits for the loop.      *)

Listening == loop \in {"up", "cancelled"}

(* unsafeSendChanges drops a value a channel has no room for.              *)
Subscribed(w)   == worker[w] \notin {"start", "done"}
HasRoomAfter(w) == inbox[w] <= Capacity
HasRoom(w)      == inbox[w] < Capacity
WaitsForRoom(w) == Subscribed(w) => HasRoom(w)
NeverWaits(w)   == TRUE
Deliver(w) ==
  /\ NeverWaits(w)
  /\ inbox' = [inbox EXCEPT ![w] = IF Subscribed(w) /\ HasRoom(w) THEN @ + 1 ELSE @]

LoopEnds ==
  /\ loop = "cancelled" /\ loop' = "ended"
  /\ UNCHANGED <<main, request, task, worker, inbox, remote, redis>>

(* Changes of other processes; nobody waits for redisLoop.                 *)
RemoteChange ==
  /\ redis = "idle" /\ remote > 0 /\ remote' = remote - 1
  /\ redis' \in Workers
  /\ UNCHANGED <<main, loop, request, task, worker, inbox>>
RemoteNotify ==
  /\ redis # "idle" /\ Listening /\ Deliver(redis) /\ redis' = "idle"
  /\ UNCHANGED <<main, loop, request, task, worker, remote>>

-----------------------------------------------------------------------------
(* Requests.                                                               *)

Begin(r) ==
  /\ main = "running" /\ request[r].pc = "idle"
  /\ \E k \in Kinds : request' = [request EXCEPT ![r] = [kind |-> k, pc |-> "store"]]
  /\ UNCHANGED <<main, loop, task, worker, inbox, remote, redis>>

(* The request is refused, or its transaction commits; then the change is  *)
(* announced if events were stored, and a task may follow.                 *)
AfterChange(kind) == IF kind = "create" THEN "spawn" ELSE "done"
AfterCommit(kind) ==
  IF kind = "profile" THEN {"spawn"} ELSE {"notify", AfterChange(kind)}
Store(r) ==
  /\ request[r].pc = "store"
  /\ \E pc \in {"done"} \cup AfterCommit(request[r].kind) :
       request' = [request EXCEPT ![r].pc = pc]
  /\ UNCHANGED <<main, loop, task, worker, inbox, remote, redis>>

(* SendChange: its event, then rooms, users and servers, which no worker   *)
(* waits for, so that one step stands for them all.                        *)
Notify(r) ==
  /\ request[r].pc = "notify" /\ Listening /\ Deliver("iterator")
  /\ request' = [request EXCEPT ![r].pc = AfterChange(request[r].kind)]
  /\ UNCHANGED <<main, loop, task, worker, remote, redis>>

(* The task is counted before the handler returns.                         *)
Spawn(r) ==
  /\ request[r].pc = "spawn" /\ request' = [request EXCEPT ![r].pc = "done"]
  /\ task' = [task EXCEPT ![r] = "store"]
  /\ UNCHANGED <<main, loop, worker, inbox, remote, redis>>

(* A task sends one event after the other: an invite, or a member event.   *)
TaskStore(r) ==
  /\ task[r] = "store" /\ task' = [task EXCEPT ![r] = "notify"]
  /\ UNCHANGED <<main, loop, request, worker, inbox, remote, redis>>
TaskNotify(r) ==
  /\ task[r] = "notify" /\ Listening /\ Deliver("iterator")
  /\ task' = [task EXCEPT ![r] = "store"]
  /\ UNCHANGED <<main, loop, request, worker, remote, redis>>
TaskEnds(r) ==
  /\ task[r] = "store" /\ task' = [task EXCEPT ![r] = "done"]
  /\ UNCHANGED <<main, loop, request, worker, inbox, remote, redis>>

-----------------------------------------------------------------------------
(* The workers' loops: handleNewEventsLoop and handleServersLoop.          *)

Cancelled(w) == Reached(w)

(* The iterator looks for events as it starts and at every value; it may   *)
(* find some and have servers to tell of.                                  *)
Onward(w) == IF w = "iterator" THEN {"notify", "wait"} ELSE {"wait"}
Subscribe(w) ==
  /\ worker[w] = "start" /\ Listening
  /\ \E pc \in Onward(w) : worker' = [worker EXCEPT ![w] = pc]
  /\ UNCHANGED <<main, loop, request, task, inbox, remote, redis>>
(* Another process has the iterator's lock until this one is stopped.      *)
GiveUp ==
  /\ worker["iterator"] = "start" /\ Cancelled("iterator")
  /\ worker' = [worker EXCEPT !["iterator"] = "done"]
  /\ UNCHANGED <<main, loop, request, task, inbox, remote, redis>>
Receive(w) ==
  /\ worker[w] = "wait" /\ inbox[w] > 0
  /\ inbox' = [inbox EXCEPT ![w] = @ - 1]
  /\ \E pc \in Onward(w) : worker' = [worker EXCEPT ![w] = pc]
  /\ UNCHANGED <<main, loop, request, task, remote, redis>>
(* notifyFederationSenders.                                                *)
TellSenders ==
  /\ worker["iterator"] = "notify" /\ Listening /\ Deliver("sender")
  /\ worker' = [worker EXCEPT !["iterator"] = "wait"]
  /\ UNCHANGED <<main, loop, request, task, remote, redis>>
(* The context is done: the deferred Unsubscribe comes before the loop is  *)
(* counted off.                                                            *)
Leave(w) ==
  /\ worker[w] = "wait" /\ Cancelled(w) /\ worker' = [worker EXCEPT ![w] = "unsubscribe"]
  /\ UNCHANGED <<main, loop, request, task, inbox, remote, redis>>
Unsubscribe(w) ==
  /\ worker[w] = "unsubscribe" /\ Listening
  /\ worker' = [worker EXCEPT ![w] = "done"] /\ inbox' = [inbox EXCEPT ![w] = 0]
  /\ UNCHANGED <<main, loop, request, task, remote, redis>>

-----------------------------------------------------------------------------
(* Babbleserv.Stop.                                                        *)

Tasks(kind) == {r \in Requests : request[r].kind = kind /\ task[r] \in {"store", "notify"}}
Handled(r)  == request[r].pc \in {"idle", "done"}

(* What each component's Stop waits for.                                   *)
NoWait(phase) == TRUE
Finished(phase) ==
  CASE phase = "routes" -> \A r \in Requests : Handled(r)
    [] phase = "client" -> Tasks("create") = {}
    [] phase \in Workers -> worker[phase] = "done"
    [] phase = "db" -> Tasks("profile") = {}
    [] OTHER -> TRUE
Advance ==
  /\ Alive /\ main # "running" /\ Finished(main) /\ main' = Following
  /\ loop' = IF main = "notifier" THEN "cancelled" ELSE loop
  /\ UNCHANGED <<request, task, worker, inbox, remote, redis>>

Stop ==
  /\ main = "running" /\ main' = Following
  /\ UNCHANGED <<loop, request, task, worker, inbox, remote, redis>>

(* Requests have three minutes; then routes.Stop panics.                   *)
ShutdownTimesOut ==
  /\ main = "routes" /\ ~Finished("routes") /\ main' = "died"
  /\ UNCHANGED <<loop, request, task, worker, inbox, remote, redis>>

-----------------------------------------------------------------------------
Init ==
  /\ main = "running" /\ loop = "up"
  /\ request = [r \in Requests |-> [kind |-> "send", pc |-> "idle"]]
  /\ task = [r \in Requests |-> "none"]
  /\ worker = [w \in Workers |-> "start"] /\ inbox = [w \in Workers |-> 0]
  /\ remote = MaxRemote /\ redis = "idle"

OfRequest(r) ==
  \/ Store(r) \/ Notify(r) \/ Spawn(r)
  \/ TaskStore(r) \/ TaskNotify(r)
OfWorker(w) == Subscribe(w) \/ Receive(w) \/ Leave(w) \/ Unsubscribe(w)

Next ==
  /\ Alive
  /\ \/ \E r \in Requests : Begin(r) \/ OfRequest(r) \/ TaskEnds(r)
     \/ \E w \in Workers : OfWorker(w)
     \/ GiveUp \/ TellSenders \/ RemoteChange \/ RemoteNotify
     \/ LoopEnds \/ Stop \/ Advance \/ ShutdownTimesOut

(* Goroutines run, a channel serves those that wait for it in turn, and a  *)
(* task's list of rooms or of invites comes to its end.                    *)
Fairness ==
  /\ \A r \in Requests :
       WF_vars(Alive /\ OfRequest(r)) /\ SF_vars(Alive /\ TaskEnds(r))
  /\ \A w \in Workers :
       SF_vars(Alive /\ Leave(w)) /\ WF_vars(Alive /\ Unsubscribe(w))
  /\ WF_vars(Alive /\ Subscribe("sender")) /\ WF_vars(Alive /\ GiveUp)
  /\ WF_vars(Alive /\ TellSenders) /\ WF_vars(Alive /\ RemoteNotify)
  /\ WF_vars(LoopEnds /\ Alive) /\ WF_vars(Advance)

Spec == Init /\ [][Next]_vars /\ Fairness

-----------------------------------------------------------------------------
(* Properties.                                                             *)

(* Type correctness: a worker's channel never holds more than it can, and  *)
(* only the loop's end makes the notifier deaf.                            *)
TypeOK ==
  /\ main \in {StopOrder[i] : i \in DOMAIN StopOrder} \cup {"died"}
  /\ loop \in {"up", "cancelled", "ended"}
  /\ request \in [Requests -> [kind : RequestKinds,
                               pc : {"idle", "store", "notify", "spawn", "done"}]]
  /\ task \in [Requests -> {"none", "store", "notify", "done"}]
  /\ worker \in [Workers -> {"start", "wait", "notify", "unsubscribe", "done"}]
  /\ inbox \in [Workers -> 0..Capacity]
  /\ remote \in 0..MaxRemote /\ redis \in Workers \cup {"idle"}

(* The notifier outlives every request, every invite task and both         *)
(* workers: none of them is left waiting for a loop that has ended.        *)
NotifierOutlives ==
  loop = "ended" =>
    /\ \A r \in Requests : Handled(r) /\ (task[r] = "notify" => request[r].kind = "profile")
    /\ \A w \in Workers : worker[w] = "done"

(* A process that has stopped, not died, has answered every request it     *)
(* began and has finished every task a request left.                       *)
StoppedClean ==
  main = "stopped" =>
    /\ \A r \in Requests : Handled(r) /\ task[r] \in {"none", "done"}
    /\ \A w \in Workers : worker[w] = "done"

(* A process told to stop does stop, unless a profile update still has a   *)
(* member event to announce when the notifier has ended.                   *)
LeftBehind == loop = "ended" /\ \E r \in Tasks("profile") : task[r] = "notify"
StopEnds == (main = "routes") ~> (main \in {"stopped", "died"} \/ LeftBehind)

=============================================================================
