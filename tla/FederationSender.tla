-------------------------- MODULE FederationSender --------------------------
(***************************************************************************)
(* The background worker of internal/workers/federation_sender.go, for one *)
(* destination: every process is woken for it, one goroutine at a time     *)
(* holds its lock, reads the events it is owed with the sync of            *)
(* internal/databases/rooms/events_sync.go, sends them, and moves the      *)
(* destination's position.                                                 *)
(*                                                                         *)
(* A step is a database transaction, a request, or a use of a channel or   *)
(* of the process's map of senders.  Destinations share nothing but the    *)
(* channel of wake-ups, which drops one when it is full.                   *)
(***************************************************************************)
EXTENDS Naturals, FiniteSets, Sequences, Lock

CONSTANTS
  Procs,       \* server processes
  Tasks,       \* goroutines that may run maybeRunServerSender
  Of,          \* the process of each goroutine
  None,        \* no goroutine
  Rooms,
  Kinds,       \* the kinds of events that are stored
  Limit,       \* events per transaction
  MaxIdle,     \* rounds without a transaction before a sender ends
  MaxEvents,   \* bound: events stored
  MaxFaults    \* bound: crashes, stops, lapsed locks, lost wake-ups, failed
               \* transactions and requests, together

(* Of the destination's own memberships: its first user joins a room, its  *)
(* last one leaves or is kicked by a user of ours.                         *)
EventKinds == {"ours", "theirs", "join", "leave", "kick"}

ASSUME ProcsAssumption  == Of \in [Tasks -> Procs] /\ None \notin Tasks
ASSUME KindsAssumption  == Kinds \subseteq EventKinds
ASSUME LimitAssumption  == Limit \in Nat /\ Limit > 0
ASSUME IdleAssumption   == MaxIdle \in Nat /\ MaxIdle > 1
ASSUME BoundsAssumption == MaxEvents \in Nat /\ MaxFaults \in Nat

VARIABLES
  log,         \* events of all rooms, the index is the version
  members,     \* rooms the destination is in
  announced,   \* versions the events iterator has passed on
  position,    \* the destination's position
  lock,        \* its lock
  tokens,      \* last token given
  proc,        \* each process: down, up, stopping, or draining its wait group
  woken,       \* processes with the destination in their channel
  entry,       \* serverSenders: the goroutine registered in each process
  waking,      \* goroutines with a value in their wake channel, of size one
  task,        \* what each goroutine is doing
  txns,        \* transactions that reached the destination
  faults

vars == <<log, members, announced, position, lock, tokens, proc, woken, entry,
          waking, task, txns, faults>>

(* A position: done up to a version, or, when a sync found nothing, up to  *)
(* just after it (the bumped user version), which is a different token.    *)
Zero == [upto |-> 0, bumped |-> FALSE]

Done == [pc |-> "done", token |-> 0, from |-> Zero, latest |-> 0,
         pending |-> {}, page |-> {}, next |-> Zero, sent |-> FALSE, idle |-> 0]

Fault == faults < MaxFaults /\ faults' = faults + 1

At(g, pc)   == task[g].pc = pc
Goto(g, pc) == task' = [task EXCEPT ![g].pc = pc]
Stopped(g)  == proc[Of[g]] # "up"

(* The wait group counts a goroutine from when it has the lock.            *)
KeepsCounting(g) == task[g].pc \notin {"try", "register"}
Counted(g) == task[g].pc \notin {"done", "try", "register"}

Exit(p) ==
  /\ proc' = [proc EXCEPT ![p] = "down"] /\ woken' = woken \ {p}
  /\ entry' = [entry EXCEPT ![p] = None]
  /\ waking' = {g \in waking : Of[g] # p}
  /\ task' = [g \in Tasks |-> IF Of[g] = p THEN Done ELSE task[g]]

-----------------------------------------------------------------------------
(* The events, and the wake-ups the events iterator sends for them.        *)

Ours(e) == e.kind \in {"ours", "kick"}

StoreEvent(r, kind) ==
  /\ Len(log) < MaxEvents
  /\ kind = "join" => r \notin members
  /\ kind \in {"leave", "kick"} => r \in members
  /\ log' = Append(log, [room |-> r, kind |-> kind])
  /\ members' = CASE kind = "join" -> members \cup {r}
                  [] kind \in {"leave", "kick"} -> members \ {r}
                  [] OTHER -> members
  /\ UNCHANGED <<announced, position, lock, tokens, proc, woken, entry, waking,
                 task, txns, faults>>

(* notifyFederationSenders wakes the servers now in the event's room.      *)
Subscribed == {p \in Procs : proc[p] \in {"up", "stopping"}}
Announce ==
  /\ announced < Len(log) /\ announced' = announced + 1
  /\ woken' = IF log[announced'].room \in members THEN woken \cup Subscribed
              ELSE woken
  /\ UNCHANGED <<log, members, position, lock, tokens, proc, entry, waking, task,
                 txns, faults>>

(* Redis did not deliver, or the channel was full of other destinations.   *)
LoseWake ==
  /\ Fault /\ announced < Len(log) /\ announced' = announced + 1
  /\ UNCHANGED <<log, members, position, lock, tokens, proc, woken, entry, waking,
                 task, txns>>

-----------------------------------------------------------------------------
(* Each process: Start, Stop and handleServersLoop.                        *)

Start(p) ==
  /\ proc[p] = "down" /\ proc' = [proc EXCEPT ![p] = "up"]
  /\ UNCHANGED <<log, members, announced, position, lock, tokens, woken, entry,
                 waking, task, txns, faults>>

(* A value for a registered sender's channel, which holds one, or a new    *)
(* goroutine.  (A nil channel takes no value.)                             *)
Dispatch(p) ==
  /\ p \in woken /\ woken' = woken \ {p}
  /\ IF entry[p] # None
     THEN waking' = waking \cup {entry[p]} /\ UNCHANGED task
     ELSE \E g \in Tasks : Of[g] = p /\ At(g, "done") /\ Goto(g, "try") /\ UNCHANGED waking
  /\ UNCHANGED <<log, members, announced, position, lock, tokens, proc, entry, txns,
                 faults>>

Stop(p) ==
  /\ Fault /\ proc[p] = "up" /\ proc' = [proc EXCEPT ![p] = "stopping"]
  /\ UNCHANGED <<log, members, announced, position, lock, tokens, woken, entry,
                 waking, task, txns>>

EndLoop(p) ==
  /\ proc[p] = "stopping" /\ proc' = [proc EXCEPT ![p] = "draining"]
  /\ woken' = woken \ {p}
  /\ UNCHANGED <<log, members, announced, position, lock, tokens, entry, waking,
                 task, txns, faults>>

(* wg.Wait returns, and the process ends, with any goroutine not counted.  *)
FinishStop(p) ==
  /\ proc[p] = "draining"
  /\ \A g \in Tasks : Of[g] = p => ~Counted(g)
  /\ Exit(p)
  /\ UNCHANGED <<log, members, announced, position, lock, tokens, txns, faults>>

Crash(p) ==
  /\ Fault /\ proc[p] # "down" /\ Exit(p)
  /\ UNCHANGED <<log, members, announced, position, lock, tokens, txns>>

-----------------------------------------------------------------------------
(* maybeRunServerSender.                                                   *)

(* WithLockIfAvailable; the lock's transactions ignore the context.        *)
Try(g) ==
  /\ At(g, "try")
  /\ IF IsLocked(lock)
     THEN Goto(g, "done") /\ UNCHANGED <<lock, tokens>>
     ELSE /\ tokens' = tokens + 1 /\ lock' = Created(tokens + 1)
          /\ task' = [task EXCEPT ![g].pc = "register", ![g].token = tokens + 1]
  /\ UNCHANGED <<log, members, announced, position, proc, woken, entry, waking,
                 txns, faults>>

(* The goroutine ends: the transaction fails, or the answer to its commit  *)
(* is lost, and as it is tried again it finds the lock it has itself made. *)
FailTry(g) ==
  /\ At(g, "try") /\ Fault /\ Goto(g, "done")
  /\ \/ UNCHANGED <<lock, tokens>>
     \/ ~IsLocked(lock) /\ tokens' = tokens + 1 /\ lock' = Created(tokens + 1)
  /\ UNCHANGED <<log, members, announced, position, proc, woken, entry, waking,
                 txns>>

Register(g) ==
  /\ At(g, "register")
  /\ entry' = [entry EXCEPT ![Of[g]] = g] /\ waking' = waking \ {g}
  /\ Goto(g, "read")
  /\ UNCHANGED <<log, members, announced, position, lock, tokens, proc, woken,
                 txns, faults>>

(* The loop's select.                                                      *)
NoTimer(g) == FALSE
TimerFires(g) == At(g, "wait")
Wake(g) ==
  /\ At(g, "wait") /\ g \in waking
  /\ waking' = waking \ {g} /\ Goto(g, "read")
  /\ UNCHANGED <<log, members, announced, position, lock, tokens, proc, woken,
                 entry, txns, faults>>
Timer(g) ==
  /\ TimerFires(g) /\ Goto(g, "read")
  /\ UNCHANGED <<log, members, announced, position, lock, tokens, proc, woken,
                 entry, waking, txns, faults>>
ContextDone(g) ==
  /\ At(g, "wait") /\ Stopped(g) /\ Goto(g, "unregister")
  /\ UNCHANGED <<log, members, announced, position, lock, tokens, proc, woken,
                 entry, waking, txns, faults>>

(* The map's entry is deleted by name, whoever made it.                    *)
Unregister(g) ==
  /\ At(g, "unregister") /\ Goto(g, "release")
  /\ entry' = [entry EXCEPT ![Of[g]] = None] /\ waking' = waking \ {g}
  /\ UNCHANGED <<log, members, announced, position, lock, tokens, proc, woken,
                 txns, faults>>

Release(g) ==
  /\ At(g, "release") /\ lock' = Released(lock)
  /\ task' = [task EXCEPT ![g] = Done]
  /\ UNCHANGED <<log, members, announced, position, tokens, proc, woken, entry,
                 waking, txns, faults>>

-----------------------------------------------------------------------------
(* sendEventsToServer, called by trySend.                                  *)

(* It returns whether it sent anything, which is before any answer.        *)
IsIdleLate(tries) == tries > MaxIdle
IsIdle(tries)     == tries >= MaxIdle
EndTry(g, sent) ==
  LET idle == IF sent THEN 0 ELSE task[g].idle + 1
  IN task' = [task EXCEPT ![g] =
       [Done EXCEPT !.token = task[g].token, !.idle = idle,
                    !.pc = IF IsIdle(idle) THEN "unregister" ELSE "wait"]]

ReadPosition(g) ==
  /\ At(g, "read") /\ ~Stopped(g)
  /\ task' = [task EXCEPT ![g].pc = "refresh", ![g].from = position]
  /\ UNCHANGED <<log, members, announced, position, lock, tokens, proc, woken,
                 entry, waking, txns, faults>>

RefreshLock(g) ==
  /\ At(g, "refresh") /\ Holds(lock, task[g].token)
  /\ lock' = Refreshed(lock) /\ Goto(g, "sync")
  /\ UNCHANGED <<log, members, announced, position, tokens, proc, woken, entry,
                 waking, txns, faults>>

(* syncRoomEvents: memberships and the latest version are read together.   *)
SyncMemberships(g) ==
  /\ At(g, "sync") /\ ~Stopped(g)
  /\ task' = [task EXCEPT ![g].pc = "page", ![g].latest = Len(log),
                          ![g].pending = members]
  /\ UNCHANGED <<log, members, announced, position, lock, tokens, proc, woken,
                 entry, waking, txns, faults>>

(* The first Limit versions of S.                                          *)
Unsorted(P, S) ==
  P \subseteq S /\ Cardinality(P) <= Limit /\ (Cardinality(P) < Limit => P = S)
IsPage(P, S) ==
  /\ P \subseteq S /\ Cardinality(P) <= Limit
  /\ \A v \in S, w \in P : v < w => v \in P
  /\ Cardinality(P) < Limit => P = S

(* Each room has a transaction of its own, in any order and at any time:   *)
(* events of ours after the position, up to the version read above.        *)
RoomEvents(g, r) == {v \in (task[g].from.upto + 1)..task[g].latest :
                       log[v].room = r /\ Ours(log[v])}
PaginateRoom(g, r) ==
  /\ At(g, "page") /\ ~Stopped(g) /\ r \in task[g].pending
  /\ \E P \in SUBSET RoomEvents(g, r) :
       /\ IsPage(P, RoomEvents(g, r))
       /\ task' = [task EXCEPT ![g].pending = @ \ {r}, ![g].page = @ \cup P]
  /\ UNCHANGED <<log, members, announced, position, lock, tokens, proc, woken,
                 entry, waking, txns, faults>>

(* The first Limit events of all rooms, and the next token.  A token that  *)
(* is not the last one makes a transaction, perhaps an empty one.          *)
IsToken(t, P, latest) ==
  IF P = {} THEN t = [upto |-> latest, bumped |-> TRUE]
  ELSE t.upto \in P /\ (\A v \in P : v <= t.upto) /\ ~t.bumped

ChooseEvents(g) ==
  /\ At(g, "page") /\ ~Stopped(g) /\ task[g].pending = {}
  /\ \E P \in SUBSET task[g].page :
     \E next \in [upto : P \cup {task[g].latest}, bumped : BOOLEAN] :
       /\ IsPage(P, task[g].page) /\ IsToken(next, P, task[g].latest)
       /\ IF next = task[g].from THEN EndTry(g, task[g].sent)
          ELSE task' = [task EXCEPT ![g].pc = "send", ![g].page = P,
                          ![g].next = next, ![g].sent = TRUE, ![g].latest = 0]
  /\ UNCHANGED <<log, members, announced, position, lock, tokens, proc, woken,
                 entry, waking, txns, faults>>

(* The transaction's ID is the token it starts from.                       *)
Transaction(g) == [id |-> task[g].from, evs |-> task[g].page]
Send(g) ==
  /\ At(g, "send") /\ Goto(g, "update")
  /\ txns' = txns \cup {Transaction(g)}
  /\ UNCHANGED <<log, members, announced, position, lock, tokens, proc, woken,
                 entry, waking, faults>>

(* The destination is down, or its answer is lost, or the context ends.    *)
FailSend(g) ==
  /\ At(g, "send")
  /\ \/ Fault
     \/ Stopped(g) /\ UNCHANGED faults
  /\ EndTry(g, task[g].sent)
  /\ txns' \in {txns, txns \cup {Transaction(g)}}
  /\ UNCHANGED <<log, members, announced, position, lock, tokens, proc, woken,
                 entry, waking>>

(* UpdateServerPositions: checks the token as it writes, and goes on.      *)
Unfenced(g) == TRUE
MayWrite(g) == Holds(lock, task[g].token)
UpdatePosition(g) ==
  /\ At(g, "update") /\ ~Stopped(g) /\ MayWrite(g)
  /\ position' = task[g].next /\ lock' = Refreshed(lock)
  /\ task' = [task EXCEPT ![g].pc = "refresh", ![g].from = task[g].next,
                          ![g].page = {}, ![g].next = Zero]
  /\ UNCHANGED <<log, members, announced, tokens, proc, woken, entry, waking, txns,
                 faults>>

(* A transaction that fails, or is not started as the context has ended.   *)
FailTransaction(g) ==
  /\ \/ task[g].pc \in {"read", "sync", "update"}
     \/ At(g, "page") /\ task[g].pending = {}
  /\ \/ Fault
     \/ Stopped(g) /\ UNCHANGED faults
  /\ EndTry(g, task[g].sent)
  /\ UNCHANGED <<log, members, announced, position, lock, tokens, proc, woken,
                 entry, waking, txns>>

(* The process panics: of a lock that is not there any more, or, when it   *)
(* is stopped in the middle of a sync, of a room's transaction that fails. *)
Panic(g) ==
  /\ \/ task[g].pc = "refresh" /\ ~Holds(lock, task[g].token)
     \/ task[g].pc = "update" /\ ~Stopped(g) /\ ~Holds(lock, task[g].token)
     \/ task[g].pc = "page" /\ Stopped(g) /\ task[g].pending # {}
  /\ Exit(Of[g])
  /\ UNCHANGED <<log, members, announced, position, lock, tokens, txns, faults>>

(* A minute passes without a refresh: by nobody, or by a slow sender.      *)
HolderAlive == \E g \in Tasks : task[g].token = lock.token
Expire ==
  /\ IsLocked(lock) /\ lock' = [lock EXCEPT !.expired = TRUE]
  /\ UNCHANGED <<log, members, announced, position, tokens, proc, woken, entry,
                 waking, task, txns>>
ExpireAbandoned == ~HolderAlive /\ Expire /\ UNCHANGED faults
ExpireSlow      == Fault /\ HolderAlive /\ Expire

-----------------------------------------------------------------------------
Init ==
  /\ log = <<>> /\ members \in SUBSET Rooms /\ announced = 0 /\ position = Zero
  /\ lock = Free /\ tokens = 0
  /\ proc = [p \in Procs |-> "up"] /\ woken = {}
  /\ entry = [p \in Procs |-> None] /\ waking = {}
  /\ task = [g \in Tasks |-> Done] /\ txns = {} /\ faults = 0

Sync(g) ==
  \/ SyncMemberships(g) \/ (\E r \in Rooms : PaginateRoom(g, r)) \/ ChooseEvents(g)

Progress(g) ==
  \/ Try(g) \/ Register(g) \/ Wake(g) \/ Timer(g) \/ ContextDone(g)
  \/ Unregister(g) \/ Release(g) \/ ReadPosition(g) \/ RefreshLock(g)
  \/ Sync(g) \/ Send(g) \/ UpdatePosition(g) \/ Panic(g)
Fail(g) == FailTry(g) \/ FailSend(g) \/ FailTransaction(g)

Run(p) == Start(p) \/ Dispatch(p) \/ EndLoop(p) \/ FinishStop(p)

Next ==
  \/ \E r \in Rooms, kind \in Kinds : StoreEvent(r, kind)
  \/ Announce \/ LoseWake
  \/ \E p \in Procs : Run(p) \/ Stop(p) \/ Crash(p)
  \/ \E g \in Tasks : Progress(g) \/ Fail(g)
  \/ ExpireAbandoned \/ ExpireSlow

(* Goroutines run, a cancelled call returns, processes are started again,  *)
(* the events iterator goes on, and so does the clock.                     *)
Fairness ==
  /\ WF_vars(Announce) /\ WF_vars(ExpireAbandoned)
  /\ \A p \in Procs : WF_vars(Run(p))
  /\ \A g \in Tasks : WF_vars(Progress(g) \/ (Stopped(g) /\ Fail(g)))

Spec     == Init /\ [][Next]_vars
FairSpec == Spec /\ Fairness

-----------------------------------------------------------------------------
(* Properties.                                                             *)

Versions == 1..Len(log)
Token == [upto : 0..Len(log), bumped : BOOLEAN]
Task ==
  [pc : {"done", "try", "register", "read", "refresh", "sync", "page", "send",
         "update", "wait", "unregister", "release"},
   token : 0..tokens, from : Token, latest : 0..Len(log), pending : SUBSET Rooms,
   page : SUBSET Versions, next : Token, sent : BOOLEAN, idle : 0..MaxIdle]

(* Type correctness: no position, page or transaction reaches beyond the   *)
(* stored events, and the map holds a process's own goroutines.            *)
TypeOK ==
  /\ log \in Seq([room : Rooms, kind : EventKinds]) /\ members \subseteq Rooms
  /\ announced \in 0..Len(log) /\ position \in Token
  /\ tokens \in Nat /\ lock \in [token : 0..tokens, expired : BOOLEAN]
  /\ proc \in [Procs -> {"down", "up", "stopping", "draining"}]
  /\ woken \subseteq Procs /\ waking \subseteq Tasks
  /\ entry \in [Procs -> Tasks \cup {None}]
  /\ \A p \in Procs : entry[p] # None => Of[entry[p]] = p
  /\ task \in [Tasks -> Task]
  /\ txns \subseteq [id : Token, evs : SUBSET Versions]
  /\ faults \in 0..MaxFaults

received == UNION {t.evs : t \in txns}

(* An event of ours is owed to the destination while it stays in the room. *)
Membership(e) == e.kind \in {"join", "leave", "kick"}
Owed(v) ==
  /\ Ours(log[v]) /\ log[v].room \in members
  /\ \A w \in v..Len(log) : log[w].room = log[v].room => ~Membership(log[w])

Promise == INSTANCE Delivery WITH
  events <- Len(log), owed <- {v \in Versions : Owed(v)},
  sent <- received, position <- position.upto

(* Across crashes, stops, takeovers of a late sender, failed requests and  *)
(* syncs that read each room in a transaction of its own, the position     *)
(* only moves forward, and never past an owed event that was not received. *)
ImplementsDelivery == Promise!Spec

(* A transaction's ID is used again when its answer or the write of the    *)
(* position was lost.  Of the events still owed, the transactions of one   *)
(* ID are then each a prefix of the other: a destination that has handled  *)
(* one of them has missed, or has seen, only the last ones of another.     *)
StillOwed(t) == {v \in t.evs : Owed(v)}
SameIDSamePrefix ==
  \A t, u \in txns : t.id = u.id =>
    StillOwed(t) \subseteq StillOwed(u) \/ StillOwed(u) \subseteq StillOwed(t)

(* While a sender runs, an owed event is sent in the end whether or not    *)
(* its wake-up was lost, unless the destination leaves the room or the     *)
(* sender ends.                                                            *)
Due(v)   == v \in Versions /\ Owed(v) /\ v \notin received
Awake(g) == Counted(g) /\ task[g].pc \notin {"unregister", "release"}
SentWhileAwake ==
  \A v \in 1..MaxEvents :
    (Due(v) /\ \E g \in Tasks : Awake(g)) ~> (~Due(v) \/ \A g \in Tasks : ~Awake(g))

(* A process told to stop does stop.                                       *)
StopEnds == \A p \in Procs : proc[p] = "stopping" ~> proc[p] = "down"

(* An event that was announced to the destination's senders is sent to it. *)
EveryWakeHeeded ==
  \A v \in 1..MaxEvents :
    (v <= announced /\ Due(v)) ~> ~Due(v)

=============================================================================
