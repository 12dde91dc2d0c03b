--------------------------- MODULE EventsIterator ---------------------------
(***************************************************************************)
(* The background worker of internal/workers/events_iterator.go: of all    *)
(* server processes, the one that holds a lock passes every stored event   *)
(* on to the federation senders and keeps its position in the database.    *)
(*                                                                         *)
(* Each step is a database transaction or a receive of the worker.  A      *)
(* worker that is too slow loses its lock to another process, which is     *)
(* what the fencing token is for; a process may crash, or be stopped, at   *)
(* any step.                                                               *)
(***************************************************************************)
EXTENDS Naturals, FiniteSets, Lock

CONSTANTS
  Procs,       \* server processes
  BatchSize,   \* events per page
  MaxEvents,   \* bound: events stored
  MaxFaults    \* bound: crashes, stops, late refreshes, lost notifications
               \* and failed transactions, together

ASSUME ProcsAssumption   == IsFiniteSet(Procs)
ASSUME BatchAssumption   == BatchSize \in Nat /\ BatchSize > 0
ASSUME LimitsAssumption  == MaxEvents \in Nat /\ MaxFaults \in Nat

VARIABLES
  events,      \* events stored, versions 1..events
  told,        \* versions whose rooms' servers have been notified
  missed,      \* versions on pages for which that failed
  behind,      \* history: workers that a failed read stopped short and that
               \* nothing has woken since
  position,    \* EventsIteratorPosition
  lock,        \* EventsIteratorLock
  tokens,      \* last token given, a transaction version
  worker,      \* what each process is doing
  subscribed,  \* processes subscribed to all events
  woken,       \* those with a value in their channel, which holds one
  stopping,    \* processes told to stop: their context is cancelled
  unsent,      \* stored events whose notification is not sent yet
  sent,        \* those whose notification has been sent
  faults

vars == <<events, told, missed, behind, position, lock, tokens, worker,
          subscribed, woken, stopping, unsent, sent, faults>>

Down == [pc |-> "down", token |-> 0, start |-> 0, at |-> 0, last |-> 0]

Fault == faults < MaxFaults /\ faults' = faults + 1

At(p, pc)   == worker[p].pc = pc
Goto(p, pc) == worker' = [worker EXCEPT ![p].pc = pc]

(* The process ends: nothing it had in memory remains.                     *)
Exit(p) ==
  /\ worker' = [worker EXCEPT ![p] = Down]
  /\ subscribed' = subscribed \ {p} /\ woken' = woken \ {p}
  /\ stopping' = stopping \ {p} /\ behind' = behind \ {p}

-----------------------------------------------------------------------------
(* The events, stored and notified by any process.                         *)

StoreEvent ==
  /\ events < MaxEvents
  /\ events' = events + 1 /\ unsent' = unsent \cup {events + 1}
  /\ UNCHANGED <<told, missed, behind, position, lock, tokens, worker, subscribed,
                 woken, stopping, sent, faults>>

(* SendChange: a full channel already has a reason to look again.          *)
WakeWorkers == woken \cup subscribed
SendChange(e) ==
  /\ e \in unsent
  /\ unsent' = unsent \ {e} /\ sent' = sent \cup {e}
  /\ woken' = WakeWorkers
  /\ UNCHANGED <<events, told, missed, behind, position, lock, tokens, worker,
                 subscribed, stopping, faults>>

(* The storing process crashed, or Redis did not deliver.                  *)
LoseChange(e) ==
  /\ Fault /\ e \in unsent
  /\ unsent' = unsent \ {e}
  /\ UNCHANGED <<events, told, missed, behind, position, lock, tokens, worker,
                 subscribed, woken, stopping, sent>>

-----------------------------------------------------------------------------
(* The worker.                                                             *)

Start(p) ==
  /\ At(p, "down")
  /\ Goto(p, "acquire")
  /\ UNCHANGED <<events, told, missed, behind, position, lock, tokens, subscribed,
                 woken, stopping, unsent, sent, faults>>

(* acquireLock: tries until the lock is free, or the context cancelled.    *)
Acquire(p) ==
  /\ At(p, "acquire") /\ ~IsLocked(lock)
  /\ tokens' = tokens + 1 /\ lock' = Created(tokens + 1)
  /\ worker' = [worker EXCEPT ![p].pc = "subscribe", ![p].token = tokens + 1]
  /\ UNCHANGED <<events, told, missed, behind, position, subscribed, woken,
                 stopping, unsent, sent, faults>>

NeverGiveUp(p) == FALSE
GiveUp(p) ==
  /\ At(p, "acquire") /\ p \in stopping
  /\ Exit(p)
  /\ UNCHANGED <<events, told, missed, position, lock, tokens, unsent, sent,
                 faults>>

(* The subscription comes before the cold start.                           *)
Subscribe(p) ==
  /\ At(p, "subscribe")
  /\ subscribed' = subscribed \cup {p}
  /\ Goto(p, "read")
  /\ UNCHANGED <<events, told, missed, behind, position, lock, tokens, woken,
                 stopping, unsent, sent, faults>>

(* handleNewEvents.                                                        *)
ReadPosition(p) ==
  /\ At(p, "read") /\ p \notin stopping
  /\ worker' = [worker EXCEPT ![p].pc = "refresh",
                              ![p].start = position, ![p].at = position]
  /\ UNCHANGED <<events, told, missed, behind, position, lock, tokens, subscribed,
                 woken, stopping, unsent, sent, faults>>

(* A read that fails ends the round: what woke the worker is used up, and  *)
(* the timer only refreshes the lock.                                      *)
EndRound(p) ==
  /\ At(p, "read") \/ At(p, "page")
  /\ Goto(p, "wait") /\ behind' = behind \cup {p}
  /\ UNCHANGED <<events, told, missed, position, lock, tokens, subscribed, woken,
                 stopping, unsent, sent>>

(* With a cancelled context no transaction starts but the lock's own, which *)
(* take none.                                                              *)
CancelledRead(p) == p \in stopping /\ EndRound(p) /\ UNCHANGED faults
FailedRead(p)    == Fault /\ EndRound(p)

(* Before each page, and after 5 seconds with nothing to do.               *)
Refresh(p, pc) ==
  /\ Holds(lock, worker[p].token)
  /\ lock' = Refreshed(lock)
  /\ Goto(p, pc)
  /\ UNCHANGED <<events, told, missed, behind, position, tokens, subscribed,
                 woken, stopping, unsent, sent, faults>>

RefreshPage(p)  == At(p, "refresh") /\ Refresh(p, "page")
RefreshTimer(p) == At(p, "wait") /\ Refresh(p, "wait")

(* A panic in the worker's goroutine ends the process.                     *)
Panic(p) ==
  /\ At(p, "refresh") \/ At(p, "wait") \/ (At(p, "update") /\ p \notin stopping)
  /\ ~Holds(lock, worker[p].token)
  /\ Exit(p)
  /\ UNCHANGED <<events, told, missed, position, lock, tokens, unsent, sent,
                 faults>>

(* The events after the last one handled, at most a batch.                 *)
FullPage(p) == worker[p].at + BatchSize
PageEnd(p)  == IF events < worker[p].at + BatchSize THEN events
               ELSE worker[p].at + BatchSize
Done(p) == IF worker[p].at = worker[p].start THEN "wait" ELSE "update"

ReadPage(p) ==
  /\ At(p, "page") /\ p \notin stopping
  /\ IF PageEnd(p) = worker[p].at THEN Goto(p, Done(p))
     ELSE worker' = [worker EXCEPT ![p].pc = "notify", ![p].last = PageEnd(p)]
  /\ UNCHANGED <<events, told, missed, behind, position, lock, tokens, subscribed,
                 woken, stopping, unsent, sent, faults>>

(* notifyFederationSenders: an error, of a lookup of the servers or of the *)
(* cancelled context, is logged, and the page is done all the same.        *)
PageVersions(p) == (worker[p].at + 1)..worker[p].last
PageDone(p) ==
  worker' = [worker EXCEPT ![p].at = worker[p].last,
               ![p].pc = IF worker[p].last - worker[p].at < BatchSize
                         THEN "update" ELSE "refresh"]

Notify(p) ==
  /\ At(p, "notify")
  /\ told' = IF p \in stopping THEN told ELSE told \cup PageVersions(p)
  /\ PageDone(p)
  /\ UNCHANGED <<events, missed, behind, position, lock, tokens, subscribed,
                 woken, stopping, unsent, sent, faults>>

MissPage(p) ==
  /\ Fault
  /\ At(p, "notify") /\ p \notin stopping
  /\ missed' = missed \cup PageVersions(p)
  /\ PageDone(p)
  /\ UNCHANGED <<events, told, behind, position, lock, tokens, subscribed, woken,
                 stopping, unsent, sent>>

(* UpdateEventsIteratorPosition: checks the token as it writes.            *)
Unfenced(p) == TRUE
MayWrite(p) == Holds(lock, worker[p].token)

UpdatePosition(p) ==
  /\ At(p, "update") /\ p \notin stopping /\ MayWrite(p)
  /\ position' = worker[p].at
  /\ lock' = Refreshed(lock)
  /\ Goto(p, "wait")
  /\ UNCHANGED <<events, told, missed, behind, tokens, subscribed, woken,
                 stopping, unsent, sent, faults>>

SkipUpdate(p) ==
  /\ At(p, "update")
  /\ Goto(p, "wait")
  /\ UNCHANGED <<events, told, missed, behind, position, lock, tokens, subscribed,
                 woken, stopping, unsent, sent>>
CancelledUpdate(p) == p \in stopping /\ SkipUpdate(p) /\ UNCHANGED faults
FailedUpdate(p)    == Fault /\ SkipUpdate(p)

(* The loop's select.                                                      *)
HandleWake(p) ==
  /\ At(p, "wait") /\ p \in woken
  /\ woken' = woken \ {p} /\ behind' = behind \ {p}
  /\ Goto(p, "read")
  /\ UNCHANGED <<events, told, missed, position, lock, tokens, subscribed,
                 stopping, unsent, sent, faults>>

Finish(p) ==
  /\ At(p, "wait") /\ p \in stopping
  /\ lock' = Released(lock)
  /\ Exit(p)
  /\ UNCHANGED <<events, told, missed, position, tokens, unsent, sent, faults>>

-----------------------------------------------------------------------------
(* What may go wrong.                                                      *)

Stop(p) ==
  /\ Fault
  /\ ~At(p, "down") /\ stopping' = stopping \cup {p}
  /\ p \notin stopping
  /\ UNCHANGED <<events, told, missed, behind, position, lock, tokens, worker,
                 subscribed, woken, unsent, sent>>

Crash(p) ==
  /\ Fault
  /\ ~At(p, "down")
  /\ Exit(p)
  /\ UNCHANGED <<events, told, missed, position, lock, tokens, unsent, sent>>

(* Ten seconds pass without a refresh: by nobody, or by a slow worker.     *)
HolderAlive == \E p \in Procs : worker[p].token = lock.token
Expire ==
  /\ IsLocked(lock)
  /\ lock' = [lock EXCEPT !.expired = TRUE]
  /\ UNCHANGED <<events, told, missed, behind, position, tokens, worker,
                 subscribed, woken, stopping, unsent, sent>>
ExpireAbandoned == ~HolderAlive /\ Expire /\ UNCHANGED faults
ExpireSlow      == Fault /\ HolderAlive /\ Expire

-----------------------------------------------------------------------------
Init ==
  /\ events = 0 /\ told = {} /\ missed = {} /\ behind = {} /\ position = 0
  /\ lock = Free /\ tokens = 0
  /\ worker = [p \in Procs |-> Down]
  /\ subscribed = {} /\ woken = {} /\ stopping = {} /\ unsent = {} /\ sent = {}
  /\ faults = 0

Step(p) ==
  \/ Start(p) \/ Acquire(p) \/ GiveUp(p) \/ Subscribe(p)
  \/ ReadPosition(p) \/ CancelledRead(p) \/ FailedRead(p)
  \/ RefreshPage(p) \/ RefreshTimer(p) \/ Panic(p)
  \/ ReadPage(p) \/ Notify(p) \/ MissPage(p)
  \/ UpdatePosition(p) \/ CancelledUpdate(p) \/ FailedUpdate(p)
  \/ HandleWake(p) \/ Finish(p)

Next ==
  \/ StoreEvent
  \/ \E e \in unsent : SendChange(e) \/ LoseChange(e)
  \/ \E p \in Procs : Step(p) \/ Stop(p) \/ Crash(p)
  \/ ExpireAbandoned \/ ExpireSlow

(* Goroutines run, processes are started again, a notification that can be *)
(* sent is sent, and the clock goes on; each case of the worker's select   *)
(* that stays ready is taken in the end.                                   *)
Fairness ==
  /\ \A p \in Procs : /\ WF_vars(Start(p)) /\ WF_vars(Acquire(p))
                      /\ WF_vars(GiveUp(p)) /\ WF_vars(Subscribe(p))
                      /\ WF_vars(ReadPosition(p)) /\ WF_vars(CancelledRead(p))
                      /\ WF_vars(RefreshPage(p)) /\ WF_vars(RefreshTimer(p))
                      /\ WF_vars(Panic(p)) /\ WF_vars(ReadPage(p))
                      /\ WF_vars(Notify(p)) /\ WF_vars(UpdatePosition(p))
                      /\ WF_vars(CancelledUpdate(p))
                      /\ WF_vars(HandleWake(p)) /\ WF_vars(Finish(p))
  /\ \A e \in 1..MaxEvents : WF_vars(SendChange(e))
  /\ WF_vars(ExpireAbandoned)

Spec     == Init /\ [][Next]_vars
FairSpec == Spec /\ Fairness

-----------------------------------------------------------------------------
(* Properties.                                                             *)

Versions == 1..events
Worker ==
  [pc : {"down", "acquire", "subscribe", "read", "refresh", "page", "notify",
         "update", "wait"},
   token : 0..tokens, start : 0..events, at : 0..events, last : 0..events]

(* Type correctness: no position or page reaches beyond the stored events, *)
(* and no token is from the future.                                        *)
TypeOK ==
  /\ events \in 0..MaxEvents /\ told \subseteq Versions /\ missed \subseteq Versions
  /\ behind \subseteq Procs /\ position \in 0..events
  /\ tokens \in Nat /\ lock \in [token : 0..tokens, expired : BOOLEAN]
  /\ worker \in [Procs -> Worker]
  /\ subscribed \subseteq Procs /\ woken \subseteq subscribed
  /\ stopping \subseteq Procs /\ unsent \subseteq Versions
  /\ sent \subseteq Versions
  /\ faults \in 0..MaxFaults

handled == told \cup missed

Cursor == INSTANCE EventCursor WITH told <- handled

(* Across crashes, stops and takeovers of a late worker, the position only *)
(* moves forward, and over every event some worker has told or has failed  *)
(* to tell: no stale worker sets it back and none skips an event.          *)
ImplementsCursor == Cursor!Spec

(* Once the notification of an event or of a later one has been sent, the  *)
(* event is told in the end or its page fails, although notifications are  *)
(* lost and workers die: the next one to arrive makes up for it.  The one  *)
(* exception is a worker whose read failed: it waits for the notification  *)
(* after that, and the event with it.                                      *)
Waiting(p) == At(p, "wait") /\ p \in behind /\ p \notin woken
EveryEventTold ==
  \A e \in 1..MaxEvents :
    (\E f \in sent : f >= e) ~> (e \in handled \/ \E p \in Procs : Waiting(p))

(* A process told to stop does stop.                                       *)
StopEnds == \A p \in Procs : p \in stopping ~> p \notin stopping

(* A worker whose token nobody has replaced still has its lock.            *)
LockNeverVanishes ==
  \A p \in Procs : worker[p].token = tokens /\ tokens # 0 => lock.token = tokens

=============================================================================
