------------------------- MODULE EventsIteratorProofs -------------------------
(* Theorems about the events iterator, for any number of processes, events   *)
(* and faults, and any size of a page.                                       *)
EXTENDS EventsIterator, TLAPS

Phases == {"down", "acquire", "subscribe", "read", "refresh", "page", "notify",
           "update", "wait"}

(* What a worker may be, with n events stored and t tokens given.          *)
WorkerUpTo(n, t) ==
  [pc : Phases, token : 0..t, start : 0..n, at : 0..n, last : 0..n]

-----------------------------------------------------------------------------
(* Lemmas about the values.                                                *)

LEMMA WorkerIs == Worker = WorkerUpTo(events, tokens)
  BY DEF Worker, WorkerUpTo, Phases

LEMMA WorkersGrow ==
  ASSUME NEW n \in Nat, NEW t \in Nat, NEW n1 \in Nat, NEW t1 \in Nat,
         n <= n1, t <= t1, NEW w \in [Procs -> WorkerUpTo(n, t)]
  PROVE  w \in [Procs -> WorkerUpTo(n1, t1)]
<1>1. 0..n \subseteq 0..n1 /\ 0..t \subseteq 0..t1 OBVIOUS
<1>2. WorkerUpTo(n, t) \subseteq WorkerUpTo(n1, t1) BY <1>1 DEF WorkerUpTo
<1> QED BY <1>2

(* One field of one worker changes.                                        *)
LEMMA GotoTyped ==
  ASSUME NEW n, NEW t, NEW w \in [Procs -> WorkerUpTo(n, t)],
         NEW p \in Procs, NEW pc \in Phases
  PROVE  [w EXCEPT ![p].pc = pc] \in [Procs -> WorkerUpTo(n, t)]
<1>1. [w[p] EXCEPT !.pc = pc] \in WorkerUpTo(n, t) BY DEF WorkerUpTo
<1> QED BY <1>1

LEMMA DownTyped ==
  ASSUME NEW n \in Nat, NEW t \in Nat
  PROVE  Down \in WorkerUpTo(n, t)
  BY DEF Down, WorkerUpTo, Phases

LEMMA LockTyped ==
  ASSUME NEW t \in Nat, NEW l \in [token : 0..t, expired : BOOLEAN], NEW b \in BOOLEAN
  PROVE  /\ [l EXCEPT !.expired = b] \in [token : 0..t, expired : BOOLEAN]
         /\ [l EXCEPT !.expired = b].token = l.token
         /\ Free \in [token : 0..t, expired : BOOLEAN]
  BY DEF Free

-----------------------------------------------------------------------------
(* Type correctness: the workers first, then the rest.                     *)

Typed == worker \in [Procs -> WorkerUpTo(events, tokens)]

LEMMA WorkersTyped ==
  ASSUME TypeOK, [Next]_vars
  PROVE  Typed'
<1>1. events \in Nat /\ tokens \in Nat /\ MaxEvents \in Nat
  BY LimitsAssumption DEF TypeOK
<1>2. Typed BY WorkerIs DEF TypeOK, Typed
<1>3. ASSUME NEW p \in Procs, Step(p) \/ Stop(p) \/ Crash(p)
      PROVE  Typed'
  <2>1. ASSUME NEW pc \in Phases, Goto(p, pc), UNCHANGED <<events, tokens>>
        PROVE  Typed'
    BY <1>2, <2>1, GotoTyped DEF Goto, Typed
  <2>2. ASSUME Exit(p), UNCHANGED <<events, tokens>> PROVE Typed'
    BY <1>1, <1>2, <2>2, DownTyped DEF Exit, Typed
  <2>3. ASSUME NEW w \in WorkerUpTo(events, tokens),
               worker' = [worker EXCEPT ![p] = w], UNCHANGED <<events, tokens>>
        PROVE  Typed'
    BY <1>2, <2>3 DEF Typed
  <2>4. worker[p] \in WorkerUpTo(events, tokens) BY <1>2 DEF Typed
  <2>5. CASE Start(p) BY <2>1, <2>5 DEF Start, Phases
  <2>6. CASE Acquire(p)
    <3>1. events' = events /\ tokens' = tokens + 1 BY <2>6 DEF Acquire
    <3>2. worker \in [Procs -> WorkerUpTo(events, tokens + 1)]
      BY <1>1, <1>2, WorkersGrow DEF Typed
    <3>3. [worker[p] EXCEPT !.pc = "subscribe", !.token = tokens + 1]
            \in WorkerUpTo(events, tokens + 1)
      <4>1. worker[p] \in WorkerUpTo(events, tokens + 1) BY <3>2
      <4>2. tokens + 1 \in 0..(tokens + 1) BY <1>1
      <4> QED BY <4>1, <4>2 DEF WorkerUpTo, Phases
    <3>4. worker' = [worker EXCEPT ![p] =
                       [worker[p] EXCEPT !.pc = "subscribe", !.token = tokens + 1]]
      BY <1>2, <2>6 DEF Acquire, Typed, WorkerUpTo
    <3> QED BY <3>1, <3>2, <3>3, <3>4 DEF Typed
  <2>7. CASE GiveUp(p) \/ Panic(p) \/ Crash(p) \/ Finish(p)
    BY <2>2, <2>7 DEF GiveUp, Panic, Crash, Finish
  <2>8. CASE Subscribe(p) BY <2>1, <2>8 DEF Subscribe, Phases
  <2>9. CASE ReadPosition(p)
    <3>1. [worker[p] EXCEPT !.pc = "refresh", !.start = position, !.at = position]
            \in WorkerUpTo(events, tokens)
      BY <2>4 DEF TypeOK, WorkerUpTo, Phases
    <3>2. worker' = [worker EXCEPT ![p] =
            [worker[p] EXCEPT !.pc = "refresh", !.start = position, !.at = position]]
      BY <1>2, <2>9 DEF ReadPosition, Typed, WorkerUpTo
    <3> QED BY <2>3, <2>9, <3>1, <3>2 DEF ReadPosition
  <2>10. CASE RefreshPage(p) \/ RefreshTimer(p)
    BY <2>1, <2>10 DEF RefreshPage, RefreshTimer, Refresh, Phases
  <2>11. CASE ReadPage(p)
    <3>1. CASE Goto(p, Done(p))
      BY <2>1, <2>11, <3>1 DEF ReadPage, Done, Phases
    <3>2. CASE worker' = [worker EXCEPT ![p].pc = "notify", ![p].last = PageEnd(p)]
      <4>1. PageEnd(p) \in 0..events
        BY <1>1, <2>4, BatchAssumption DEF PageEnd, WorkerUpTo
      <4>2. [worker[p] EXCEPT !.pc = "notify", !.last = PageEnd(p)]
              \in WorkerUpTo(events, tokens)
        BY <2>4, <4>1 DEF WorkerUpTo, Phases
      <4>3. worker' = [worker EXCEPT ![p] =
                         [worker[p] EXCEPT !.pc = "notify", !.last = PageEnd(p)]]
        BY <1>2, <3>2 DEF Typed, WorkerUpTo
      <4> QED BY <2>3, <2>11, <4>2, <4>3 DEF ReadPage
    <3> QED BY <2>11, <3>1, <3>2 DEF ReadPage
  <2>12. CASE Notify(p) \/ MissPage(p)
    <3> DEFINE pc == IF worker[p].last - worker[p].at < BatchSize THEN "update"
                     ELSE "refresh"
    <3>1. [worker[p] EXCEPT !.at = worker[p].last, !.pc = pc] \in WorkerUpTo(events, tokens)
      BY <2>4 DEF WorkerUpTo, Phases
    <3>2. worker' = [worker EXCEPT ![p] =
                       [worker[p] EXCEPT !.at = worker[p].last, !.pc = pc]]
      BY <1>2, <2>12 DEF Notify, MissPage, PageDone, Typed, WorkerUpTo
    <3> QED BY <2>3, <2>12, <3>1, <3>2 DEF Notify, MissPage
  <2>13. CASE UpdatePosition(p) BY <2>1, <2>13 DEF UpdatePosition, Phases
  <2>14. CASE \/ CancelledRead(p) \/ FailedRead(p)
              \/ CancelledUpdate(p) \/ FailedUpdate(p) \/ HandleWake(p)
    BY <2>1, <2>14 DEF CancelledRead, FailedRead, EndRound, CancelledUpdate,
                       FailedUpdate, SkipUpdate, HandleWake, Phases
  <2>15. CASE Stop(p) BY <1>2, <2>15 DEF Stop, Typed
  <2> QED BY <1>3, <2>5, <2>6, <2>7, <2>8, <2>9, <2>10, <2>11, <2>12, <2>13, <2>14, <2>15
          DEF Step
<1>4. CASE StoreEvent
  BY <1>1, <1>2, <1>4, WorkersGrow DEF StoreEvent, Typed
<1>5. CASE (\E e \in unsent : SendChange(e) \/ LoseChange(e)) \/ UNCHANGED vars
           \/ ExpireAbandoned \/ ExpireSlow
  BY <1>2, <1>5 DEF SendChange, LoseChange, ExpireAbandoned, ExpireSlow, Expire, vars, Typed
<1> QED BY <1>3, <1>4, <1>5 DEF Next

LEMMA LocksTyped ==
  ASSUME TypeOK, [Next]_vars
  PROVE  tokens' \in Nat /\ lock' \in [token : 0..tokens', expired : BOOLEAN]
<1>1. tokens \in Nat /\ lock \in [token : 0..tokens, expired : BOOLEAN]
  BY DEF TypeOK
<1>2. ASSUME NEW p \in Procs, Acquire(p)
      PROVE  tokens' \in Nat /\ lock' \in [token : 0..tokens', expired : BOOLEAN]
  BY <1>1, <1>2 DEF Acquire, Created
<1>3. \/ /\ tokens' = tokens
         /\ lock' \in {lock, Refreshed(lock), Free, [lock EXCEPT !.expired = TRUE]}
      \/ \E p \in Procs : Acquire(p)
  BY DEF Next, vars, StoreEvent, SendChange, LoseChange, Step, Start, GiveUp,
         Subscribe, ReadPosition, CancelledRead, FailedRead, EndRound, RefreshPage,
         RefreshTimer, Refresh, Panic, ReadPage, Notify, MissPage, UpdatePosition,
         CancelledUpdate, FailedUpdate, SkipUpdate, HandleWake, Finish, Released,
         Stop, Crash, ExpireAbandoned, ExpireSlow, Expire
<1> QED BY <1>1, <1>2, <1>3, LockTyped DEF Refreshed

LEMMA TypeNext ==
  ASSUME TypeOK, [Next]_vars
  PROVE  TypeOK'
<1>1. events \in Nat /\ MaxEvents \in Nat /\ MaxFaults \in Nat /\ faults \in Nat
  BY LimitsAssumption DEF TypeOK
<1>2. worker' \in [Procs -> Worker']
  BY WorkersTyped DEF Typed, Worker, WorkerUpTo, Phases
<1>3. faults' = faults \/ (faults < MaxFaults /\ faults' = faults + 1)
  BY DEF Next, vars, StoreEvent, SendChange, LoseChange, Step, Start, Acquire,
         GiveUp, Subscribe, ReadPosition, CancelledRead, FailedRead, EndRound,
         RefreshPage, RefreshTimer, Refresh, Panic, ReadPage, Notify, MissPage,
         UpdatePosition, CancelledUpdate, FailedUpdate, SkipUpdate, HandleWake,
         Finish, Stop, Crash, ExpireAbandoned, ExpireSlow, Fault
<1>9. faults' \in 0..MaxFaults BY <1>1, <1>3 DEF TypeOK
<1> DEFINE Rest == /\ events' \in 0..MaxEvents /\ told' \subseteq Versions'
                   /\ missed' \subseteq Versions' /\ sent' \subseteq Versions'
                   /\ behind' \subseteq Procs
                   /\ position' \in 0..events'
                   /\ subscribed' \subseteq Procs /\ woken' \subseteq subscribed'
                   /\ stopping' \subseteq Procs /\ unsent' \subseteq Versions'
<1>4. ASSUME NEW p \in Procs, Step(p) \/ Stop(p) \/ Crash(p) PROVE Rest
  <2>1. worker[p].at \in 0..events /\ worker[p].last \in 0..events BY DEF TypeOK, Worker
  <2>2. events' = events /\ unsent' = unsent /\ sent' = sent
    BY <1>4 DEF Step, Start, Acquire, GiveUp, Subscribe, ReadPosition,
         CancelledRead, FailedRead, EndRound, RefreshPage, RefreshTimer, Refresh,
         Panic, ReadPage, Notify, MissPage, UpdatePosition, CancelledUpdate,
         FailedUpdate, SkipUpdate, HandleWake, Finish, Stop, Crash
  <2>3. position' = position \/ position' = worker[p].at
    BY <1>4 DEF Step, Start, Acquire, GiveUp, Subscribe, ReadPosition,
         CancelledRead, FailedRead, EndRound, RefreshPage, RefreshTimer, Refresh,
         Panic, ReadPage, Notify, MissPage, UpdatePosition, CancelledUpdate,
         FailedUpdate, SkipUpdate, HandleWake, Finish, Stop, Crash
  <2>4. /\ told' = told \/ told' = told \cup PageVersions(p)
        /\ missed' = missed \/ missed' = missed \cup PageVersions(p)
    BY <1>4 DEF Step, Start, Acquire, GiveUp, Subscribe, ReadPosition,
         CancelledRead, FailedRead, EndRound, RefreshPage, RefreshTimer, Refresh,
         Panic, ReadPage, Notify, MissPage, UpdatePosition, CancelledUpdate,
         FailedUpdate, SkipUpdate, HandleWake, Finish, Stop, Crash
  <2>5. PageVersions(p) \subseteq Versions
    BY <1>1, <2>1 DEF PageVersions, Versions
  <2>6. /\ subscribed' \subseteq Procs /\ woken' \subseteq subscribed'
        /\ stopping' \subseteq Procs /\ behind' \subseteq Procs
    BY <1>4 DEF Step, Start, Acquire, GiveUp, Subscribe, ReadPosition,
         CancelledRead, FailedRead, EndRound, RefreshPage, RefreshTimer, Refresh,
         Panic, ReadPage, Notify, MissPage, UpdatePosition, CancelledUpdate,
         FailedUpdate, SkipUpdate, HandleWake, Finish, Stop, Crash, Exit, TypeOK
  <2> QED BY <2>1, <2>2, <2>3, <2>4, <2>5, <2>6 DEF TypeOK, Versions
<1>5. ASSUME StoreEvent PROVE Rest
  <2>1. Versions \subseteq Versions' /\ events + 1 \in Versions'
    BY <1>1, <1>5 DEF StoreEvent, Versions
  <2>2. events' \in 0..MaxEvents /\ position' \in 0..events'
    BY <1>1, <1>5 DEF StoreEvent, TypeOK
  <2> QED BY <1>5, <2>1, <2>2 DEF StoreEvent, TypeOK
<1>6. ASSUME NEW e \in unsent, SendChange(e) \/ LoseChange(e) PROVE Rest
  BY <1>6 DEF SendChange, LoseChange, WakeWorkers, TypeOK, Versions
<1>7. ASSUME ExpireAbandoned \/ ExpireSlow \/ UNCHANGED vars PROVE Rest
  BY <1>7 DEF ExpireAbandoned, ExpireSlow, Expire, vars, TypeOK, Versions
<1>8. Rest BY <1>4, <1>5, <1>6, <1>7 DEF Next
<1> QED BY <1>2, <1>8, <1>9, LocksTyped DEF TypeOK

LEMMA TypeInit == Init => TypeOK
<1>1. ASSUME Init PROVE TypeOK
  <2>1. Down \in Worker BY <1>1, DownTyped, WorkerIs DEF Init
  <2> QED BY <1>1, <2>1, LimitsAssumption DEF Init, TypeOK, Free, Versions
<1> QED BY <1>1

(* Type correctness: no position, page or token of any worker is from the   *)
(* future, whatever the processes and faults.                               *)
THEOREM IteratorTypeCorrect == Spec => []TypeOK
  BY TypeInit, TypeNext, PTL DEF Spec

-----------------------------------------------------------------------------
(* The refinement.  A worker that still holds the lock has read the         *)
(* position nobody else has moved since, because tokens are not shared; and *)
(* unless it is being stopped it has handled every event since then.        *)

Working(p) == worker[p].pc \in {"refresh", "page", "notify", "update"}

HasToken(p) == worker[p].pc \notin {"down", "acquire"} => worker[p].token # 0

Fresh(p) == Working(p) /\ Holds(lock, worker[p].token) => worker[p].start = position

ToldSince(p) ==
  Working(p) /\ p \notin stopping =>
    /\ worker[p].start <= worker[p].at
    /\ (worker[p].start + 1)..worker[p].at \subseteq handled
    /\ worker[p].pc = "notify" => worker[p].at <= worker[p].last

(* Every event behind the position has been told, or was tried.            *)
NothingSkipped == 1..position \subseteq handled

TokensDistinct ==
  \A p, q \in Procs : worker[p].token = worker[q].token /\ worker[p].token # 0 => p = q

CursorInv ==
  /\ TypeOK /\ TokensDistinct /\ NothingSkipped
  /\ \A p \in Procs : HasToken(p) /\ Fresh(p) /\ ToldSince(p)

(* A step of one worker leaves the others alone.                           *)
LEMMA OthersSame ==
  ASSUME TypeOK, NEW p \in Procs, Step(p) \/ Crash(p), NEW q \in Procs, q # p
  PROVE  worker'[q] = worker[q] /\ (q \in stopping' <=> q \in stopping)
<1>1. worker \in [Procs -> Worker] BY DEF TypeOK
<1>2. \A w : [worker EXCEPT ![p] = w][q] = worker[q] BY <1>1
<1>3. \A pc : [worker EXCEPT ![p].pc = pc][q] = worker[q] BY <1>1
<1>4. stopping' = stopping \/ stopping' = stopping \ {p}
  BY DEF Step, Start, Acquire, GiveUp, Subscribe, ReadPosition, CancelledRead,
         FailedRead, EndRound, RefreshPage, RefreshTimer, Refresh, Panic, ReadPage,
         Notify, MissPage, UpdatePosition, CancelledUpdate, FailedUpdate,
         SkipUpdate, HandleWake, Finish, Crash, Exit
<1>5. worker'[q] = worker[q]
  BY <1>1, <1>2, <1>3
     DEF Step, Start, Acquire, GiveUp, Subscribe, ReadPosition, CancelledRead,
         FailedRead, EndRound, RefreshPage, RefreshTimer, Refresh, Panic, ReadPage,
         Notify, MissPage, UpdatePosition, CancelledUpdate, FailedUpdate,
         SkipUpdate, HandleWake, Finish, Crash, Exit, Goto, PageDone
<1> QED BY <1>4, <1>5

(* A page is handled when its notification is done, or fails.              *)
LEMMA PageHandled ==
  ASSUME NEW p \in Procs, Notify(p) \/ MissPage(p)
  PROVE  handled' = handled \cup PageVersions(p) \/ (p \in stopping /\ handled' = handled)
<1>1. CASE Notify(p) BY <1>1 DEF Notify, handled, PageVersions
<1>2. CASE MissPage(p) BY <1>2 DEF MissPage, handled, PageVersions
<1> QED BY <1>1, <1>2

(* What happens to the lock, the position and the events.                  *)
LEMMA SharedState ==
  ASSUME TypeOK, NEW p \in Procs, Step(p) \/ Crash(p)
  PROVE  /\ events' = events /\ handled \subseteq handled'
         /\ \/ lock'.token = lock.token /\ position' = position
            \/ lock'.token = 0 /\ position' = position
            \/ lock'.token = tokens + 1 /\ position' = position
            \/ UpdatePosition(p) /\ lock'.token = lock.token
<1>1. lock \in [token : 0..tokens, expired : BOOLEAN] BY DEF TypeOK
<1>2. Refreshed(lock).token = lock.token BY <1>1 DEF Refreshed
<1> QED BY <1>2
     DEF Step, Start, Acquire, GiveUp, Subscribe, ReadPosition, CancelledRead,
         FailedRead, EndRound, RefreshPage, RefreshTimer, Refresh, Panic, ReadPage,
         Notify, MissPage, UpdatePosition, CancelledUpdate, FailedUpdate,
         SkipUpdate, HandleWake, Finish, Crash, handled, Released, Free, Created

(* What a step does to the worker that takes it.                           *)
LEMMA OwnState ==
  ASSUME CursorInv, NEW p \in Procs, Step(p) \/ Crash(p)
  PROVE  /\ HasToken(p)' /\ Fresh(p)' /\ ToldSince(p)'
         /\ worker'[p].token \in {0, worker[p].token, tokens + 1}
<1>1. worker \in [Procs -> Worker] /\ worker[p] \in Worker
      /\ events \in Nat /\ tokens \in Nat /\ position \in 0..events
  BY LimitsAssumption DEF CursorInv, TypeOK
<1>2. HasToken(p) /\ Fresh(p) /\ ToldSince(p) BY DEF CursorInv
<1>3. ASSUME Exit(p) PROVE worker'[p] = Down BY <1>1, <1>3 DEF Exit
<1>4. ASSUME NEW pc, Goto(p, pc)
      PROVE  /\ worker'[p].pc = pc /\ worker'[p].token = worker[p].token
             /\ worker'[p].start = worker[p].start /\ worker'[p].at = worker[p].at
             /\ worker'[p].last = worker[p].last
  BY <1>1, <1>4 DEF Goto, Worker
<1>5. CASE GiveUp(p) \/ Panic(p) \/ Crash(p) \/ Finish(p)
  <2>1. worker'[p] = Down BY <1>3, <1>5 DEF GiveUp, Panic, Crash, Finish
  <2> QED BY <2>1 DEF Down, HasToken, Fresh, ToldSince, Working
<1>6. ASSUME NEW pc \in {"acquire", "read", "wait"}, Goto(p, pc),
             pc # "acquire" => worker[p].pc \notin {"down", "acquire"}
      PROVE  /\ HasToken(p)' /\ Fresh(p)' /\ ToldSince(p)'
             /\ worker'[p].token = worker[p].token
  BY <1>2, <1>4, <1>6 DEF HasToken, Fresh, ToldSince, Working
<1>7. CASE Start(p) BY <1>6, <1>7 DEF Start
<1>8. CASE Acquire(p)
  <2>1. worker'[p].pc = "subscribe" /\ worker'[p].token = tokens + 1
    BY <1>1, <1>8 DEF Acquire, Worker
  <2> QED BY <1>1, <2>1 DEF HasToken, Fresh, ToldSince, Working
<1>9. CASE Subscribe(p) BY <1>6, <1>9 DEF Subscribe, At
<1>10. CASE ReadPosition(p)
  <2>1. /\ worker'[p].pc = "refresh" /\ worker'[p].token = worker[p].token
        /\ worker'[p].start = position /\ worker'[p].at = position
    BY <1>1, <1>10 DEF ReadPosition, Worker
  <2>2. worker[p].token # 0 /\ position' = position
    BY <1>2, <1>10 DEF ReadPosition, At, HasToken
  <2>3. (position + 1)..position = {} BY <1>1
  <2>4. HasToken(p)' /\ Fresh(p)' BY <2>1, <2>2 DEF HasToken, Fresh
  <2>5. ToldSince(p)' BY <1>1, <2>1, <2>3 DEF ToldSince
  <2> QED BY <2>1, <2>4, <2>5
<1>11. CASE RefreshTimer(p) BY <1>6, <1>11 DEF RefreshTimer, Refresh, At
<1>12. CASE RefreshPage(p)
  <2>1. Goto(p, "page") /\ worker[p].pc = "refresh" /\ lock' = Refreshed(lock)
        /\ UNCHANGED <<position, handled, stopping>>
    BY <1>12 DEF RefreshPage, Refresh, At, handled
  <2>2. lock'.token = lock.token BY <2>1 DEF Refreshed, CursorInv, TypeOK
  <2> QED BY <1>2, <1>4, <2>1, <2>2 DEF HasToken, Fresh, ToldSince, Working, Holds
<1>13. CASE ReadPage(p)
  <2>1. worker[p].pc = "page" /\ UNCHANGED <<position, handled, stopping, lock, events>>
    BY <1>13 DEF ReadPage, At, handled
  <2>2. CASE Goto(p, "wait") BY <1>6, <2>1, <2>2
  <2>3. CASE Goto(p, "update")
    BY <1>2, <1>4, <2>1, <2>3 DEF HasToken, Fresh, ToldSince, Working, Holds
  <2>4. CASE worker' = [worker EXCEPT ![p].pc = "notify", ![p].last = PageEnd(p)]
    <3>1. /\ worker'[p].pc = "notify" /\ worker'[p].token = worker[p].token
          /\ worker'[p].start = worker[p].start /\ worker'[p].at = worker[p].at
          /\ worker'[p].last = PageEnd(p)
      BY <1>1, <2>4 DEF Worker
    <3>2. worker[p].at <= PageEnd(p)
      BY <1>1, BatchAssumption DEF PageEnd, Worker
    <3> QED BY <1>2, <2>1, <3>1, <3>2 DEF HasToken, Fresh, ToldSince, Working, Holds
  <2> QED BY <1>13, <2>2, <2>3, <2>4 DEF ReadPage, Done
<1>14. CASE Notify(p) \/ MissPage(p)
  <2>1. worker[p].pc = "notify" /\ UNCHANGED <<position, stopping, lock>>
    BY <1>14 DEF Notify, MissPage, At
  <2>2. /\ worker'[p].pc \in {"update", "refresh"} /\ worker'[p].token = worker[p].token
        /\ worker'[p].start = worker[p].start /\ worker'[p].at = worker[p].last
        /\ worker'[p].last = worker[p].last
    BY <1>1, <1>14 DEF Notify, MissPage, PageDone, Worker
  <2>3. HasToken(p)' /\ Fresh(p)'
    BY <1>2, <2>1, <2>2 DEF HasToken, Fresh, Working, Holds
  <2>4. ASSUME p \notin stopping PROVE ToldSince(p)'
    <3>1. handled' = handled \cup (worker[p].at + 1)..worker[p].last
      BY <1>14, <2>4, PageHandled DEF PageVersions
    <3>2. worker[p].start <= worker[p].at /\ worker[p].at <= worker[p].last
          /\ (worker[p].start + 1)..worker[p].at \subseteq handled
      BY <1>2, <2>1, <2>4 DEF ToldSince, Working
    <3>3. worker[p].start \in Nat /\ worker[p].at \in Nat /\ worker[p].last \in Nat
      BY <1>1 DEF Worker
    <3>4. (worker[p].start + 1)..worker[p].last
            = (worker[p].start + 1)..worker[p].at \cup (worker[p].at + 1)..worker[p].last
      BY <3>2, <3>3
    <3>5. worker[p].start <= worker[p].last BY <3>2, <3>3
    <3> QED BY <2>2, <3>1, <3>2, <3>4, <3>5 DEF ToldSince
  <2>5. ASSUME p \in stopping PROVE ToldSince(p)' BY <2>1, <2>5 DEF ToldSince
  <2> QED BY <2>2, <2>3, <2>4, <2>5
<1>15. CASE UpdatePosition(p) BY <1>6, <1>15 DEF UpdatePosition, At
<1>16. CASE \/ CancelledRead(p) \/ FailedRead(p)
            \/ CancelledUpdate(p) \/ FailedUpdate(p) \/ HandleWake(p)
  BY <1>6, <1>16 DEF CancelledRead, FailedRead, EndRound, CancelledUpdate, FailedUpdate,
                     SkipUpdate, HandleWake, At
<1> QED BY <1>5, <1>7, <1>8, <1>9, <1>10, <1>11, <1>12, <1>13, <1>14, <1>15, <1>16 DEF Step

(* The fencing token: who may write has read the latest position, and has  *)
(* handled every event between it and the one it writes.                      *)
LEMMA FencedWrite ==
  ASSUME CursorInv, NEW p \in Procs, UpdatePosition(p)
  PROVE  position' \in position..events /\ 1..position' \subseteq handled
<1>1. position' = worker[p].at /\ worker[p].start = position
      /\ worker[p].start <= worker[p].at
      /\ (worker[p].start + 1)..worker[p].at \subseteq handled
  BY DEF UpdatePosition, MayWrite, At, CursorInv, Fresh, ToldSince, Working
<1>2. worker[p].at \in 0..events /\ position \in 0..events /\ events \in Nat
  BY LimitsAssumption DEF CursorInv, TypeOK, Worker
<1>3. 1..worker[p].at = 1..position \cup (position + 1)..worker[p].at BY <1>1, <1>2
<1> QED BY <1>1, <1>2, <1>3 DEF CursorInv, NothingSkipped

LEMMA CursorNext ==
  ASSUME CursorInv, [Next]_vars
  PROVE  CursorInv'
<1>1. TypeOK' /\ TypeOK BY TypeNext DEF CursorInv
<1>2. tokens \in Nat /\ \A q \in Procs : worker[q].token \in 0..tokens
  BY <1>1 DEF TypeOK, Worker
<1>3. ASSUME NEW p \in Procs, Step(p) \/ Crash(p)
      PROVE  CursorInv'
  <2>1. \A q \in Procs \ {p} :
          worker'[q] = worker[q] /\ (q \in stopping' <=> q \in stopping)
    BY <1>1, <1>3, OthersSame
  <2>2. HasToken(p)' /\ Fresh(p)' /\ ToldSince(p)'
        /\ worker'[p].token \in {0, worker[p].token, tokens + 1}
    BY <1>3, OwnState
  <2>3. TokensDistinct'
    BY <1>2, <2>1, <2>2 DEF TokensDistinct, CursorInv
  <2>4. NothingSkipped'
    <3>1. CASE UpdatePosition(p)
      BY <3>1, FencedWrite DEF NothingSkipped, UpdatePosition, handled
    <3>2. CASE position' = position
      BY <1>1, <1>3, <3>2, SharedState DEF NothingSkipped, CursorInv
    <3> QED BY <1>1, <1>3, <3>1, <3>2, SharedState
  <2>5. ASSUME NEW q \in Procs, q # p PROVE HasToken(q)' /\ ToldSince(q)'
    <3>1. HasToken(q) /\ ToldSince(q) BY DEF CursorInv
    <3>2. worker'[q] = worker[q] /\ (q \in stopping' <=> q \in stopping)
          /\ handled \subseteq handled'
      BY <1>1, <1>3, <2>1, <2>5, SharedState
    <3> QED BY <3>1, <3>2 DEF HasToken, ToldSince, Working
  <2>6. ASSUME NEW q \in Procs, q # p PROVE Fresh(q)'
    <3>1. SUFFICES ASSUME Working(q), lock'.token = worker[q].token
                   PROVE  worker[q].start = position'
      BY <2>1, <2>6 DEF Fresh, Working, Holds
    <3>2. worker[q].token # 0 /\ worker[q].token # tokens + 1
      BY <1>2, <3>1 DEF CursorInv, HasToken, Working
    <3>3. CASE lock'.token = lock.token /\ position' = position
      BY <3>1, <3>3 DEF CursorInv, Fresh, Holds
    <3>4. CASE UpdatePosition(p) /\ lock'.token = lock.token
      <4>1. lock.token = worker[p].token BY <3>4 DEF UpdatePosition, MayWrite, Holds
      <4>2. worker[p].token = worker[q].token BY <3>1, <3>4, <4>1
      <4> QED BY <2>6, <3>2, <4>2 DEF CursorInv, TokensDistinct
    <3> QED BY <1>1, <1>3, <3>1, <3>2, <3>3, <3>4, SharedState
  <2> QED BY <1>1, <2>2, <2>3, <2>4, <2>5, <2>6 DEF CursorInv
<1>4. ASSUME UNCHANGED <<worker, position>>, handled' = handled, stopping \subseteq stopping',
             lock'.token = lock.token
      PROVE  CursorInv'
  BY <1>1, <1>4 DEF CursorInv, TokensDistinct, NothingSkipped, HasToken, Fresh,
                    ToldSince, Working, Holds
<1>5. CASE \E p \in Procs : Stop(p) BY <1>4, <1>5 DEF Stop, handled
<1>6. CASE StoreEvent \/ (\E e \in unsent : SendChange(e) \/ LoseChange(e)) \/ UNCHANGED vars
  BY <1>4, <1>6 DEF StoreEvent, SendChange, LoseChange, vars, handled
<1>7. CASE ExpireAbandoned \/ ExpireSlow
  <2>1. lock'.token = lock.token
    BY <1>1, <1>7 DEF ExpireAbandoned, ExpireSlow, Expire, TypeOK
  <2> QED BY <1>4, <1>7, <2>1 DEF ExpireAbandoned, ExpireSlow, Expire, handled
<1> QED BY <1>3, <1>5, <1>6, <1>7 DEF Next

LEMMA CursorInit == Init => CursorInv
<1>1. ASSUME Init PROVE CursorInv
  <2>1. TypeOK BY <1>1, TypeInit
  <2>2. \A p \in Procs : worker[p] = Down BY <1>1 DEF Init
  <2>3. 1..position = {} BY <1>1 DEF Init
  <2> QED BY <2>1, <2>2, <2>3
          DEF CursorInv, TokensDistinct, NothingSkipped, HasToken, Fresh, ToldSince,
              Working, Down
<1> QED BY <1>1

(* Every step of the iterator is a step of the cursor, or none.            *)
LEMMA CursorStep ==
  ASSUME CursorInv, [Next]_vars
  PROVE  [Cursor!Next]_(Cursor!cursor)
<1>1. TypeOK /\ events \in Nat BY LimitsAssumption DEF CursorInv, TypeOK
<1>2. CASE StoreEvent
  BY <1>2 DEF StoreEvent, handled, Cursor!Next, Cursor!Store
<1>3. ASSUME NEW p \in Procs, Notify(p) \/ MissPage(p)
      PROVE  [Cursor!Next]_(Cursor!cursor)
  <2>1. events' = events /\ position' = position BY <1>3 DEF Notify, MissPage
  <2>2. CASE handled' = handled \cup PageVersions(p)
    <3>1. PageVersions(p) \in SUBSET (1..events)
      BY <1>1 DEF PageVersions, TypeOK, Worker
    <3> QED BY <2>1, <2>2, <3>1 DEF Cursor!Next, Cursor!Tell
  <2>3. CASE handled' = handled BY <2>1, <2>3 DEF Cursor!cursor
  <2> QED BY <1>3, <2>2, <2>3, PageHandled
<1>4. ASSUME NEW p \in Procs, UpdatePosition(p) PROVE [Cursor!Next]_(Cursor!cursor)
  BY <1>4, FencedWrite DEF UpdatePosition, handled, Cursor!Next, Cursor!Move
<1>5. CASE UNCHANGED <<events, handled, position>> BY <1>5 DEF Cursor!cursor
<1>6. \/ StoreEvent \/ UNCHANGED <<events, handled, position>>
      \/ \E p \in Procs : Notify(p) \/ MissPage(p) \/ UpdatePosition(p)
  BY DEF Next, vars, handled, SendChange, LoseChange, Step, Start, Acquire, GiveUp,
         Subscribe, ReadPosition, CancelledRead, FailedRead, EndRound, RefreshPage,
         RefreshTimer, Refresh, Panic, ReadPage, CancelledUpdate, FailedUpdate,
         SkipUpdate, HandleWake, Finish, Stop, Crash, ExpireAbandoned, ExpireSlow,
         Expire
<1> QED BY <1>2, <1>3, <1>4, <1>5, <1>6

(* The iterator implements the cursor: however many processes take over,    *)
(* crash, stop or come late, the position only moves forward, and only over *)
(* events that some worker has told, or has failed to tell.                 *)
THEOREM CursorImplemented == Spec => ImplementsCursor
<1>1. Init => Cursor!Init BY DEF Init, handled, Cursor!Init
<1>2. CursorInv /\ [Next]_vars => [Cursor!Next]_(Cursor!cursor) BY CursorStep
<1>3. CursorInv /\ [Next]_vars => CursorInv' BY CursorNext
<1> QED BY <1>1, <1>2, <1>3, CursorInit, PTL DEF Spec, ImplementsCursor, Cursor!Spec

=============================================================================
