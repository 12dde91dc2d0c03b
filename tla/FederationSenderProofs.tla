----------------------- MODULE FederationSenderProofs -----------------------
(* Theorems about the federation sender, for any number of processes,        *)
(* goroutines, rooms, events and faults, and any size of a transaction.      *)
EXTENDS FederationSender, FiniteSetTheorems, TLAPS

Phases == {"done", "try", "register", "read", "refresh", "sync", "page", "send",
           "update", "wait", "unregister", "release"}

TokenUpTo(n) == [upto : 0..n, bumped : BOOLEAN]

(* What a goroutine may be, with n events stored and t tokens given.         *)
TaskUpTo(n, t) ==
  [pc : Phases, token : 0..t, from : TokenUpTo(n), latest : 0..n,
   pending : SUBSET Rooms, page : SUBSET (1..n), next : TokenUpTo(n),
   sent : BOOLEAN, idle : 0..MaxIdle]

(* A sender that has not ended may count one more idle round.                *)
IdleLeft(t) == t.pc \notin {"unregister", "release"} => t.idle < MaxIdle

Typed == task \in [Tasks -> TaskUpTo(Len(log), tokens)]

TypeInv == TypeOK /\ \A g \in Tasks : IdleLeft(task[g])

-----------------------------------------------------------------------------
(* Lemmas about the values.                                                  *)

LEMMA TaskIs == Task = TaskUpTo(Len(log), tokens)
  BY DEF Task, TaskUpTo, Phases, Token, TokenUpTo, Versions

LEMMA ZeroTyped == ASSUME NEW n \in Nat PROVE Zero \in TokenUpTo(n)
  BY DEF Zero, TokenUpTo

LEMMA DoneTyped ==
  ASSUME NEW n \in Nat, NEW t \in Nat
  PROVE  Done \in TaskUpTo(n, t) /\ IdleLeft(Done)
<1>1. Zero \in TokenUpTo(n) BY ZeroTyped
<1>2. MaxIdle \in Nat /\ MaxIdle > 1 BY IdleAssumption
<1>3. 0 \in 0..t /\ 0 \in 0..n /\ 0 \in 0..MaxIdle BY <1>2
<1>4. Done.pc = "done" /\ Done.idle = 0 BY DEF Done
<1>5. Done \in TaskUpTo(n, t) BY <1>1, <1>3 DEF Done, TaskUpTo, Phases
<1> QED BY <1>2, <1>4, <1>5 DEF IdleLeft

LEMMA TasksGrow ==
  ASSUME NEW n \in Nat, NEW t \in Nat, NEW n1 \in Nat, NEW t1 \in Nat,
         n <= n1, t <= t1, NEW w \in TaskUpTo(n, t)
  PROVE  w \in TaskUpTo(n1, t1)
<1>1. 0..n \subseteq 0..n1 /\ 0..t \subseteq 0..t1 /\ 1..n \subseteq 1..n1 OBVIOUS
<1>2. TokenUpTo(n) \subseteq TokenUpTo(n1) BY <1>1 DEF TokenUpTo
<1>3. SUBSET (1..n) \subseteq SUBSET (1..n1) BY <1>1
<1> QED BY <1>1, <1>2, <1>3 DEF TaskUpTo

(* A log that is one event longer keeps its versions.                        *)
LEMMA LogGrows ==
  ASSUME TypeOK, NEW r \in Rooms, NEW kind \in EventKinds, StoreEvent(r, kind)
  PROVE  /\ Len(log) \in Nat /\ Len(log') = Len(log) + 1
         /\ log' \in Seq([room : Rooms, kind : EventKinds])
         /\ \A v \in 1..Len(log) : log'[v] = log[v]
         /\ log'[Len(log) + 1] = [room |-> r, kind |-> kind]
<1>1. log \in Seq([room : Rooms, kind : EventKinds]) BY DEF TypeOK
<1>2. [room |-> r, kind |-> kind] \in [room : Rooms, kind : EventKinds] OBVIOUS
<1>3. log' = Append(log, [room |-> r, kind |-> kind]) BY DEF StoreEvent
<1> QED BY <1>1, <1>2, <1>3

(* The fields of a goroutine that ends a round of sending.                   *)
LEMMA EndTryIs ==
  ASSUME TypeInv, NEW g \in Tasks, NEW sent \in BOOLEAN, EndTry(g, sent),
         task[g].pc \notin {"unregister", "release"}
  PROVE  \E t \in TaskUpTo(Len(log), tokens) :
           /\ task' = [task EXCEPT ![g] = t] /\ IdleLeft(t)
           /\ t.pc \in {"wait", "unregister"} /\ t.token = task[g].token /\ t.page = {}
<1>1. Typed BY TaskIs DEF TypeInv, TypeOK, Typed
<1>2. MaxIdle \in Nat /\ MaxIdle > 1 /\ Len(log) \in Nat /\ tokens \in Nat
  BY IdleAssumption DEF TypeInv, TypeOK
<1>3. task[g] \in TaskUpTo(Len(log), tokens) BY <1>1 DEF Typed
<1> DEFINE idle == IF sent THEN 0 ELSE task[g].idle + 1
           pc   == IF IsIdle(idle) THEN "unregister" ELSE "wait"
           t    == [Done EXCEPT !.token = task[g].token, !.idle = idle, !.pc = pc]
<1>4. task[g].idle < MaxIdle BY DEF TypeInv, IdleLeft
<1>5. task[g].idle \in 0..MaxIdle BY <1>3 DEF TaskUpTo
<1>6. idle \in 0..MaxIdle BY <1>2, <1>4, <1>5
<1>7. pc = "wait" => idle < MaxIdle BY <1>2, <1>6 DEF IsIdle
<1>8. task' = [task EXCEPT ![g] = t] BY DEF EndTry
<1> HIDE DEF idle, pc
<1>9. Done \in TaskUpTo(Len(log), tokens) BY <1>2, DoneTyped
<1>10. task[g].token \in 0..tokens BY <1>3 DEF TaskUpTo
<1>11. pc \in {"wait", "unregister"} BY DEF pc
<1>12. t \in TaskUpTo(Len(log), tokens) BY <1>6, <1>9, <1>10, <1>11 DEF TaskUpTo, Phases
<1>13. t.pc = pc /\ t.idle = idle /\ t.token = task[g].token /\ t.page = {} BY DEF Done
<1> HIDE DEF t
<1> QED BY <1>7, <1>8, <1>11, <1>12, <1>13 DEF IdleLeft

-----------------------------------------------------------------------------
(* Type correctness: the goroutines first, then the rest.                    *)

GoodTask(n, t) == {w \in TaskUpTo(n, t) : IdleLeft(w)}

LEMMA TasksGood ==
  ASSUME TypeInv
  PROVE  /\ task \in [Tasks -> GoodTask(Len(log), tokens)]
         /\ Len(log) \in Nat /\ tokens \in Nat
<1>1. task \in [Tasks -> TaskUpTo(Len(log), tokens)] BY TaskIs DEF TypeInv, TypeOK
<1>2. \A g \in Tasks : IdleLeft(task[g]) BY DEF TypeInv
<1> QED BY <1>1, <1>2 DEF GoodTask, TypeInv, TypeOK

LEMMA GotoGood ==
  ASSUME NEW n, NEW t, NEW w \in GoodTask(n, t), NEW pc \in Phases,
         w.pc \in {"unregister", "release"} => pc \in {"unregister", "release"}
  PROVE  [w EXCEPT !.pc = pc] \in GoodTask(n, t)
<1>1. w \in TaskUpTo(n, t) /\ IdleLeft(w) BY DEF GoodTask
<1>2. [w EXCEPT !.pc = pc] \in TaskUpTo(n, t) BY <1>1 DEF TaskUpTo
<1>3. [w EXCEPT !.pc = pc].pc = pc /\ [w EXCEPT !.pc = pc].idle = w.idle
  BY <1>1 DEF TaskUpTo
<1> QED BY <1>1, <1>2, <1>3 DEF GoodTask, IdleLeft

LEMMA TasksTyped ==
  ASSUME TypeInv, [Next]_vars
  PROVE  task' \in [Tasks -> GoodTask(Len(log'), tokens')]
<1> DEFINE n == Len(log)
           Now  == GoodTask(n, tokens)
           Goal == task' \in [Tasks -> GoodTask(Len(log'), tokens')]
<1>1. task \in [Tasks -> Now] /\ n \in Nat /\ tokens \in Nat BY TasksGood
<1>2. ASSUME NEW g \in Tasks, NEW t \in Now, task' = [task EXCEPT ![g] = t],
             UNCHANGED <<log, tokens>>
      PROVE  Goal
  BY <1>1, <1>2
<1>3. ASSUME NEW g \in Tasks, NEW pc \in Phases, Goto(g, pc), UNCHANGED <<log, tokens>>,
             task[g].pc \in {"unregister", "release"} => pc \in {"unregister", "release"}
      PROVE  Goal
  <2>1. [task[g] EXCEPT !.pc = pc] \in Now BY <1>1, <1>3, GotoGood
  <2>2. task' = [task EXCEPT ![g] = [task[g] EXCEPT !.pc = pc]]
    BY <1>1, <1>3 DEF Goto, GoodTask, TaskUpTo
  <2> QED BY <1>2, <1>3, <2>1, <2>2
<1>4. ASSUME NEW p \in Procs, Exit(p), UNCHANGED <<log, tokens>> PROVE Goal
  <2>1. Done \in Now BY <1>1, DoneTyped DEF GoodTask
  <2>2. task' = [g \in Tasks |-> IF Of[g] = p THEN Done ELSE task[g]] BY <1>4 DEF Exit
  <2> HIDE DEF Now
  <2>3. task' \in [Tasks -> Now] BY <1>1, <2>1, <2>2
  <2> QED BY <1>4, <2>3 DEF Now
<1>5. ASSUME NEW g \in Tasks, NEW sent \in BOOLEAN, EndTry(g, sent),
             task[g].pc \notin {"unregister", "release"}, UNCHANGED <<log, tokens>>
      PROVE  Goal
  <2>1. PICK t \in TaskUpTo(n, tokens) : task' = [task EXCEPT ![g] = t] /\ IdleLeft(t)
    BY <1>5, EndTryIs
  <2> QED BY <1>2, <1>5, <2>1 DEF GoodTask
<1>6. ASSUME UNCHANGED <<log, tokens, task>> PROVE Goal BY <1>1, <1>6
<1>7. ASSUME NEW g \in Tasks, Progress(g) \/ Fail(g) PROVE Goal
  <2>1. task[g] \in Now BY <1>1
  <2>2. task[g] \in TaskUpTo(n, tokens) /\ IdleLeft(task[g]) BY <2>1 DEF GoodTask
  <2>3. task[g].sent \in BOOLEAN BY <2>2 DEF TaskUpTo
  <2>4. ASSUME NEW t \in TaskUpTo(n, tokens), task' = [task EXCEPT ![g] = t],
               UNCHANGED <<log, tokens>>, t.idle = task[g].idle,
               task[g].pc \notin {"unregister", "release"}
        PROVE  Goal
    BY <1>2, <2>2, <2>4 DEF GoodTask, IdleLeft
  <2>5. CASE Try(g)
    <3>1. CASE IsLocked(lock) BY <1>3, <2>5, <3>1 DEF Try, At, Phases
    <3>2. CASE ~IsLocked(lock)
      <4> DEFINE t == [task[g] EXCEPT !.pc = "register", !.token = tokens + 1]
      <4>1. task' = [task EXCEPT ![g] = t] /\ tokens' = tokens + 1 /\ log' = log
        BY <1>1, <2>5, <3>2 DEF Try, GoodTask, TaskUpTo
      <4>2. task[g] \in TaskUpTo(n, tokens + 1) BY <1>1, <2>2, TasksGrow
      <4>3. t \in TaskUpTo(n, tokens + 1)
        <5>1. tokens + 1 \in 0..(tokens + 1) BY <1>1
        <5> QED BY <4>2, <5>1 DEF TaskUpTo, Phases
      <4>4. IdleLeft(t)
        <5>1. task[g].pc = "try" /\ t.idle = task[g].idle BY <2>2, <2>5 DEF Try, At, TaskUpTo
        <5> QED BY <2>2, <5>1 DEF IdleLeft
      <4>5. t \in GoodTask(n, tokens + 1) BY <4>3, <4>4 DEF GoodTask
      <4>6. \A h \in Tasks : task[h] \in GoodTask(n, tokens + 1)
        BY <1>1, TasksGrow DEF GoodTask
      <4> HIDE DEF t
      <4>7. task' \in [Tasks -> GoodTask(n, tokens + 1)] BY <1>1, <4>1, <4>5, <4>6
      <4> QED BY <4>1, <4>7
    <3> QED BY <3>1, <3>2
  <2>6. CASE Register(g) BY <1>3, <2>6 DEF Register, At, Phases
  <2>7. CASE Wake(g) \/ Timer(g) BY <1>3, <2>7 DEF Wake, Timer, TimerFires, At, Phases
  <2>8. CASE ContextDone(g) BY <1>3, <2>8 DEF ContextDone, At, Phases
  <2>9. CASE Unregister(g) BY <1>3, <2>9 DEF Unregister, At, Phases
  <2>10. CASE Release(g)
    <3>1. Done \in Now BY <1>1, DoneTyped DEF GoodTask
    <3> QED BY <1>2, <2>10, <3>1 DEF Release
  <2>11. CASE ReadPosition(g)
    <3> DEFINE t == [task[g] EXCEPT !.pc = "refresh", !.from = position]
    <3>1. position \in TokenUpTo(n) BY DEF TypeInv, TypeOK, Token, TokenUpTo
    <3>2. t \in TaskUpTo(n, tokens) BY <2>2, <3>1 DEF TaskUpTo, Phases
    <3>3. task' = [task EXCEPT ![g] = t] BY <1>1, <2>11 DEF ReadPosition, GoodTask, TaskUpTo
    <3>4. t.idle = task[g].idle BY <2>2 DEF TaskUpTo
    <3> QED BY <2>4, <2>11, <3>2, <3>3, <3>4 DEF ReadPosition, At
  <2>12. CASE RefreshLock(g) BY <1>3, <2>12 DEF RefreshLock, At, Phases
  <2>13. CASE SyncMemberships(g)
    <3> DEFINE t == [task[g] EXCEPT !.pc = "page", !.latest = Len(log), !.pending = members]
    <3>0. members \in SUBSET Rooms BY DEF TypeInv, TypeOK
    <3>1. t \in TaskUpTo(n, tokens)
      <4>1. n \in 0..n BY <1>1
      <4> QED BY <2>2, <3>0, <4>1 DEF TaskUpTo, Phases
    <3>2. task' = [task EXCEPT ![g] = t]
      BY <1>1, <2>13 DEF SyncMemberships, GoodTask, TaskUpTo
    <3>3. t.idle = task[g].idle BY <2>2 DEF TaskUpTo
    <3> QED BY <2>4, <2>13, <3>1, <3>2, <3>3 DEF SyncMemberships, At
  <2>14. CASE \E r \in Rooms : PaginateRoom(g, r)
    <3> PICK r \in Rooms : PaginateRoom(g, r) BY <2>14
    <3>1. PICK P \in SUBSET RoomEvents(g, r) :
            /\ At(g, "page") /\ UNCHANGED <<log, tokens>>
            /\ task' = [task EXCEPT ![g].pending = @ \ {r}, ![g].page = @ \cup P]
      BY DEF PaginateRoom
    <3> DEFINE t == [task[g] EXCEPT !.pending = @ \ {r}, !.page = @ \cup P]
    <3>2. task[g].from.upto \in 0..n /\ task[g].latest \in 0..n
      BY <2>2 DEF TaskUpTo, TokenUpTo
    <3>3. P \subseteq 1..n BY <1>1, <3>2 DEF RoomEvents
    <3>4. t \in TaskUpTo(n, tokens) BY <2>2, <3>3 DEF TaskUpTo
    <3>5. task' = [task EXCEPT ![g] = t] BY <1>1, <3>1 DEF GoodTask, TaskUpTo
    <3>6. t.idle = task[g].idle BY <2>2 DEF TaskUpTo
    <3> QED BY <2>4, <3>1, <3>4, <3>5, <3>6 DEF At
  <2>15. CASE ChooseEvents(g)
    <3> DEFINE Chosen(P, next) ==
                 IF next = task[g].from THEN EndTry(g, task[g].sent)
                 ELSE task' = [task EXCEPT ![g].pc = "send", ![g].page = P,
                                 ![g].next = next, ![g].sent = TRUE, ![g].latest = 0]
    <3> PICK P \in SUBSET task[g].page :
          \E next \in [upto : P \cup {task[g].latest}, bumped : BOOLEAN] : Chosen(P, next)
      BY <2>15 DEF ChooseEvents
    <3>1. PICK next \in [upto : P \cup {task[g].latest}, bumped : BOOLEAN] : Chosen(P, next)
      OBVIOUS
    <3>2. At(g, "page") /\ UNCHANGED <<log, tokens>> BY <2>15 DEF ChooseEvents
    <3>3. CASE next = task[g].from BY <1>5, <2>3, <3>1, <3>2, <3>3 DEF At
    <3>4. CASE next # task[g].from
      <4> DEFINE t == [task[g] EXCEPT !.pc = "send", !.page = P, !.next = next,
                                      !.sent = TRUE, !.latest = 0]
      <4>1. task[g].page \subseteq 1..n /\ task[g].latest \in 0..n BY <2>2 DEF TaskUpTo
      <4>2. P \in SUBSET (1..n) /\ next \in TokenUpTo(n) BY <1>1, <4>1 DEF TokenUpTo
      <4>3. t \in TaskUpTo(n, tokens)
        <5>1. 0 \in 0..n BY <1>1
        <5> QED BY <2>2, <4>2, <5>1 DEF TaskUpTo, Phases
      <4>4. task' = [task EXCEPT ![g] = t] BY <1>1, <3>1, <3>4 DEF GoodTask, TaskUpTo
      <4>5. t.idle = task[g].idle BY <2>2 DEF TaskUpTo
      <4> QED BY <2>4, <3>2, <4>3, <4>4, <4>5 DEF At
    <3> QED BY <3>3, <3>4
  <2>16. CASE Send(g) BY <1>3, <2>16 DEF Send, At, Phases
  <2>17. CASE UpdatePosition(g)
    <3> DEFINE t == [task[g] EXCEPT !.pc = "refresh", !.from = task[g].next,
                                    !.page = {}, !.next = Zero]
    <3>1. Zero \in TokenUpTo(n) BY <1>1, ZeroTyped
    <3>2. t \in TaskUpTo(n, tokens) BY <2>2, <3>1 DEF TaskUpTo, Phases
    <3>3. task' = [task EXCEPT ![g] = t] BY <1>1, <2>17 DEF UpdatePosition, GoodTask, TaskUpTo
    <3>4. t.idle = task[g].idle BY <2>2 DEF TaskUpTo
    <3> QED BY <2>4, <2>17, <3>2, <3>3, <3>4 DEF UpdatePosition, At
  <2>18. CASE Panic(g) BY <1>4, <2>18, ProcsAssumption DEF Panic
  <2>19. CASE FailSend(g) BY <1>5, <2>3, <2>19 DEF FailSend, At
  <2>20. CASE FailTransaction(g) BY <1>5, <2>3, <2>20 DEF FailTransaction, At
  <2>21. CASE FailTry(g)
    <3>1. tokens' \in {tokens, tokens + 1} /\ log' = log BY <2>21 DEF FailTry
    <3>2. Goal \/ task' \in [Tasks -> Now]
      <4> DEFINE t == [task[g] EXCEPT !.pc = "done"]
      <4>1. t \in Now BY <2>1, <2>21, GotoGood DEF FailTry, At, Phases
      <4>2. task' = [task EXCEPT ![g] = t]
        BY <1>1, <2>21 DEF FailTry, Goto, GoodTask, TaskUpTo
      <4> HIDE DEF t, Now
      <4> QED BY <1>1, <4>1, <4>2
    <3>3. \A w \in Now : w \in GoodTask(n, tokens') BY <1>1, <3>1, TasksGrow DEF GoodTask
    <3> QED BY <3>1, <3>2, <3>3
  <2> QED BY <1>7, <2>5, <2>6, <2>7, <2>8, <2>9, <2>10, <2>11, <2>12, <2>13, <2>14, <2>15,
             <2>16, <2>17, <2>18, <2>19, <2>20, <2>21 DEF Progress, Sync, Fail
<1>8. ASSUME NEW p \in Procs, Run(p) \/ Stop(p) \/ Crash(p) PROVE Goal
  <2>1. CASE Dispatch(p)
    <3>1. CASE UNCHANGED task BY <1>6, <2>1, <3>1 DEF Dispatch
    <3>2. CASE \E g \in Tasks : At(g, "done") /\ Goto(g, "try")
      BY <1>3, <2>1, <3>2 DEF Dispatch, At, Phases
    <3> QED BY <2>1, <3>1, <3>2 DEF Dispatch
  <2>2. CASE FinishStop(p) \/ Crash(p) BY <1>4, <2>2 DEF FinishStop, Crash
  <2>3. CASE Start(p) \/ EndLoop(p) \/ Stop(p) BY <1>6, <2>3 DEF Start, EndLoop, Stop
  <2> QED BY <1>8, <2>1, <2>2, <2>3 DEF Run
<1>9. ASSUME NEW r \in Rooms, NEW kind \in Kinds, StoreEvent(r, kind) PROVE Goal
  <2>1. Len(log') = n + 1 BY <1>9, LogGrows, KindsAssumption DEF TypeInv
  <2>2. UNCHANGED <<task, tokens>> BY <1>9 DEF StoreEvent
  <2>3. \A g \in Tasks : task[g] \in GoodTask(n + 1, tokens)
    BY <1>1, TasksGrow DEF GoodTask
  <2> QED BY <1>1, <2>1, <2>2, <2>3
<1>10. CASE Announce \/ LoseWake \/ ExpireAbandoned \/ ExpireSlow \/ UNCHANGED vars
  BY <1>6, <1>10 DEF Announce, LoseWake, ExpireAbandoned, ExpireSlow, Expire, vars
<1> QED BY <1>7, <1>8, <1>9, <1>10 DEF Next

-----------------------------------------------------------------------------
(* What the steps do to the rest of the state.                               *)

(* Events are only added.                                                    *)
LEMMA LogStep ==
  ASSUME [Next]_vars
  PROVE  \/ UNCHANGED <<log, members>>
         \/ \E r \in Rooms, kind \in Kinds : StoreEvent(r, kind)
<1>1. ASSUME NEW p \in Procs, Run(p) \/ Stop(p) \/ Crash(p) PROVE UNCHANGED <<log, members>>
  BY <1>1 DEF Run, Start, Dispatch, Stop, EndLoop, FinishStop, Crash
<1>2. ASSUME NEW g \in Tasks, Progress(g) \/ Fail(g) PROVE UNCHANGED <<log, members>>
  BY <1>2 DEF Progress, Sync, Fail, Try, Register, Wake, Timer, ContextDone, Unregister,
         Release, ReadPosition, RefreshLock, SyncMemberships, PaginateRoom, ChooseEvents,
         Send, FailTry, FailSend, UpdatePosition, FailTransaction, Panic
<1>3. ASSUME Announce \/ LoseWake \/ ExpireAbandoned \/ ExpireSlow \/ UNCHANGED vars
      PROVE  UNCHANGED <<log, members>>
  BY <1>3 DEF Announce, LoseWake, ExpireAbandoned, ExpireSlow, Expire, vars
<1> QED BY <1>1, <1>2, <1>3 DEF Next

(* The position moves by a write of its holder only.                         *)
LEMMA PositionStep ==
  ASSUME [Next]_vars
  PROVE  position' = position \/ \E g \in Tasks : UpdatePosition(g)
  BY DEF Next, vars, Run, Progress, Sync, Fail, StoreEvent, Announce, LoseWake, Start,
         Dispatch, Stop, EndLoop, FinishStop, Crash, Try, Register, Wake, Timer, ContextDone,
         Unregister, Release, ReadPosition, RefreshLock, SyncMemberships, PaginateRoom,
         ChooseEvents, Send, FailTry, FailSend, FailTransaction, Panic,
         ExpireAbandoned, ExpireSlow, Expire

(* A transaction is the one a goroutine is about to send.                    *)
LEMMA TxnsStep ==
  ASSUME [Next]_vars
  PROVE  \/ txns' = txns
         \/ \E g \in Tasks : At(g, "send") /\ txns' = txns \cup {Transaction(g)}
<1>1. CASE \E g \in Tasks : Send(g) BY <1>1 DEF Send
<1>2. CASE \E g \in Tasks : FailSend(g) BY <1>2 DEF FailSend
<1>3. \/ txns' = txns \/ \E g \in Tasks : Send(g) \/ FailSend(g)
  BY DEF Next, vars, Run, Progress, Sync, Fail, StoreEvent, Announce, LoseWake, Start,
         Dispatch, Stop, EndLoop, FinishStop, Crash, Try, Register, Wake, Timer,
         ContextDone, Unregister, Release, ReadPosition, RefreshLock, SyncMemberships,
         PaginateRoom, ChooseEvents, UpdatePosition, FailTry, FailTransaction, Panic,
         ExpireAbandoned, ExpireSlow, Expire
<1> QED BY <1>1, <1>2, <1>3

LEMMA FaultsStep ==
  ASSUME [Next]_vars
  PROVE  faults' = faults \/ Fault
  BY DEF Next, vars, Run, Progress, Sync, Fail, StoreEvent, Announce, LoseWake, Start,
         Dispatch, Stop, EndLoop, FinishStop, Crash, Try, Register, Wake, Timer, ContextDone,
         Unregister, Release, ReadPosition, RefreshLock, SyncMemberships, PaginateRoom,
         ChooseEvents, Send, FailTry, FailSend, UpdatePosition, FailTransaction, Panic,
         ExpireAbandoned, ExpireSlow, Expire

(* A lock is made with a new token, by Try or by a FailTry nobody hears of.  *)
LEMMA LockStep ==
  ASSUME TypeOK, [Next]_vars
  PROVE  /\ lock' \in [token : 0..tokens', expired : BOOLEAN]
         /\ \/ tokens' = tokens /\ lock'.token \in {0, lock.token}
            \/ /\ tokens' = tokens + 1 /\ lock'.token = tokens + 1
               /\ \E g \in Tasks : Try(g) \/ FailTry(g)
<1>1. tokens \in Nat /\ lock \in [token : 0..tokens, expired : BOOLEAN] BY DEF TypeOK
<1>2. \/ UNCHANGED <<lock, tokens>> \/ ExpireAbandoned \/ ExpireSlow
      \/ \E g \in Tasks : \/ Try(g) \/ FailTry(g) \/ Release(g)
                         \/ RefreshLock(g) \/ UpdatePosition(g)
  BY DEF Next, vars, Run, Progress, Sync, Fail, StoreEvent, Announce, LoseWake, Start,
         Dispatch, Stop, EndLoop, FinishStop, Crash, Register, Wake, Timer, ContextDone,
         Unregister, ReadPosition, SyncMemberships, PaginateRoom, ChooseEvents, Send,
         FailSend, FailTransaction, Panic
<1>3. CASE UNCHANGED <<lock, tokens>> BY <1>1, <1>3
<1>4. ASSUME NEW b \in BOOLEAN, lock' = [lock EXCEPT !.expired = b], tokens' = tokens
      PROVE  /\ lock' \in [token : 0..tokens', expired : BOOLEAN]
             /\ lock'.token = lock.token
  BY <1>1, <1>4
<1>5. CASE ExpireAbandoned \/ ExpireSlow
  BY <1>4, <1>5 DEF ExpireAbandoned, ExpireSlow, Expire
<1>6. ASSUME NEW g \in Tasks, RefreshLock(g) \/ UpdatePosition(g)
      PROVE  lock' = [lock EXCEPT !.expired = FALSE] /\ tokens' = tokens
  BY <1>6 DEF RefreshLock, UpdatePosition, Refreshed
<1>7. ASSUME NEW g \in Tasks, Release(g)
      PROVE  /\ lock' \in [token : 0..tokens', expired : BOOLEAN]
             /\ tokens' = tokens /\ lock'.token = 0
  BY <1>1, <1>7 DEF Release, Released, Free
<1>8. ASSUME lock' = Created(tokens + 1), tokens' = tokens + 1
      PROVE  /\ lock' \in [token : 0..tokens', expired : BOOLEAN]
             /\ tokens' = tokens + 1 /\ lock'.token = tokens + 1
  <2>1. tokens + 1 \in 0..(tokens + 1) BY <1>1
  <2> QED BY <1>8, <2>1 DEF Created
<1>9. ASSUME NEW g \in Tasks, Try(g) \/ FailTry(g)
      PROVE  \/ UNCHANGED <<lock, tokens>>
             \/ lock' = Created(tokens + 1) /\ tokens' = tokens + 1
  BY <1>9 DEF Try, FailTry
<1> QED BY <1>2, <1>3, <1>4, <1>5, <1>6, <1>7, <1>8, <1>9

(* The processes, and their senders.                                         *)
ProcsOK ==
  /\ proc \in [Procs -> {"down", "up", "stopping", "draining"}]
  /\ woken \subseteq Procs /\ waking \subseteq Tasks
  /\ entry \in [Procs -> Tasks \cup {None}]
  /\ \A p \in Procs : entry[p] # None => Of[entry[p]] = p

LEMMA ProcsStep ==
  ASSUME ProcsOK, [Next]_vars
  PROVE  ProcsOK'
<1>1. ASSUME NEW p \in Procs, Exit(p) PROVE ProcsOK' BY <1>1 DEF Exit, ProcsOK
<1>2. CASE UNCHANGED <<proc, entry>> /\ woken' \subseteq Procs /\ waking' \subseteq Tasks
  BY <1>2 DEF ProcsOK
<1>3. ASSUME NEW g \in Tasks, Progress(g) \/ Fail(g) PROVE ProcsOK'
  <2>1. CASE Register(g) BY <2>1, ProcsAssumption DEF Register, ProcsOK
  <2>2. CASE Unregister(g) BY <2>2, ProcsAssumption DEF Unregister, ProcsOK
  <2>3. CASE Panic(g) BY <1>1, <2>3, ProcsAssumption DEF Panic
  <2>4. \/ Register(g) \/ Unregister(g) \/ Panic(g)
        \/ UNCHANGED <<proc, entry, woken>> /\ waking' \subseteq waking
    BY <1>3 DEF Progress, Sync, Fail, Try, Wake, Timer, ContextDone, Release, ReadPosition,
         RefreshLock, SyncMemberships, PaginateRoom, ChooseEvents, Send, FailTry, FailSend,
         UpdatePosition, FailTransaction
  <2> QED BY <1>2, <2>1, <2>2, <2>3, <2>4 DEF ProcsOK
<1>4. ASSUME NEW p \in Procs, Run(p) \/ Stop(p) \/ Crash(p) PROVE ProcsOK'
  <2>1. CASE Dispatch(p) BY <1>2, <2>1 DEF Dispatch, ProcsOK
  <2>2. CASE Start(p) \/ Stop(p) \/ EndLoop(p) BY <2>2 DEF Start, Stop, EndLoop, ProcsOK
  <2>3. CASE FinishStop(p) \/ Crash(p) BY <1>1, <2>3 DEF FinishStop, Crash
  <2> QED BY <1>4, <2>1, <2>2, <2>3 DEF Run
<1>5. CASE Announce BY <1>2, <1>5 DEF Announce, Subscribed, ProcsOK
<1>6. CASE \/ \E r \in Rooms, kind \in Kinds : StoreEvent(r, kind)
           \/ LoseWake \/ ExpireAbandoned \/ ExpireSlow \/ UNCHANGED vars
  BY <1>2, <1>6 DEF StoreEvent, LoseWake, ExpireAbandoned, ExpireSlow, Expire, vars, ProcsOK
<1> QED BY <1>3, <1>4, <1>5, <1>6 DEF Next

LEMMA TypeNext ==
  ASSUME TypeInv, [Next]_vars
  PROVE  TypeInv'
<1>1. TypeOK /\ Len(log) \in Nat BY DEF TypeInv, TypeOK
<1>2. task' \in [Tasks -> GoodTask(Len(log'), tokens')] BY TasksTyped
<1>3. task' \in [Tasks -> Task'] /\ \A g \in Tasks : IdleLeft(task'[g])
  BY <1>2 DEF GoodTask, TaskUpTo, Phases, Task, Token, TokenUpTo, Versions
<1>4. ProcsOK' BY <1>1, ProcsStep DEF TypeOK, ProcsOK
<1>5. tokens' \in Nat /\ lock' \in [token : 0..tokens', expired : BOOLEAN]
  <2>1. tokens \in Nat BY <1>1 DEF TypeOK
  <2> QED BY <1>1, <2>1, LockStep
<1>6. faults' \in 0..MaxFaults
  <2>1. faults \in 0..MaxFaults /\ MaxFaults \in Nat BY <1>1, BoundsAssumption DEF TypeOK
  <2>2. faults' = faults \/ (faults < MaxFaults /\ faults' = faults + 1)
    BY FaultsStep DEF Fault
  <2> QED BY <2>1, <2>2
<1> DEFINE Grown ==
             /\ log' \in Seq([room : Rooms, kind : EventKinds]) /\ members' \subseteq Rooms
             /\ Len(log') \in Nat /\ Len(log) <= Len(log')
<1>7. Grown
  <2>1. CASE UNCHANGED <<log, members>> BY <1>1, <2>1 DEF TypeOK
  <2>2. ASSUME NEW r \in Rooms, NEW kind \in Kinds, StoreEvent(r, kind)
        PROVE  Grown
    <3>1. log' \in Seq([room : Rooms, kind : EventKinds]) /\ Len(log') = Len(log) + 1
      BY <1>1, <2>2, LogGrows, KindsAssumption
    <3>2. members' \subseteq Rooms BY <1>1, <2>2 DEF StoreEvent, TypeOK
    <3> QED BY <1>1, <3>1, <3>2
  <2> HIDE DEF Grown
  <2> QED BY <2>1, <2>2, LogStep
<1>8. Versions \subseteq Versions' /\ 0..Len(log) \subseteq 0..Len(log')
  BY <1>1, <1>7 DEF Versions
<1>9. announced' \in 0..Len(log')
  <2>1. announced \in 0..Len(log) BY <1>1 DEF TypeOK
  <2>2. \/ announced' = announced
        \/ announced < Len(log) /\ announced' = announced + 1
    BY DEF Next, vars, Run, Progress, Sync, Fail, StoreEvent, Announce, LoseWake, Start,
         Dispatch, Stop, EndLoop, FinishStop, Crash, Try, Register, Wake, Timer,
         ContextDone, Unregister, Release, ReadPosition, RefreshLock, SyncMemberships,
         PaginateRoom, ChooseEvents, Send, FailTry, FailSend, UpdatePosition, FailTransaction,
         Panic, ExpireAbandoned, ExpireSlow, Expire
  <2> QED BY <1>1, <1>7, <2>1, <2>2
<1>10. position' \in Token'
  <2>1. Token \subseteq Token' BY <1>8 DEF Token
  <2>2. position \in Token /\ \A g \in Tasks : task[g].next \in Token
    BY <1>1 DEF TypeOK, Task
  <2> QED BY <2>1, <2>2, PositionStep DEF UpdatePosition
<1>11. txns' \subseteq [id : Token, evs : SUBSET Versions]'
  <2>1. [id : Token, evs : SUBSET Versions] \subseteq [id : Token, evs : SUBSET Versions]'
    BY <1>8 DEF Token
  <2>2. txns \subseteq [id : Token, evs : SUBSET Versions] BY <1>1 DEF TypeOK
  <2>3. \A g \in Tasks : Transaction(g) \in [id : Token, evs : SUBSET Versions]
    BY <1>1 DEF Transaction, TypeOK, Task
  <2> QED BY <2>1, <2>2, <2>3, TxnsStep
<1> QED BY <1>3, <1>4, <1>5, <1>6, <1>7, <1>9, <1>10, <1>11 DEF TypeInv, TypeOK, ProcsOK

LEMMA TypeInit == Init => TypeInv
<1>1. ASSUME Init PROVE TypeInv
  <2>1. log = <<>> /\ Len(log) = 0 /\ tokens = 0 BY <1>1 DEF Init
  <2>2. Done \in Task /\ IdleLeft(Done) BY <2>1, DoneTyped, TaskIs
  <2>3. Zero \in Token BY <2>1, ZeroTyped DEF Token, TokenUpTo
  <2>4. task \in [Tasks -> Task] /\ \A g \in Tasks : IdleLeft(task[g])
    BY <1>1, <2>2 DEF Init
  <2>5. /\ log \in Seq([room : Rooms, kind : EventKinds]) /\ members \subseteq Rooms
        /\ announced \in 0..Len(log) /\ position \in Token
        /\ tokens \in Nat /\ lock \in [token : 0..tokens, expired : BOOLEAN]
        /\ txns = {} /\ faults \in 0..MaxFaults
    BY <1>1, <2>1, <2>3, BoundsAssumption DEF Init, Free
  <2>6. ProcsOK BY <1>1 DEF Init, ProcsOK
  <2> QED BY <2>4, <2>5, <2>6 DEF TypeInv, TypeOK, ProcsOK
<1> QED BY <1>1

(* Type correctness: no position, page or transaction of any sender reaches  *)
(* beyond the stored events, whatever the processes and faults.              *)
THEOREM SenderTypeCorrect == Spec => []TypeOK
<1>1. TypeInv => TypeOK BY DEF TypeInv
<1> QED BY <1>1, TypeInit, TypeNext, PTL DEF Spec

-----------------------------------------------------------------------------
(* The refinement.  A sender whose token is still in the lock started from   *)
(* the position nobody else has moved since, because tokens are not shared;  *)
(* and from its position up to the token it sends next it has every event    *)
(* that is still owed: each room's page is a prefix of the room's events,    *)
(* the page of all rooms is a prefix of their union, and a room's events     *)
(* that are behind Limit others do not belong to it.                         *)

Working(t) == t.pc \in {"refresh", "sync", "page", "send", "update"}

Named(t) == t.pc \notin {"done", "try"} => t.token # 0

Fresh(t) == Working(t) /\ Holds(lock, t.token) => t.from = position

Covered(v, page) ==
  \/ v \in page
  \/ \E K \in SUBSET page : Cardinality(K) >= Limit /\ \A k \in K : k < v

PageRead(t) ==
  t.pc = "page" =>
    /\ t.from.upto <= t.latest /\ t.page \subseteq (t.from.upto + 1)..t.latest
    /\ \A v \in (t.from.upto + 1)..t.latest :
         Owed(v) => log[v].room \in t.pending \/ Covered(v, t.page)

PageChosen(t) ==
  t.pc \in {"send", "update"} =>
    /\ t.from.upto <= t.next.upto /\ t.page \subseteq (t.from.upto + 1)..t.next.upto
    /\ \A v \in (t.from.upto + 1)..t.next.upto : Owed(v) => v \in t.page

Delivered(t) == t.pc = "update" => t.page \subseteq received

Emptied(t) == t.pc \notin {"page", "send", "update"} => t.page = {}

SendingOK(t) ==
  Named(t) /\ Fresh(t) /\ PageRead(t) /\ PageChosen(t) /\ Delivered(t) /\ Emptied(t)

TokensDistinct ==
  \A g, h \in Tasks : task[g].token = task[h].token /\ task[g].token # 0 => g = h

NothingSkipped == \A v \in 1..position.upto : Owed(v) => v \in received

(* A transaction has every event still owed from its ID to its last event.   *)
TxnOK(t) ==
  \A w \in t.evs :
    /\ t.id.upto < w
    /\ \A v \in (t.id.upto + 1)..w : Owed(v) => v \in t.evs

DeliveryInv ==
  /\ TypeInv /\ TokensDistinct /\ NothingSkipped
  /\ \A t \in txns : TxnOK(t)
  /\ \A g \in Tasks : SendingOK(task[g])

(* What is owed only grows by new events.                                    *)
LEMMA OwedShrinks ==
  ASSUME TypeOK, [Next]_vars
  PROVE  \A v \in Versions : log'[v] = log[v] /\ (Owed(v)' => Owed(v))
<1>1. CASE UNCHANGED <<log, members>> BY <1>1 DEF Owed
<1>2. ASSUME NEW r \in Rooms, NEW kind \in Kinds, StoreEvent(r, kind), NEW v \in Versions
      PROVE  log'[v] = log[v] /\ (Owed(v)' => Owed(v))
  <2> DEFINE n == Len(log)
             new == [room |-> r, kind |-> kind]
  <2>1. /\ n \in Nat /\ Len(log') = n + 1 /\ \A w \in 1..n : log'[w] = log[w]
        /\ log'[n + 1] = new
    BY <1>2, LogGrows, KindsAssumption
  <2>2. v \in 1..n BY DEF Versions
  <2>3. log'[v] = log[v] BY <2>1, <2>2
  <2> SUFFICES ASSUME Owed(v)' PROVE Owed(v) BY <2>3
  <2>4. /\ Ours(log'[v]) /\ log'[v].room \in members'
        /\ \A w \in v..Len(log') : log'[w].room = log'[v].room => ~Membership(log'[w])
    BY DEF Owed, Ours, Membership
  <2>5. Ours(log[v]) BY <2>3, <2>4
  <2>6. \A w \in v..n : log[w].room = log[v].room => ~Membership(log[w])
    <3>1. \A w \in v..n : w \in v..Len(log') /\ w \in 1..n BY <2>1, <2>2
    <3> QED BY <2>1, <2>3, <2>4, <3>1
  <2>7. log[v].room \in members
    <3>1. CASE r = log[v].room
      <4>1. n + 1 \in v..Len(log') BY <2>1, <2>2
      <4>2. ~Membership(new) BY <2>1, <2>3, <2>4, <3>1, <4>1
      <4>3. kind \notin {"join", "leave", "kick"} BY <4>2 DEF Membership
      <4>4. members' = members BY <1>2, <4>3 DEF StoreEvent
      <4> QED BY <2>3, <2>4, <4>4
    <3>2. CASE r # log[v].room
      <4>1. members' \subseteq members \cup {r} BY <1>2 DEF StoreEvent
      <4> QED BY <2>3, <2>4, <3>2, <4>1
    <3> QED BY <3>1, <3>2
  <2> QED BY <2>3, <2>5, <2>6, <2>7 DEF Owed
<1> QED BY <1>1, <1>2, LogStep

LEMMA ReceivedGrows ==
  ASSUME [Next]_vars
  PROVE  txns \subseteq txns' /\ received \subseteq received'
  BY TxnsStep DEF received

(* What a sender has read or chosen stays right while others take steps.     *)
LEMMA PagesStay ==
  ASSUME TypeOK, [Next]_vars, NEW t \in TaskUpTo(Len(log), tokens)
  PROVE  /\ PageRead(t) => PageRead(t)'
         /\ PageChosen(t) => PageChosen(t)'
         /\ Delivered(t) => Delivered(t)'
<1>1. Len(log) \in Nat BY DEF TypeOK
<1>2. /\ t.from.upto \in 0..Len(log) /\ t.next.upto \in 0..Len(log)
      /\ t.latest \in 0..Len(log)
  BY DEF TaskUpTo, TokenUpTo
<1>3. \A hi \in 0..Len(log) : (t.from.upto + 1)..hi \subseteq Versions
  BY <1>1, <1>2 DEF Versions
<1>4. \A v \in Versions : log'[v] = log[v] /\ (Owed(v)' => Owed(v)) BY OwedShrinks
<1>5. PageRead(t) => PageRead(t)' BY <1>2, <1>3, <1>4 DEF PageRead
<1>6. PageChosen(t) => PageChosen(t)' BY <1>2, <1>3, <1>4 DEF PageChosen
<1>7. Delivered(t) => Delivered(t)' BY ReceivedGrows DEF Delivered
<1> QED BY <1>5, <1>6, <1>7

(* A room's page covers the room's events that are owed.                     *)
LEMMA PageCovers ==
  ASSUME NEW n \in Nat, NEW S \in SUBSET (1..n), NEW P \in SUBSET S, IsPage(P, S),
         NEW v \in S
  PROVE  Covered(v, P)
<1>1. CASE v \in P BY <1>1 DEF Covered
<1>2. CASE v \notin P
  <2>1. IsFiniteSet(P)
    <3>1. IsFiniteSet(1..n) BY FS_Interval
    <3> QED BY <3>1, FS_Subset
  <2>2. Cardinality(P) \in Nat BY <2>1, FS_CardinalityType
  <2>3. Cardinality(P) >= Limit BY <1>2, <2>2, LimitAssumption DEF IsPage
  <2>4. \A k \in P : k < v
    <3> SUFFICES ASSUME NEW k \in P PROVE k < v OBVIOUS
    <3>1. ~(v < k) /\ v # k BY <1>2 DEF IsPage
    <3>2. v \in Nat /\ k \in Nat OBVIOUS
    <3> QED BY <3>1, <3>2
  <2> QED BY <2>3, <2>4 DEF Covered
<1> QED BY <1>1, <1>2

LEMMA CoveredGrows ==
  ASSUME NEW v, NEW P, NEW Q, P \subseteq Q, Covered(v, P)
  PROVE  Covered(v, Q)
<1>1. SUBSET P \subseteq SUBSET Q OBVIOUS
<1> QED BY <1>1 DEF Covered

(* The page of all rooms has every covered version up to the next token.     *)
LEMMA ChosenCovers ==
  ASSUME NEW n \in Nat, NEW S \in SUBSET (1..n), NEW P \in SUBSET S, IsPage(P, S),
         NEW latest \in Nat, NEW next \in [upto : P \cup {latest}, bumped : BOOLEAN],
         IsToken(next, P, latest), NEW v \in Nat, v <= next.upto, Covered(v, S)
  PROVE  v \in P
<1>1. \A K \in SUBSET S : IsFiniteSet(K) /\ Cardinality(K) \in Nat
  <2>1. IsFiniteSet(1..n) BY FS_Interval
  <2>2. \A K \in SUBSET S : IsFiniteSet(K) BY <2>1, FS_Subset
  <2> QED BY <2>2, FS_CardinalityType
<1>2. Limit \in Nat /\ Limit > 0 BY LimitAssumption
<1>3. CASE P = {}
  <2>1. Cardinality(P) = 0 BY <1>3, FS_EmptySet
  <2>2. S = {} BY <1>2, <1>3, <2>1 DEF IsPage
  <2>3. \A K \in SUBSET S : Cardinality(K) = 0 BY <2>2, FS_EmptySet
  <2> QED BY <1>2, <2>2, <2>3 DEF Covered
<1>4. CASE P # {}
  <2> DEFINE m == next.upto
  <2>0. m \in P /\ \A w \in P : w <= m BY <1>4, Zenon DEF IsToken
  <2>1. m \in P /\ m \in Nat /\ \A w \in P : w <= m
    <3>1. P \subseteq 1..n OBVIOUS
    <3>2. m \in 1..n BY <2>0, <3>1
    <3> HIDE DEF m
    <3> QED BY <2>0, <3>2
  <2>2. CASE v \in S
    <3>1. v = m \/ v < m BY <2>1
    <3> QED BY <2>1, <2>2, <3>1 DEF IsPage
  <2>3. ASSUME NEW K \in SUBSET S, Cardinality(K) >= Limit, \A k \in K : k < v
        PROVE  FALSE
    <3>1. m \notin K BY <2>1, <2>3
    <3>2. K \subseteq P
      <4> SUFFICES ASSUME NEW k \in K PROVE k \in P OBVIOUS
      <4>1. k \in S /\ k \in Nat /\ k < m BY <2>1, <2>3
      <4> QED BY <2>1, <4>1 DEF IsPage
    <3>3. Cardinality(K \cup {m}) = Cardinality(K) + 1 BY <1>1, <3>1, FS_AddElement
    <3>4. Cardinality(K \cup {m}) <= Cardinality(P)
      <4>1. K \cup {m} \subseteq P BY <2>1, <3>2
      <4> QED BY <1>1, <4>1, FS_Subset
    <3>5. Cardinality(P) <= Limit BY DEF IsPage
    <3> QED BY <1>1, <1>2, <2>3, <3>3, <3>4, <3>5
  <2> QED BY <2>2, <2>3 DEF Covered
<1> QED BY <1>3, <1>4

(* A token in the lock was there before, and its holder alone can have moved *)
(* the position.                                                             *)
LEMMA HeldBefore ==
  ASSUME DeliveryInv, [Next]_vars, NEW h \in Tasks, Working(task[h]),
         lock'.token = task[h].token
  PROVE  lock.token = task[h].token /\ (position' = position \/ UpdatePosition(h))
<1>1. TypeOK /\ TokensDistinct /\ Named(task[h]) BY DEF DeliveryInv, TypeInv, SendingOK
<1>2. task[h].token # 0 BY <1>1 DEF Named, Working
<1>3. task[h].token \in 0..tokens /\ tokens \in Nat BY <1>1 DEF TypeOK, Task
<1>4. lock.token = task[h].token BY <1>1, <1>2, <1>3, LockStep
<1>5. ASSUME NEW g \in Tasks, UpdatePosition(g) PROVE g = h
  <2>1. lock.token = task[g].token BY <1>5 DEF UpdatePosition, MayWrite, Holds
  <2> QED BY <1>1, <1>2, <1>4, <2>1 DEF TokensDistinct
<1> QED BY <1>4, <1>5, PositionStep

LEMMA FreshStays ==
  ASSUME DeliveryInv, [Next]_vars, NEW h \in Tasks, Working(task[h]), ~UpdatePosition(h),
         task'[h].token = task[h].token, task'[h].from = task[h].from
  PROVE  Fresh(task[h])'
<1> SUFFICES ASSUME lock'.token = task[h].token PROVE task[h].from = position'
  BY DEF Fresh, Holds
<1>1. lock.token = task[h].token /\ position' = position BY HeldBefore
<1>2. Fresh(task[h]) BY DEF DeliveryInv, SendingOK
<1> QED BY <1>1, <1>2 DEF Fresh, Holds

LEMMA RestingOK ==
  ASSUME NEW t, ~Working(t), Named(t), t.page = {}
  PROVE  SendingOK(t) /\ SendingOK(t)'
  BY DEF SendingOK, Working, Fresh, PageRead, PageChosen, Delivered, Named, Emptied

LEMMA DoneOK == SendingOK(Done) /\ SendingOK(Done)' /\ Done.token = 0
<1>1. Done.pc = "done" /\ Done.token = 0 /\ Done.page = {} BY DEF Done
<1>2. ~Working(Done) /\ Named(Done) BY <1>1 DEF Working, Named
<1> QED BY <1>1, <1>2, RestingOK

(* The sender that takes the step.                                           *)
LEMMA OwnStep ==
  ASSUME DeliveryInv, NEW g \in Tasks, Progress(g) \/ Fail(g)
  PROVE  SendingOK(task[g])'
<1> DEFINE t  == task[g]
           t1 == task'[g]
<1>1. TypeInv /\ TypeOK /\ [Next]_vars BY DEF DeliveryInv, TypeInv, Next
<1>2. /\ t \in TaskUpTo(Len(log), tokens) /\ Len(log) \in Nat /\ tokens \in Nat
      /\ t1 \in TaskUpTo(Len(log'), tokens')
  BY <1>1, TasksGood, TasksTyped DEF GoodTask
<1>3. /\ t.from.upto \in 0..Len(log) /\ t.next.upto \in 0..Len(log)
      /\ t.latest \in 0..Len(log) /\ t.page \subseteq 1..Len(log)
  BY <1>2 DEF TaskUpTo, TokenUpTo
<1>4. SendingOK(t) /\ Named(t) BY DEF DeliveryInv, SendingOK
<1>5. DOMAIN task = Tasks /\ t \in [pc : Phases, token : 0..tokens, from : TokenUpTo(Len(log)),
        latest : 0..Len(log), pending : SUBSET Rooms, page : SUBSET (1..Len(log)),
        next : TokenUpTo(Len(log)), sent : BOOLEAN, idle : 0..MaxIdle]
  BY <1>1, <1>2 DEF TaskUpTo, TypeOK
<1>6. ASSUME NEW pc, Goto(g, pc)
      PROVE  t1 = [t EXCEPT !.pc = pc] /\ t1.pc = pc
  BY <1>5, <1>6 DEF Goto
<1>7. ASSUME ~Working(t1), t1.token = t.token \/ t1.token # 0, t1.page = {},
             t.pc \notin {"done", "try"} \/ t1.pc \in {"done", "try"} \/ t1.token # 0
      PROVE  SendingOK(task[g])'
  <2>1. Named(t1) BY <1>4, <1>7 DEF Named
  <2> QED BY <1>7, <2>1, RestingOK
<1>8. ASSUME NEW pc \in {"done", "read", "unregister", "release"}, Goto(g, pc),
             t.pc \notin {"page", "send", "update"}, pc = "done" \/ t.pc \notin {"try", "done"}
      PROVE  SendingOK(task[g])'
  <2>1. t1.pc = pc /\ t1.token = t.token /\ t1.page = t.page BY <1>5, <1>8 DEF Goto
  <2>2. t.page = {} BY <1>4, <1>8 DEF SendingOK, Emptied
  <2> QED BY <1>7, <1>8, <2>1, <2>2 DEF Working
<1>9. ASSUME NEW sent \in BOOLEAN, EndTry(g, sent),
             t.pc \notin {"try", "done", "unregister", "release"}
      PROVE  SendingOK(task[g])'
  <2>1. t1.pc \in {"wait", "unregister"} /\ t1.token = t.token /\ t1.page = {}
    BY <1>1, <1>5, <1>9, EndTryIs
  <2> QED BY <1>7, <1>9, <2>1 DEF Working
<1>10. ASSUME Working(t), t1.token = t.token, t1.from = t.from, ~UpdatePosition(g)
       PROVE  Fresh(task[g])' /\ Named(task[g])'
  <2>1. Fresh(task[g])' BY <1>1, <1>10, FreshStays
  <2> QED BY <1>4, <1>10, <2>1 DEF Named, Working
<1>11. t.sent \in BOOLEAN BY <1>5
<1>12. CASE Try(g)
  <2>1. CASE IsLocked(lock) BY <1>8, <1>12, <2>1 DEF Try, At
  <2>2. CASE ~IsLocked(lock)
    <3>1. t1.pc = "register" /\ t1.token = tokens + 1 /\ t1.page = t.page /\ t.pc = "try"
      BY <1>5, <1>12, <2>2 DEF Try, At
    <3>2. t.page = {} BY <1>4, <3>1 DEF SendingOK, Emptied
    <3> QED BY <1>2, <1>7, <3>1, <3>2 DEF Working
  <2> QED BY <2>1, <2>2
<1>13. CASE Register(g) \/ Wake(g) \/ Timer(g)
  BY <1>8, <1>13 DEF Register, Wake, Timer, TimerFires, At
<1>14. CASE ContextDone(g) \/ Unregister(g) BY <1>8, <1>14 DEF ContextDone, Unregister, At
<1>15. CASE Release(g)
  <2>1. t1 = Done BY <1>5, <1>15 DEF Release
  <2> QED BY <2>1, DoneOK
<1>16. CASE ReadPosition(g)
  <2>1. /\ t1.pc = "refresh" /\ t1.from = position /\ t1.token = t.token /\ t.pc = "read"
        /\ t1.page = t.page
    BY <1>5, <1>16 DEF ReadPosition, At
  <2>2. position' = position BY <1>16 DEF ReadPosition
  <2> QED BY <1>4, <2>1, <2>2
          DEF SendingOK, Named, Fresh, PageRead, PageChosen, Delivered, Emptied
<1>17. CASE RefreshLock(g)
  <2>1. /\ t.pc = "refresh" /\ t1.pc = "sync" /\ t1.token = t.token /\ t1.from = t.from
        /\ t1.page = t.page
    BY <1>5, <1>17 DEF RefreshLock, At, Goto
  <2>2. Fresh(task[g])' /\ Named(task[g])'
    BY <1>10, <2>1 DEF Working, UpdatePosition, At
  <2> QED BY <1>4, <2>1, <2>2 DEF SendingOK, PageRead, PageChosen, Delivered, Emptied
<1>18. CASE SyncMemberships(g)
  <2>1. /\ t.pc = "sync" /\ t1.pc = "page" /\ t1.token = t.token /\ t1.from = t.from
        /\ t1.latest = Len(log) /\ t1.pending = members /\ t1.page = t.page
        /\ UNCHANGED <<log, members>>
    BY <1>5, <1>18 DEF SyncMemberships, At
  <2>2. Fresh(task[g])' /\ Named(task[g])'
    BY <1>10, <2>1 DEF Working, UpdatePosition, At
  <2>3. t.page = {} BY <1>4, <2>1 DEF SendingOK, Emptied
  <2>4. PageRead(task[g])'
    <3>1. \A v : Owed(v)' => log'[v].room \in members BY <2>1 DEF Owed
    <3> QED BY <1>2, <1>3, <2>1, <2>3, <3>1 DEF PageRead
  <2> QED BY <2>1, <2>2, <2>4 DEF SendingOK, PageChosen, Delivered, Emptied
<1>19. CASE \E r \in Rooms : PaginateRoom(g, r)
  <2> PICK r \in Rooms : PaginateRoom(g, r) BY <1>19
  <2> DEFINE S == RoomEvents(g, r)
  <2>1. PICK P \in SUBSET S :
          /\ At(g, "page") /\ UNCHANGED <<log, members>> /\ IsPage(P, S)
          /\ task' = [task EXCEPT ![g].pending = @ \ {r}, ![g].page = @ \cup P]
    BY DEF PaginateRoom
  <2>2. /\ t.pc = "page" /\ t1.pc = "page" /\ t1.token = t.token /\ t1.from = t.from
        /\ t1.latest = t.latest /\ t1.pending = t.pending \ {r} /\ t1.page = t.page \cup P
    BY <1>5, <2>1 DEF At
  <2>3. Fresh(task[g])' /\ Named(task[g])'
    BY <1>10, <2>2 DEF Working, UpdatePosition, At
  <2>4. PageRead(t) BY <1>4 DEF SendingOK
  <2>5. S \subseteq (t.from.upto + 1)..t.latest /\ S \in SUBSET (1..Len(log))
    BY <1>2, <1>3 DEF RoomEvents
  <2>6. ASSUME NEW v \in (t.from.upto + 1)..t.latest, Owed(v)
        PROVE  log[v].room \in t.pending \ {r} \/ Covered(v, t.page \cup P)
    <3>1. CASE log[v].room = r
      <4>1. v \in S BY <2>6, <3>1 DEF RoomEvents, Owed
      <4>2. Covered(v, P) BY <1>2, <2>1, <2>5, <4>1, PageCovers
      <4> QED BY <4>2, CoveredGrows
    <3>2. CASE log[v].room # r
      <4>1. log[v].room \in t.pending \/ Covered(v, t.page) BY <2>2, <2>4, <2>6 DEF PageRead
      <4>2. CASE Covered(v, t.page) BY <4>2, CoveredGrows
      <4> QED BY <3>2, <4>1, <4>2
    <3> QED BY <3>1, <3>2
  <2>7. \A v : Owed(v)' <=> Owed(v) BY <2>1 DEF Owed
  <2>8. P \subseteq (t.from.upto + 1)..t.latest BY <2>5
  <2>9. PageRead(task[g])' BY <2>1, <2>2, <2>4, <2>6, <2>7, <2>8 DEF PageRead
  <2> QED BY <2>2, <2>3, <2>9 DEF SendingOK, PageChosen, Delivered, Emptied
<1>20. CASE ChooseEvents(g)
  <2>1. t.pc = "page" /\ t.pending = {} /\ UNCHANGED <<log, members>>
    BY <1>20 DEF ChooseEvents, At
  <2> DEFINE Chosen(P, next) ==
               /\ IsPage(P, t.page) /\ IsToken(next, P, t.latest)
               /\ IF next = t.from THEN EndTry(g, t.sent)
                  ELSE task' = [task EXCEPT ![g].pc = "send", ![g].page = P,
                                  ![g].next = next, ![g].sent = TRUE, ![g].latest = 0]
  <2> PICK P \in SUBSET t.page :
        \E next \in [upto : P \cup {t.latest}, bumped : BOOLEAN] : Chosen(P, next)
    BY <1>20 DEF ChooseEvents
  <2>2. PICK next \in [upto : P \cup {t.latest}, bumped : BOOLEAN] : Chosen(P, next)
    OBVIOUS
  <2>3. CASE next = t.from BY <1>9, <1>11, <2>1, <2>2, <2>3
  <2>4. CASE next # t.from
    <3>1. /\ t1.pc = "send" /\ t1.token = t.token /\ t1.from = t.from
          /\ t1.page = P /\ t1.next = next
      BY <1>5, <2>2, <2>4
    <3>2. Fresh(task[g])' /\ Named(task[g])'
      BY <1>10, <2>1, <3>1 DEF Working, UpdatePosition, At
    <3>3. /\ t.from.upto <= t.latest /\ t.page \subseteq (t.from.upto + 1)..t.latest
          /\ \A v \in (t.from.upto + 1)..t.latest : Owed(v) => Covered(v, t.page)
      BY <1>4, <2>1 DEF SendingOK, PageRead
    <3>4. next.upto \in P \cup {t.latest} /\ \A w \in P : w <= next.upto
      BY <2>2 DEF IsToken
    <3>5. next.upto \in 0..t.latest /\ t.from.upto <= next.upto
      BY <1>3, <3>3, <3>4
    <3>6. P \subseteq (t.from.upto + 1)..next.upto BY <1>3, <3>3, <3>4, <3>5
    <3>7. ASSUME NEW v \in (t.from.upto + 1)..next.upto, Owed(v) PROVE v \in P
      <4>1. v \in Nat /\ v <= next.upto /\ v \in (t.from.upto + 1)..t.latest
        BY <1>3, <3>5
      <4>2. Covered(v, t.page) BY <3>3, <3>7, <4>1
      <4>3. t.latest \in Nat BY <1>3
      <4>4. IsPage(P, t.page) /\ IsToken(next, P, t.latest) BY <2>2
      <4>5. t.page \in SUBSET (1..Len(log)) BY <1>3
      <4> HIDE DEF t, Chosen
      <4> QED BY <1>2, <4>1, <4>2, <4>3, <4>4, <4>5, ChosenCovers
    <3>8. \A v : Owed(v)' <=> Owed(v) BY <2>1 DEF Owed
    <3>9. PageChosen(task[g])' BY <3>1, <3>5, <3>6, <3>7, <3>8 DEF PageChosen
    <3> QED BY <3>1, <3>2, <3>9 DEF SendingOK, PageRead, Delivered, Emptied
  <2> QED BY <2>3, <2>4
<1>21. CASE Send(g)
  <2>1. /\ t.pc = "send" /\ t1.pc = "update" /\ t1.token = t.token /\ t1.from = t.from
        /\ t1.page = t.page /\ t1.next = t.next /\ UNCHANGED <<log, members>>
        /\ txns' = txns \cup {Transaction(g)}
    BY <1>5, <1>21 DEF Send, At, Goto
  <2>2. Fresh(task[g])' /\ Named(task[g])'
    BY <1>10, <2>1 DEF Working, UpdatePosition, At
  <2>3. \A v : Owed(v)' <=> Owed(v) BY <2>1 DEF Owed
  <2>4. PageChosen(task[g])' BY <1>4, <2>1, <2>3 DEF SendingOK, PageChosen
  <2>5. Delivered(task[g])'
    <3>1. Transaction(g) \in txns' /\ Transaction(g).evs = t.page
      BY <2>1 DEF Transaction
    <3>2. t.page \subseteq received' BY <3>1 DEF received
    <3> QED BY <2>1, <3>2 DEF Delivered
  <2> QED BY <2>1, <2>2, <2>4, <2>5 DEF SendingOK, PageRead, Emptied
<1>22. CASE UpdatePosition(g)
  <2>1. /\ t.pc = "update" /\ t1.pc = "refresh" /\ t1.token = t.token
        /\ t1.from = t.next /\ t1.page = {} /\ position' = t.next
    BY <1>5, <1>22 DEF UpdatePosition, At
  <2>2. Fresh(task[g])' BY <2>1 DEF Fresh
  <2> QED BY <1>4, <2>1, <2>2
          DEF SendingOK, Named, PageRead, PageChosen, Delivered, Emptied
<1>23. CASE Panic(g)
  <2>1. t1 = Done BY <1>5, <1>23 DEF Panic, Exit
  <2> QED BY <2>1, DoneOK
<1>24. CASE FailSend(g) BY <1>9, <1>11, <1>24 DEF FailSend, At
<1>25. CASE FailTransaction(g) BY <1>9, <1>11, <1>25 DEF FailTransaction, At
<1>26. CASE FailTry(g) BY <1>8, <1>26 DEF FailTry, At
<1> QED BY <1>12, <1>13, <1>14, <1>15, <1>16, <1>17, <1>18, <1>19, <1>20, <1>21, <1>22,
           <1>23, <1>24, <1>25, <1>26 DEF Progress, Sync, Fail

(* The other senders: as they were, ended with their process, or started.    *)
LEMMA OthersStep ==
  ASSUME TypeOK, [Next]_vars, NEW h \in Tasks
  PROVE  \/ Progress(h) \/ Fail(h)
         \/ task'[h] = task[h] \/ task'[h] = Done
         \/ At(h, "done") /\ task'[h] = [task[h] EXCEPT !.pc = "try"]
<1>1. DOMAIN task = Tasks BY DEF TypeOK
<1>2. ASSUME NEW p \in Procs, Exit(p) PROVE task'[h] \in {task[h], Done}
  BY <1>2 DEF Exit
<1>3. ASSUME NEW g \in Tasks, g # h, Progress(g) \/ Fail(g)
      PROVE  task'[h] \in {task[h], Done}
  <2>1. CASE Panic(g) BY <1>2, <2>1, ProcsAssumption DEF Panic
  <2>2. ASSUME NEW t, task' = [task EXCEPT ![g] = t] PROVE task'[h] = task[h]
    BY <1>1, <1>3, <2>2
  <2>3. CASE Fail(g) BY <2>2, <2>3 DEF Fail, FailTry, FailSend, FailTransaction, EndTry, Goto
  <2>4. CASE Progress(g) /\ ~Panic(g)
    <3>1. ASSUME NEW pc, Goto(g, pc) PROVE task'[h] = task[h]
      BY <1>1, <1>3, <3>1 DEF Goto
    <3>2. CASE Try(g) \/ Release(g) BY <1>1, <1>3, <3>1, <3>2 DEF Try, Release
    <3>3. CASE Register(g) \/ Wake(g) \/ Timer(g) \/ ContextDone(g) \/ Unregister(g)
               \/ RefreshLock(g) \/ Send(g)
      BY <3>1, <3>3 DEF Register, Wake, Timer, ContextDone, Unregister, RefreshLock, Send
    <3>4. CASE ReadPosition(g) \/ SyncMemberships(g) \/ UpdatePosition(g)
      BY <1>1, <1>3, <3>4 DEF ReadPosition, SyncMemberships, UpdatePosition
    <3>5. CASE \E r \in Rooms : PaginateRoom(g, r)
      BY <1>1, <1>3, <3>5 DEF PaginateRoom
    <3>6. CASE ChooseEvents(g) BY <1>1, <1>3, <3>6 DEF ChooseEvents, EndTry
    <3> QED BY <2>4, <3>2, <3>3, <3>4, <3>5, <3>6 DEF Progress, Sync
  <2> QED BY <1>3, <2>1, <2>3, <2>4
<1> DEFINE started == At(h, "done") /\ task'[h] = [task[h] EXCEPT !.pc = "try"]
<1>4. ASSUME NEW p \in Procs, Run(p) \/ Stop(p) \/ Crash(p)
      PROVE  task'[h] \in {task[h], Done} \/ started
  <2>1. CASE Dispatch(p)
    <3>1. CASE UNCHANGED task BY <3>1
    <3>2. ASSUME NEW g \in Tasks, At(g, "done"), Goto(g, "try")
          PROVE  task'[h] = task[h] \/ started
      <4>1. CASE g = h BY <1>1, <3>2, <4>1 DEF Goto
      <4>2. CASE g # h BY <1>1, <3>2, <4>2 DEF Goto
      <4> QED BY <4>1, <4>2
    <3> QED BY <2>1, <3>1, <3>2 DEF Dispatch
  <2>2. CASE FinishStop(p) \/ Crash(p) BY <1>2, <2>2 DEF FinishStop, Crash
  <2>3. CASE Start(p) \/ EndLoop(p) \/ Stop(p) BY <2>3 DEF Start, EndLoop, Stop
  <2> QED BY <1>4, <2>1, <2>2, <2>3 DEF Run
<1>5. CASE \/ \E r \in Rooms, kind \in Kinds : StoreEvent(r, kind)
           \/ Announce \/ LoseWake \/ ExpireAbandoned \/ ExpireSlow \/ UNCHANGED vars
  BY <1>5 DEF StoreEvent, Announce, LoseWake, ExpireAbandoned, ExpireSlow, Expire, vars
<1> QED BY <1>3, <1>4, <1>5 DEF Next

LEMMA SendersNext ==
  ASSUME DeliveryInv, [Next]_vars, NEW h \in Tasks
  PROVE  SendingOK(task[h])'
<1>1. TypeInv /\ TypeOK /\ SendingOK(task[h]) BY DEF DeliveryInv, TypeInv
<1>2. task[h] \in TaskUpTo(Len(log), tokens) BY <1>1, TasksGood DEF GoodTask
<1>3. CASE Progress(h) \/ Fail(h) BY <1>3, OwnStep
<1>4. CASE task'[h] = Done BY <1>4, DoneOK
<1>5. CASE At(h, "done") /\ task'[h] = [task[h] EXCEPT !.pc = "try"]
  <2>1. task'[h].pc = "try" /\ task'[h].page = task[h].page BY <1>2, <1>5 DEF TaskUpTo
  <2>2. task[h].page = {} BY <1>1, <1>5 DEF SendingOK, Emptied, At
  <2> QED BY <2>1, <2>2, RestingOK DEF Working, Named
<1>6. CASE task'[h] = task[h] /\ ~(Progress(h) \/ Fail(h))
  <2> DEFINE t == task[h]
  <2>1. PageRead(t)' /\ PageChosen(t)' /\ Delivered(t)'
    BY <1>1, <1>2, <1>6, PagesStay DEF SendingOK, PageRead, PageChosen, Delivered
  <2>2. Fresh(t)'
    <3>1. CASE Working(t)
      <4>1. ~UpdatePosition(h) BY <1>6 DEF Progress
      <4> QED BY <1>6, <3>1, <4>1, FreshStays
    <3>2. CASE ~Working(t) BY <1>6, <3>2 DEF Fresh, Working
    <3> QED BY <3>1, <3>2
  <2>3. Named(t)' /\ Emptied(t)' BY <1>1, <1>6 DEF SendingOK, Named, Emptied
  <2> QED BY <2>1, <2>2, <2>3 DEF SendingOK
<1> QED BY <1>1, <1>3, <1>4, <1>5, <1>6, OthersStep

LEMMA TokensNext ==
  ASSUME DeliveryInv, [Next]_vars
  PROVE  TokensDistinct'
<1>1. TypeInv /\ TypeOK /\ TokensDistinct BY DEF DeliveryInv, TypeInv
<1>2. /\ DOMAIN task = Tasks /\ tokens \in Nat
      /\ \A g \in Tasks : task[g] \in TaskUpTo(Len(log), tokens)
      /\ \A g \in Tasks : task[g].token \in 0..tokens
  BY <1>1, TasksGood DEF GoodTask, TaskUpTo
<1>3. ASSUME NEW h \in Tasks
      PROVE  \/ task'[h].token \in {0, task[h].token}
             \/ Try(h) /\ task'[h].token = tokens + 1
  <2> DEFINE kept == task'[h].token \in {0, task[h].token}
  <2>1. task[h] \in TaskUpTo(Len(log), tokens) BY <1>2
  <2>2. ASSUME NEW pc, Goto(h, pc) PROVE kept BY <1>2, <2>1, <2>2 DEF Goto, TaskUpTo
  <2>3. ASSUME NEW sent, EndTry(h, sent) PROVE kept
    BY <1>2, <2>3 DEF EndTry, Done
  <2>4. CASE task'[h] = task[h] \/ task'[h] = Done BY <2>4, DoneOK
  <2>5. CASE task'[h] = [task[h] EXCEPT !.pc = "try"] BY <2>1, <2>5 DEF TaskUpTo
  <2>6. CASE Fail(h) BY <2>2, <2>3, <2>6 DEF Fail, FailTry, FailSend, FailTransaction
  <2>7. CASE Try(h)
    <3>1. CASE IsLocked(lock) BY <2>2, <2>7, <3>1 DEF Try
    <3>2. CASE ~IsLocked(lock) BY <1>2, <2>1, <2>7, <3>2 DEF Try, TaskUpTo
    <3> QED BY <3>1, <3>2
  <2>8. CASE Register(h) \/ Wake(h) \/ Timer(h) \/ ContextDone(h) \/ Unregister(h)
             \/ RefreshLock(h) \/ Send(h)
    BY <2>2, <2>8 DEF Register, Wake, Timer, ContextDone, Unregister, RefreshLock, Send
  <2>9. CASE Release(h) BY <1>2, <2>9, DoneOK DEF Release
  <2>10. CASE Panic(h) BY <1>2, <2>10, DoneOK DEF Panic, Exit
  <2>11. CASE ReadPosition(h) \/ SyncMemberships(h) \/ UpdatePosition(h)
    BY <1>2, <2>1, <2>11 DEF ReadPosition, SyncMemberships, UpdatePosition, TaskUpTo
  <2>12. CASE \E r \in Rooms : PaginateRoom(h, r)
    BY <1>2, <2>1, <2>12 DEF PaginateRoom, TaskUpTo
  <2>13. CASE ChooseEvents(h)
    BY <1>2, <2>1, <2>3, <2>13 DEF ChooseEvents, TaskUpTo
  <2>14. CASE Progress(h)
    BY <2>7, <2>8, <2>9, <2>10, <2>11, <2>12, <2>13, <2>14 DEF Progress, Sync
  <2> QED BY <1>1, <2>4, <2>5, <2>6, <2>14, OthersStep
<1>4. ASSUME NEW g \in Tasks, NEW h \in Tasks, Try(g), Try(h),
             task'[g].token = tokens + 1, task'[h].token = tokens + 1
      PROVE  g = h
  <2> SUFFICES ASSUME g # h PROVE FALSE OBVIOUS
  <2>1. task'[h] = task[h]
    <3>1. ASSUME NEW t, task' = [task EXCEPT ![g] = t] PROVE task'[h] = task[h]
      BY <1>2, <3>1
    <3> QED BY <1>2, <1>4 DEF Try, Goto
  <2> QED BY <1>2, <1>4, <2>1
<1> SUFFICES ASSUME NEW g \in Tasks, NEW h \in Tasks,
                    task'[g].token = task'[h].token, task'[g].token # 0
             PROVE  g = h
  BY DEF TokensDistinct
<1> QED BY <1>1, <1>2, <1>3, <1>4 DEF TokensDistinct

(* The fencing token: who may write starts from the latest position, and has *)
(* sent every event still owed between it and the one it writes.             *)
LEMMA FencedWrite ==
  ASSUME DeliveryInv, NEW g \in Tasks, UpdatePosition(g)
  PROVE  /\ position'.upto \in position.upto..Len(log)
         /\ \A v \in 1..position'.upto : Owed(v) => v \in received
<1> DEFINE t == task[g]
<1>1. /\ t.pc = "update" /\ position' = t.next /\ Holds(lock, t.token)
  BY DEF UpdatePosition, At, MayWrite
<1>2. Fresh(t) /\ PageChosen(t) /\ Delivered(t) BY DEF DeliveryInv, SendingOK
<1>3. t.from = position BY <1>1, <1>2 DEF Fresh, Working
<1>4. /\ t.from.upto <= t.next.upto
      /\ \A v \in (t.from.upto + 1)..t.next.upto : Owed(v) => v \in received
  BY <1>1, <1>2 DEF PageChosen, Delivered
<1>5. TypeInv BY DEF DeliveryInv
<1>6. t \in TaskUpTo(Len(log), tokens) BY <1>5, TasksGood DEF GoodTask
<1>7. t.from.upto \in 0..Len(log) /\ t.next.upto \in 0..Len(log) /\ Len(log) \in Nat
  BY <1>5, <1>6, TasksGood DEF TaskUpTo, TokenUpTo
<1>8. 1..t.next.upto = 1..t.from.upto \cup (t.from.upto + 1)..t.next.upto
  BY <1>4, <1>7
<1> QED BY <1>1, <1>3, <1>4, <1>7, <1>8 DEF DeliveryInv, NothingSkipped

LEMMA NothingSkippedNext ==
  ASSUME DeliveryInv, [Next]_vars
  PROVE  NothingSkipped'
<1>1. TypeOK /\ NothingSkipped BY DEF DeliveryInv, TypeInv
<1>2. position.upto \in 0..Len(log) /\ Len(log) \in Nat BY <1>1 DEF TypeOK, Token
<1>3. 1..position.upto \subseteq Versions BY <1>2 DEF Versions
<1>4. CASE position' = position
  BY <1>1, <1>3, <1>4, OwedShrinks, ReceivedGrows DEF NothingSkipped
<1>5. ASSUME NEW g \in Tasks, UpdatePosition(g) PROVE NothingSkipped'
  <2>1. UNCHANGED <<log, members, txns>> BY <1>5 DEF UpdatePosition
  <2> QED BY <1>5, <2>1, FencedWrite DEF NothingSkipped, received, Owed
<1> QED BY <1>4, <1>5, PositionStep

LEMMA TxnsNext ==
  ASSUME DeliveryInv, [Next]_vars, NEW x \in txns'
  PROVE  TxnOK(x)'
<1>1. TypeInv /\ TypeOK /\ Len(log) \in Nat BY DEF DeliveryInv, TypeInv, TypeOK
<1>2. ASSUME x \in [id : Token, evs : SUBSET Versions], TxnOK(x) PROVE TxnOK(x)'
  <2>1. \A w \in x.evs : (x.id.upto + 1)..w \subseteq Versions
    BY <1>1, <1>2 DEF Versions, Token
  <2> QED BY <1>1, <1>2, <2>1, OwedShrinks DEF TxnOK
<1>3. CASE x \in txns
  <2>1. x \in [id : Token, evs : SUBSET Versions] BY <1>1, <1>3 DEF TypeOK
  <2> QED BY <1>2, <1>3, <2>1 DEF DeliveryInv
<1>4. ASSUME NEW g \in Tasks, At(g, "send"), x = Transaction(g) PROVE TxnOK(x)'
  <2> DEFINE t == task[g]
  <2>1. t \in TaskUpTo(Len(log), tokens) BY <1>1, TasksGood DEF GoodTask
  <2>2. x.id = t.from /\ x.evs = t.page BY <1>4 DEF Transaction
  <2>3. x \in [id : Token, evs : SUBSET Versions]
    BY <1>4, <2>1 DEF Transaction, TaskUpTo, TokenUpTo, Token, Versions
  <2>4. /\ t.page \subseteq (t.from.upto + 1)..t.next.upto
        /\ \A v \in (t.from.upto + 1)..t.next.upto : Owed(v) => v \in t.page
    BY <1>4 DEF DeliveryInv, SendingOK, PageChosen, At
  <2>5. t.from.upto \in Nat /\ t.next.upto \in Nat BY <1>1, <2>1 DEF TaskUpTo, TokenUpTo
  <2>6. \A w \in t.page : /\ t.from.upto < w
                          /\ (t.from.upto + 1)..w \subseteq (t.from.upto + 1)..t.next.upto
    BY <2>4, <2>5
  <2>7. TxnOK(x) BY <2>2, <2>4, <2>6 DEF TxnOK
  <2> QED BY <1>2, <2>3, <2>7
<1> QED BY <1>3, <1>4, TxnsStep

LEMMA DeliveryNext ==
  ASSUME DeliveryInv, [Next]_vars
  PROVE  DeliveryInv'
<1>1. TypeInv' BY TypeNext DEF DeliveryInv
<1>2. \A t \in txns' : TxnOK(t)' BY TxnsNext
<1>3. \A g \in Tasks : SendingOK(task[g])' BY SendersNext
<1> QED BY <1>1, <1>2, <1>3, TokensNext, NothingSkippedNext DEF DeliveryInv

LEMMA DeliveryInit == Init => DeliveryInv
<1>1. ASSUME Init PROVE DeliveryInv
  <2>1. TypeInv BY <1>1, TypeInit
  <2>2. \A g \in Tasks : task[g] = Done BY <1>1 DEF Init
  <2>3. \A g \in Tasks : SendingOK(task[g]) /\ task[g].token = 0 BY <2>2, DoneOK
  <2>4. txns = {} /\ position.upto = 0 BY <1>1 DEF Init, Zero
  <2> QED BY <2>1, <2>3, <2>4 DEF DeliveryInv, TokensDistinct, NothingSkipped
<1> QED BY <1>1

LEMMA DeliveryAlways == Spec => []DeliveryInv
  BY DeliveryInit, DeliveryNext, PTL DEF Spec

LEMMA SameIDStep ==
  ASSUME DeliveryInv
  PROVE  SameIDSamePrefix
<1> SUFFICES ASSUME NEW t \in txns, NEW u \in txns, t.id = u.id,
                    NEW v \in StillOwed(t), v \notin StillOwed(u),
                    NEW w \in StillOwed(u), w \notin StillOwed(t)
             PROVE  FALSE
  BY DEF SameIDSamePrefix
<1>1. TxnOK(t) /\ TxnOK(u) BY DEF DeliveryInv
<1>2. t.id \in Token /\ t.evs \subseteq Versions /\ u.evs \subseteq Versions
  BY DEF DeliveryInv, TypeInv, TypeOK
<1>3. /\ v \in t.evs /\ Owed(v) /\ v \notin u.evs
      /\ w \in u.evs /\ Owed(w) /\ w \notin t.evs
  BY DEF StillOwed
<1>4. v \in Nat /\ w \in Nat /\ t.id.upto \in Nat BY <1>2, <1>3 DEF Versions, Token
<1>5. t.id.upto < v /\ t.id.upto < w BY <1>1, <1>3 DEF TxnOK
<1>6. CASE v <= w
  <2>1. v \in (u.id.upto + 1)..w BY <1>4, <1>5, <1>6
  <2> QED BY <1>1, <1>3, <2>1 DEF TxnOK
<1>7. CASE w <= v
  <2>1. w \in (t.id.upto + 1)..v BY <1>4, <1>5, <1>7
  <2> QED BY <1>1, <1>3, <2>1 DEF TxnOK
<1> QED BY <1>4, <1>6, <1>7

(* Of the events still owed, two transactions of one ID are each a prefix of *)
(* the other, however often the sender was late, stopped or replaced.        *)
THEOREM SameIDCorrect == Spec => []SameIDSamePrefix
  BY DeliveryAlways, SameIDStep, PTL

-----------------------------------------------------------------------------
LEMMA PromiseInit == Init => Promise!Init
<1>1. ASSUME Init PROVE Promise!Init
  <2>1. log = <<>> /\ txns = {} /\ position.upto = 0 BY <1>1 DEF Init, Zero
  <2>2. Len(log) = 0 /\ Versions = {} BY <2>1 DEF Versions
  <2>3. received = {} BY <2>1 DEF received
  <2> QED BY <2>1, <2>2, <2>3 DEF Promise!Init
<1> QED BY <1>1

(* Every step of the senders is a step of the delivery, or none.             *)
LEMMA PromiseStep ==
  ASSUME DeliveryInv, [Next]_vars
  PROVE  [Promise!Next]_(Promise!delivery)
<1> DEFINE owed == {v \in Versions : Owed(v)}
<1>1. TypeOK /\ Len(log) \in Nat BY DEF DeliveryInv, TypeInv, TypeOK
<1>2. ASSUME NEW r \in Rooms, NEW kind \in Kinds, StoreEvent(r, kind)
      PROVE  Promise!Next
  <2>1. Len(log') = Len(log) + 1 BY <1>1, <1>2, LogGrows, KindsAssumption
  <2>2. Versions' = Versions \cup {Len(log) + 1} BY <1>1, <2>1 DEF Versions
  <2>3. owed' \in SUBSET (owed \cup {Len(log) + 1}) BY <1>1, <2>2, OwedShrinks
  <2>4. received' = received /\ position' = position BY <1>2 DEF StoreEvent, received
  <2> QED BY <2>1, <2>3, <2>4 DEF Promise!Next, Promise!Store
<1>3. CASE UNCHANGED <<log, members>>
  <2>1. Len(log') = Len(log) /\ owed' = owed BY <1>3 DEF Versions, Owed
  <2>2. CASE UNCHANGED <<txns, position>>
    BY <2>1, <2>2 DEF Promise!delivery, received
  <2>3. ASSUME NEW g \in Tasks, txns' = txns \cup {Transaction(g)}, position' = position
        PROVE  Promise!Next
    <3>1. task[g].page \in SUBSET (1..Len(log)) BY <1>1 DEF TypeOK, Task, Versions
    <3>2. received' = received \cup task[g].page
      <4>1. Transaction(g).evs = task[g].page BY DEF Transaction
      <4>2. {t.evs : t \in txns'} = {t.evs : t \in txns} \cup {task[g].page}
        BY <2>3, <4>1
      <4> QED BY <4>2 DEF received
    <3> QED BY <2>1, <2>3, <3>1, <3>2 DEF Promise!Next, Promise!Send
  <2>4. ASSUME NEW g \in Tasks, UpdatePosition(g) PROVE Promise!Next
    <3>1. received' = received BY <2>4 DEF UpdatePosition, received
    <3>2. /\ position'.upto \in position.upto..Len(log)
          /\ \A v \in owed : v <= position'.upto => v \in received
      <4>1. \A v \in Versions : v \in Nat /\ v >= 1 BY <1>1 DEF Versions
      <4> QED BY <1>1, <2>4, <4>1, FencedWrite
    <3> QED BY <2>1, <3>1, <3>2 DEF Promise!Next, Promise!Move
  <2>5. \/ UNCHANGED <<txns, position>>
        \/ \E g \in Tasks : UpdatePosition(g)
        \/ \E g \in Tasks : txns' = txns \cup {Transaction(g)} /\ position' = position
    <3>1. ASSUME NEW g \in Tasks, UpdatePosition(g) PROVE txns' = txns
      BY <3>1 DEF UpdatePosition
    <3> QED BY <3>1, PositionStep, TxnsStep
  <2> QED BY <2>2, <2>3, <2>4, <2>5
<1> QED BY <1>2, <1>3, LogStep

(* The sender keeps its promise: its position only moves forward, and never  *)
(* past an event that is owed to the destination and has not reached it,     *)
(* whatever crashes, stops, takeovers, failures and lost wake-ups happen.    *)
THEOREM DeliveryImplemented == Spec => ImplementsDelivery
<1>1. DeliveryInv /\ [Next]_vars => [Promise!Next]_(Promise!delivery) BY PromiseStep
<1> QED BY <1>1, DeliveryAlways, PromiseInit, PTL DEF Spec, ImplementsDelivery, Promise!Spec

=============================================================================
