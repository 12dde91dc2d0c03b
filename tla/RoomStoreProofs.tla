--------------------------- MODULE RoomStoreProofs ---------------------------
(* Theorems about the send engine, for every value of its constants.        *)
EXTENDS RoomStore, TLAPS, SequenceTheorems, FiniteSetTheorems,
        WellFoundedInduction

-----------------------------------------------------------------------------
(* Sequences.                                                              *)

LEMMA AppendSeq ==
  ASSUME NEW S, NEW s \in Seq(S), NEW x \in S
  PROVE  /\ Append(s, x) \in Seq(S) /\ Len(Append(s, x)) = Len(s) + 1
         /\ \A i \in 1..Len(s) : Append(s, x)[i] = s[i]
         /\ Append(s, x)[Len(s) + 1] = x
  BY AppendProperties

LEMMA HeadTailSeq ==
  ASSUME NEW S, NEW s \in Seq(S), s # <<>>
  PROVE  /\ Head(s) \in S /\ Tail(s) \in Seq(S) /\ Len(s) = Len(Tail(s)) + 1
         /\ Head(s) = s[1] /\ \A i \in 1..Len(Tail(s)) : Tail(s)[i] = s[i + 1]
  BY HeadTailProperties, EmptySeq

-----------------------------------------------------------------------------
(* Creating an event: what referred to events that exist still does.       *)

Grows == Len(ev) \in Nat /\ Len(ev') \in Nat /\ Len(ev) <= Len(ev')

LEMMA KnownGrows ==
  ASSUME Grows
  PROVE  /\ Known \subseteq Known' /\ States \subseteq States'
         /\ Seq(Known) \subseteq Seq(Known)'
         /\ Flight \subseteq Flight' /\ Accepted \subseteq Accepted'
         /\ Seq(Accepted) \subseteq Seq(Accepted)'
<1>1. Known \subseteq Known' BY DEF Grows, Known
<1>2. States \subseteq States' BY DEF Grows, States
<1>3. Seq(Known) \subseteq Seq(Known)' BY <1>1, SeqMonotonic
<1>4. Flight \subseteq Flight' BY <1>1, <1>3 DEF Flight
<1>5. Accepted \subseteq Accepted' BY <1>1, <1>2 DEF Accepted
<1>6. Seq(Accepted) \subseteq Seq(Accepted)' BY <1>5, SeqMonotonic
<1> QED BY <1>1, <1>2, <1>3, <1>4, <1>5, <1>6

LEMMA DatabaseGrows ==
  ASSUME Grows, DatabaseOK, UNCHANGED db
  PROVE  DatabaseOK'
<1>1. log' \in Seq([id : Known', shown : BOOLEAN])
  <2>1. [id : Known, shown : BOOLEAN] \subseteq [id : Known', shown : BOOLEAN]
    BY KnownGrows
  <2> QED BY <2>1, SeqMonotonic DEF DatabaseOK, db
<1> QED BY <1>1, KnownGrows DEF DatabaseOK, db

LEMMA FlightsGrow ==
  ASSUME Grows, flights \in [Flights -> Flight]
  PROVE  flights \in [Flights -> Flight']
  BY KnownGrows

LEMMA TransactionGrows ==
  ASSUME Grows, TransactionOK, UNCHANGED work
  PROVE  TransactionOK'
<1>1. view' \in Seq(States')
  <2>1. States \subseteq States' BY KnownGrows
  <2> QED BY <2>1, SeqMonotonic DEF TransactionOK, work
<1>2. accepted' \in Seq(Accepted') /\ todo' \in Seq(Known')
  BY KnownGrows DEF TransactionOK, work
<1> QED BY <1>1, <1>2, KnownGrows DEF TransactionOK, work

LEMMA NewEvent ==
  ASSUME EventsOK, Len(ev) < MaxEvents, NEW e \in Event,
         RefersBack(e, Len(ev) + 1), ev' = Append(ev, e)
  PROVE  EventsOK' /\ Grows
<1>1. /\ ev' \in Seq(Event) /\ Len(ev') = Len(ev) + 1
      /\ \A i \in 1..Len(ev) : ev'[i] = ev[i]
      /\ ev'[Len(ev) + 1] = e
  BY AppendSeq DEF EventsOK
<1>2. Len(ev) \in Nat BY LenProperties DEF EventsOK
<1>3. \A i \in Known' : RefersBack(ev'[i], i)
  BY <1>1, <1>2 DEF EventsOK, Known
<1>4. ev' \in Seq(Event)' /\ Len(ev') <= MaxEvents
  BY <1>1, <1>2, BoundsAssumption DEF Event, Relates
<1>5. EventsOK' BY <1>3, <1>4 DEF EventsOK
<1> QED BY <1>1, <1>2, <1>5 DEF Grows

LEMMA AppliedTyped ==
  ASSUME NEW n \in Nat, NEW m \in [Users -> 0..n], NEW e, NEW id \in 0..n
  PROVE  Applied(m, e, id) \in [Users -> 0..n]
  BY DEF Applied

LEMMA AfterTyped ==
  ASSUME EventsOK, NEW p \in Known
  PROVE  After(p) \in States /\ \A u \in Users : After(p)[u] \in 0..p
<1>1. ev[p].auth \in [Users -> 0..(p - 1)] /\ p \in 1..Len(ev) /\ Len(ev) \in Nat
  BY LenProperties DEF EventsOK, RefersBack, Known
<1>2. ev[p].auth \in [Users -> 0..p] /\ p \in 0..p /\ p \in Nat BY <1>1
<1>3. After(p) \in [Users -> 0..p] BY <1>2, AppliedTyped DEF After
<1> QED BY <1>1, <1>3 DEF States

LEMMA RemoteEventTyped ==
  ASSUME EventsOK, NEW k \in EventKinds, NEW s \in Users, NEW t \in Users,
         NEW r \in 0..Len(ev), k = "react" => r # 0,
         NEW P \in SUBSET Known, NEW p \in P
  PROVE  /\ RemoteEvent(k, s, t, r, P, p) \in Event
         /\ RefersBack(RemoteEvent(k, s, t, r, P, p), Len(ev) + 1)
<1>1. After(p) \in States BY AfterTyped
<1>2. Len(ev) \in Nat /\ Len(ev) <= MaxEvents BY LenProperties DEF EventsOK
<1> DEFINE e == RemoteEvent(k, s, t, r, P, p)
<1>3. e \in [kind : EventKinds, sender : Users, target : Users, rel : 0..MaxEvents,
             prevs : SUBSET Ids, auth : StateMap, given : BOOLEAN]
  BY <1>1, <1>2, BoundsAssumption DEF RemoteEvent, States, StateMap, Known, Ids
<1>4. Relates(e) BY DEF RemoteEvent, Relates
<1>5. RefersBack(e, Len(ev) + 1)
  BY <1>1, <1>2 DEF RemoteEvent, RefersBack, States, Known
<1> QED BY <1>3, <1>4, <1>5 DEF Event

-----------------------------------------------------------------------------
(* The versioned state index.                                              *)

LEMMA MaxExists ==
  ASSUME NEW n \in Nat, NEW S \in SUBSET (1..n), S # {}
  PROVE  \E m \in S : \A w \in S : w <= m
<1> DEFINE T == {n - w : w \in S}
<1>1. T \subseteq Nat
  <2>1. \A w \in S : n - w \in Nat OBVIOUS
  <2> QED BY <2>1
<1>2. T # {} OBVIOUS
<1>3. PICK x \in T : \A y \in T : <<y, x>> \notin OpToRel(<, Nat)
  <2> HIDE DEF T
  <2> QED BY <1>1, <1>2, WFMin, NatLessThanWellFounded
<1>4. \A y \in T : ~(y < x) BY <1>1, <1>3 DEF OpToRel
<1>5. PICK m \in S : x = n - m BY <1>3
<1>6. \A w \in S : n - w \in T OBVIOUS
<1>7. \A w \in S : ~(n - w < n - m) BY <1>4, <1>5, <1>6
<1> QED BY <1>7

LEMMA NewestIn ==
  ASSUME NEW n \in Nat, NEW S \in SUBSET (1..n), S # {}
  PROVE  Newest(S) \in S /\ \A w \in S : w <= Newest(S)
  BY MaxExists DEF Newest

LEMMA NewestChange ==
  ASSUME NEW v \in Nat, NEW u \in Users, Changes(v, u) # {}
  PROVE  /\ Newest(Changes(v, u)) \in 1..v /\ IsMember(Newest(Changes(v, u)), u)
         /\ \A w \in Changes(v, u) : w <= Newest(Changes(v, u))
<1>1. Changes(v, u) \in SUBSET (1..v) BY DEF Changes
<1>2. /\ Newest(Changes(v, u)) \in Changes(v, u)
      /\ \A w \in Changes(v, u) : w <= Newest(Changes(v, u))
  BY <1>1, NewestIn
<1> QED BY <1>2 DEF Changes

(* Nothing that was in the event set or the log changes.                   *)
Kept == /\ Len(log) \in Nat /\ Len(log') \in Nat /\ Len(log) <= Len(log')
        /\ \A i \in Known : ev'[i] = ev[i]
        /\ \A w \in 1..Len(log) : log'[w] = log[w]

LEMMA LogTyped ==
  ASSUME DatabaseOK
  PROVE  /\ Len(log) \in Nat /\ DOMAIN log = 1..Len(log)
         /\ \A w \in 1..Len(log) : log[w].id \in Known /\ log[w].shown \in BOOLEAN
<1> DEFINE R == [id : Known, shown : BOOLEAN]
<1>1. log \in Seq(R) BY DEF DatabaseOK
<1>2. \A w \in 1..Len(log) : log[w] \in R BY <1>1, ElementOfSeq
<1> QED BY <1>1, <1>2, LenProperties

(* A past state does not change.                                           *)
LEMMA StateKept ==
  ASSUME DatabaseOK, Kept, NEW v \in 0..Len(log)
  PROVE  StateAt(v)' = StateAt(v)
<1>1. \A u \in Users, w \in 1..v : IsMember(w, u)' = IsMember(w, u)
  BY LogTyped DEF Kept, IsMember
<1>2. \A u \in Users : Changes(v, u)' = Changes(v, u) BY <1>1 DEF Changes
<1>3. \A u \in Users : Newest(Changes(v, u))' = Newest(Changes(v, u))
  BY <1>2 DEF Newest
<1>4. ASSUME NEW u \in Users
      PROVE  StateAt(v)'[u] = StateAt(v)[u]
  <2>1. CASE Changes(v, u) = {} BY <2>1, <1>2 DEF StateAt
  <2>2. CASE Changes(v, u) # {}
    <3>1. Newest(Changes(v, u)) \in 1..v
      BY <2>2, LogTyped, NewestChange
    <3>2. log'[Newest(Changes(v, u))] = log[Newest(Changes(v, u))]
      BY <3>1 DEF Kept
    <3> QED BY <2>2, <1>2, <1>3, <3>2 DEF StateAt
  <2> QED BY <2>1, <2>2
<1> QED BY <1>4 DEF StateAt

LEMMA StateTyped ==
  ASSUME DatabaseOK, NEW v \in 0..Len(log)
  PROVE  StateAt(v) \in States
<1>1. v \in Nat BY LogTyped
<1>2. ASSUME NEW u \in Users
      PROVE  StateAt(v)[u] \in 0..Len(ev)
  <2>1. CASE Changes(v, u) = {}
    <3>1. StateAt(v)[u] = 0 BY <2>1 DEF StateAt
    <3> QED BY <3>1
  <2>2. CASE Changes(v, u) # {}
    <3>1. log[Newest(Changes(v, u))].id \in Known
      BY <1>1, <2>2, LogTyped, NewestChange
    <3> QED BY <2>2, <3>1 DEF StateAt, Known
  <2> QED BY <2>1, <2>2
<1> QED BY <1>2 DEF StateAt, States

LEMMA LogGrows ==
  ASSUME DatabaseOK, NEW id \in Known, NEW b \in BOOLEAN, UNCHANGED ev,
         log' = Append(log, [id |-> id, shown |-> b])
  PROVE  /\ Kept /\ Len(log') = Len(log) + 1
         /\ log'[Len(log) + 1] = [id |-> id, shown |-> b]
         /\ log' \in Seq([id : Known, shown : BOOLEAN])
<1> DEFINE R == [id : Known, shown : BOOLEAN]
<1>1. log \in Seq(R) /\ [id |-> id, shown |-> b] \in R BY DEF DatabaseOK
<1> HIDE DEF R
<1>2. /\ log' \in Seq(R) /\ Len(log') = Len(log) + 1
      /\ \A i \in 1..Len(log) : log'[i] = log[i]
      /\ log'[Len(log) + 1] = [id |-> id, shown |-> b]
  BY <1>1, AppendSeq
<1> QED BY <1>2, LogTyped DEF Kept, R

LEMMA ChangesAppended ==
  ASSUME DatabaseOK, Kept, NEW n \in Nat, Len(log) = n, Len(log') = n + 1,
         NEW u \in Users
  PROVE  Changes(n + 1, u)' =
           IF IsMember(n + 1, u)' THEN Changes(n, u) \cup {n + 1}
                                      ELSE Changes(n, u)
<1>1. \A w \in 1..n : IsMember(w, u)' = IsMember(w, u)
  BY LogTyped DEF Kept, IsMember
<1>2. 1..(n + 1) = (1..n) \cup {n + 1} OBVIOUS
<1> QED BY <1>1, <1>2 DEF Changes

(* A version not in the room's indices does not change its state.          *)
LEMMA StateHidden ==
  ASSUME DatabaseOK, NEW n \in Nat, Len(log) = n, NEW id \in Known, UNCHANGED ev,
         log' = Append(log, [id |-> id, shown |-> FALSE])
  PROVE  StateAt(n + 1)' = StateAt(n)
<1>1. /\ Kept /\ Len(log') = n + 1
      /\ log'[n + 1] = [id |-> id, shown |-> FALSE]
  BY LogGrows
<1>2. \A u \in Users : ~IsMember(n + 1, u)' BY <1>1 DEF IsMember
<1>3. \A u \in Users : Changes(n + 1, u)' = Changes(n, u)
  BY <1>1, <1>2, ChangesAppended
<1>4. ASSUME NEW u \in Users
      PROVE  StateAt(n + 1)'[u] = StateAt(n)[u]
  <2>1. CASE Changes(n, u) = {} BY <2>1, <1>3 DEF StateAt
  <2>2. CASE Changes(n, u) # {}
    <3>1. Newest(Changes(n, u)) \in 1..n
      BY <2>2, LogTyped, NewestChange
    <3>2. Newest(Changes(n + 1, u))' = Newest(Changes(n, u))
      BY <1>3 DEF Newest
    <3> QED BY <1>1, <1>3, <2>2, <3>1, <3>2 DEF StateAt, Kept
  <2> QED BY <2>1, <2>2
<1> QED BY <1>4 DEF StateAt

(* One in them changes it as its event does.                               *)
LEMMA StateShown ==
  ASSUME EventsOK, DatabaseOK, NEW n \in Nat, Len(log) = n, NEW id \in Known, UNCHANGED ev,
         log' = Append(log, [id |-> id, shown |-> TRUE])
  PROVE  StateAt(n + 1)' = Applied(StateAt(n), ev[id], id)
<1>1. /\ Kept /\ Len(log') = n + 1
      /\ log'[n + 1] = [id |-> id, shown |-> TRUE]
  BY LogGrows, LogTyped
<1> DEFINE e == ev[id]
<1>2. \A u \in Users : IsMember(n + 1, u)' <=> e.kind \in MemberKinds /\ e.target = u
  BY <1>1 DEF IsMember
<1>3. StateAt(n) \in States BY <1>1, StateTyped
<1>4. ASSUME NEW u \in Users
      PROVE  StateAt(n + 1)'[u] = Applied(StateAt(n), e, id)[u]
  <2>1. CASE e.kind \in MemberKinds /\ e.target = u
    <3>1. Changes(n + 1, u)' = Changes(n, u) \cup {n + 1}
      BY <1>1, <1>2, <2>1, ChangesAppended
    <3>2. \A w \in Changes(n, u) : w \in 1..n BY DEF Changes
    <3>3. Newest(Changes(n + 1, u))' = n + 1
      BY <1>1, <3>1, <3>2 DEF Newest
    <3>4. StateAt(n + 1)'[u] = id BY <1>1, <3>1, <3>3 DEF StateAt
    <3> QED BY <1>3, <2>1, <3>4 DEF Applied, States
  <2>2. CASE ~(e.kind \in MemberKinds /\ e.target = u)
    <3>1. Changes(n + 1, u)' = Changes(n, u)
      BY <1>1, <1>2, <2>2, ChangesAppended
    <3>2. Newest(Changes(n + 1, u))' = Newest(Changes(n, u))
      BY <3>1 DEF Newest
    <3>3. StateAt(n + 1)'[u] = StateAt(n)[u]
      <4>1. CASE Changes(n, u) = {} BY <3>1, <4>1 DEF StateAt
      <4>2. CASE Changes(n, u) # {}
        <5>1. Newest(Changes(n, u)) \in 1..n
          BY <4>2, LogTyped, NewestChange
        <5> QED BY <1>1, <3>1, <3>2, <4>2, <5>1 DEF StateAt, Kept
      <4> QED BY <4>1, <4>2
    <3> QED BY <1>3, <2>2, <3>3 DEF Applied, States
  <2> QED BY <2>1, <2>2
<1>5. Applied(StateAt(n), e, id) \in [Users -> 0..Len(ev)]
  BY <1>3, AppliedTyped, LenProperties DEF Known, States, EventsOK
<1> QED BY <1>4, <1>5 DEF StateAt

-----------------------------------------------------------------------------
(* Type correctness.  TypeOK is not inductive alone: that events fit their  *)
(* bound needs what a local send still has to prepare.  No soft failed      *)
(* event is ever stored: BeginStore is not taken with one.                  *)

PreparedFits == phase = "prepare" => Len(ev) + Len(partials) <= MaxEvents
StoreReady   == phase = "store" =>
                  \A i \in 1..Len(accepted) : ~accepted[i].soft
TypeInv      == TypeOK /\ PreparedFits /\ StoreReady

LEMMA SameEvents ==
  ASSUME UNCHANGED ev
  PROVE  /\ Known' = Known /\ States' = States /\ Flight' = Flight
         /\ Accepted' = Accepted /\ (EventsOK => EventsOK')
<1>1. Known' = Known /\ States' = States BY DEF Known, States
<1>2. Flight' = Flight BY <1>1 DEF Flight
<1>3. Accepted' = Accepted BY <1>1 DEF Accepted
<1>4. EventsOK => EventsOK' BY <1>1 DEF EventsOK, Event, Relates, RefersBack
<1> QED BY <1>1, <1>2, <1>3, <1>4

LEMMA SameDatabase ==
  ASSUME UNCHANGED <<ev, db>>, DatabaseOK
  PROVE  DatabaseOK'
  BY SameEvents DEF DatabaseOK, db

(* A transaction begins.                                                   *)
LEMMA Taken ==
  ASSUME TypeInv, NEW o \in Flights \cup {LocalSend}, NEW b \in Seq(Known),
         NEW p \in {"prepare", "step4", "step5", "step6"}, Take(o, p, b),
         UNCHANGED <<ev, db, flights>>, partials' \in Seq(PartialEvent),
         p = "prepare" => Len(ev) + Len(partials') <= MaxEvents
  PROVE  TypeInv'
<1>1. EventsOK' /\ DatabaseOK' /\ flights' \in [Flights -> Flight']
  BY SameEvents, SameDatabase DEF TypeInv, TypeOK
<1>2. TransactionOK'
  <2>1. <<>> \in Seq(Accepted') BY EmptySeq
  <2>2. view' \in Seq(States') /\ shares' \in [Ids -> 0..Len(view')]
    BY EmptySeq DEF Take
  <2>3. auth' \in States' /\ heads' \subseteq Known'
    BY SameEvents DEF Take, TypeInv, TypeOK, DatabaseOK
  <2> QED BY <2>1, <2>2, <2>3, SameEvents DEF Take, TransactionOK
<1>3. PreparedFits' /\ StoreReady' BY DEF Take, PreparedFits, StoreReady
<1> QED BY <1>1, <1>2, <1>3 DEF TypeInv, TypeOK

(* A transaction is over.                                                  *)
LEMMA Released ==
  ASSUME TypeInv, Release, UNCHANGED <<ev, db>>, flights' \in [Flights -> Flight]
  PROVE  TypeInv'
<1>1. EventsOK' /\ DatabaseOK' /\ flights' \in [Flights -> Flight']
  BY SameEvents, SameDatabase DEF TypeInv, TypeOK
<1>2. TransactionOK'
  <2>1. <<>> \in Seq(Accepted') /\ <<>> \in Seq(Known') /\ <<>> \in Seq(PartialEvent)
    BY EmptySeq
  <2>2. Len(ev') \in Nat BY LenProperties DEF TypeInv, TypeOK, EventsOK
  <2>3. Nobody \in States' BY <2>2 DEF Nobody, States
  <2>4. view' \in Seq(States') /\ shares' \in [Ids -> 0..Len(view')]
    BY EmptySeq DEF Release
  <2> QED BY <2>1, <2>3, <2>4 DEF Release, TransactionOK
<1>3. PreparedFits' /\ StoreReady' BY DEF Release, PreparedFits, StoreReady
<1> QED BY <1>1, <1>2, <1>3 DEF TypeInv, TypeOK

(* No flight in hand.                                                      *)
LEMMA IdleTyped ==
  ASSUME TypeInv
  PROVE  Idle \in Flight
  BY EmptySeq DEF Idle, Flight

LEMMA DroppedTyped ==
  ASSUME TypeInv, NEW f
  PROVE  [flights EXCEPT ![f] = Idle] \in [Flights -> Flight]
  BY IdleTyped DEF TypeInv, TypeOK

LEMMA TypeRelease ==
  ASSUME TypeInv, MissingAuthEvent \/ Retry \/ AbortStore \/ Commit \/ Crash
  PROVE  TypeInv'
<1>1. flights' \in [Flights -> Flight]
  BY DroppedTyped, IdleTyped
     DEF MissingAuthEvent, Retry, AbortStore, Commit, Crash, TypeInv, TypeOK
<1>2. Release /\ UNCHANGED <<ev, db>>
  BY DEF MissingAuthEvent, Retry, AbortStore, Commit, Crash
<1> QED BY <1>1, <1>2, Released

LEMMA AcceptedTyped ==
  ASSUME TypeInv
  PROVE  /\ Len(accepted) \in Nat /\ DOMAIN accepted = 1..Len(accepted)
         /\ \A i \in 1..Len(accepted) : accepted[i] \in Accepted
  BY LenProperties, ElementOfSeq DEF TypeInv, TypeOK, TransactionOK

LEMMA TypeEndRead ==
  ASSUME TypeInv, NEW p, NEW next \in {"step5", "step6"}, EndRead(p, next)
  PROVE  TypeInv'
<1> DEFINE b == [i \in 1..Len(accepted) |-> accepted[i].id]
<1>1. b \in Seq(Known)
  <2>1. \A i \in 1..Len(accepted) : accepted[i].id \in Known
    BY AcceptedTyped DEF Accepted
  <2> QED BY <2>1, AcceptedTyped, IsASeq
<1>2. Goto(owner, next, b) \in [Flights -> Flight]
  <2> HIDE DEF b
  <2> QED BY <1>1 DEF Goto, Flight, TypeInv, TypeOK
<1>3. flights' \in [Flights -> Flight]
  BY <1>2, DroppedTyped DEF EndRead
<1> QED BY <1>3, Released DEF EndRead

LEMMA TypeTake ==
  ASSUME TypeInv, CreateRoom \/ SendLocal
  PROVE  TypeInv'
<1>1. PICK ps \in Seq(PartialEvent) : BeginLocal(ps)
  <2>1. CASE CreateRoom
    <3>1. Partial("create", Creator, Creator, 0) \in PartialEvent
          /\ Partial("join", Creator, Creator, 0) \in PartialEvent
      BY UsersAssumption, BoundsAssumption
         DEF Partial, PartialEvent, Relates, EventKinds, StateKinds, MemberKinds
    <3>2. CreateBatch \in Seq(PartialEvent) BY <3>1 DEF CreateBatch
    <3> QED BY <2>1, <3>2 DEF CreateRoom
  <2>2. CASE SendLocal
    <3>1. PICK q \in ClientPartials : BeginLocal(<<q>>) BY <2>2 DEF SendLocal
    <3>2. q.kind = "react" => q.rel # 0
      <4>1. \A v \in DOMAIN log : log[v].id # 0
        BY LogTyped DEF Known, TypeInv, TypeOK
      <4> QED BY <3>1, <4>1 DEF ClientPartials, Shown
    <3>3. q \in PartialEvent
      BY <3>1, <3>2, KindsAssumption DEF ClientPartials, PartialEvent, Relates
    <3>4. <<q>> \in Seq(PartialEvent) BY <3>3
    <3> QED BY <3>1, <3>4
  <2> QED BY <2>1, <2>2
<1>2. <<>> \in Seq(Known) BY EmptySeq
<1> QED BY <1>1, <1>2, Taken DEF BeginLocal

LEMMA TypeTakeFlight ==
  ASSUME TypeInv, NEW f \in Flights, BeginStep4(f) \/ BeginStep5(f) \/ BeginStep6(f)
  PROVE  TypeInv'
<1>1. flights[f].batch \in Seq(Known) BY DEF TypeInv, TypeOK, Flight
<1>2. UNCHANGED <<ev, db, flights>> /\ partials' \in Seq(PartialEvent)
  BY DEF BeginStep4, BeginStep5, BeginStep6, TypeInv, TypeOK, TransactionOK
<1>3. \E p \in {"step4", "step5", "step6"} : Take(f, p, flights[f].batch)
  BY DEF BeginStep4, BeginStep5, BeginStep6
<1> QED BY <1>1, <1>2, <1>3, Taken

-----------------------------------------------------------------------------
(* Steps outside the transactions.                                         *)

LEMMA TypeFlightsOnly ==
  ASSUME TypeInv, UNCHANGED <<ev, db, work>>, flights' \in [Flights -> Flight]
  PROVE  TypeInv'
<1>1. EventsOK' /\ DatabaseOK' /\ flights' \in [Flights -> Flight']
  BY SameEvents, SameDatabase DEF TypeInv, TypeOK
<1>2. TransactionOK' BY SameEvents DEF TypeInv, TypeOK, TransactionOK, work
<1>3. PreparedFits' /\ StoreReady'
  BY DEF TypeInv, PreparedFits, StoreReady, work
<1> QED BY <1>1, <1>2, <1>3 DEF TypeInv, TypeOK

LEMMA AbroadKnown ==
  ASSUME TypeInv
  PROVE  Abroad \subseteq Known
  BY DEF Abroad, Known

LEMMA StartTyped ==
  ASSUME Len(ev) \in Nat, NEW b \in Seq(Known), NEW skip \in BOOLEAN
  PROVE  Start(b, skip) \in Flight
  BY DEF Start, Idle, Flight

LEMMA TypeReceive ==
  ASSUME TypeInv, NEW f \in Flights, ReceivePDUs(f) \/ RefuseBatch(f)
  PROVE  TypeInv'
<1>1. CASE RefuseBatch(f)
  BY <1>1, DroppedTyped, TypeFlightsOnly DEF RefuseBatch
<1>2. CASE ReceivePDUs(f)
  <2>1. PICK b \in Batches : flights' = [flights EXCEPT ![f] = Start(b, FALSE)]
    BY <1>2 DEF ReceivePDUs
  <2>2. PICK n \in 1..MaxBatch : b \in [1..n -> Known]
    BY <2>1, AbroadKnown DEF Batches
  <2>3. b \in Seq(Known)
    <3>1. n \in Nat BY BoundsAssumption
    <3> QED BY <2>2, <3>1, SeqDef
  <2>4. Start(b, FALSE) \in Flight
    BY <2>3, StartTyped, LenProperties DEF TypeInv, TypeOK, EventsOK
  <2>5. flights' \in [Flights -> Flight] BY <2>1, <2>4 DEF TypeInv, TypeOK
  <2> QED BY <1>2, <2>5, TypeFlightsOnly DEF ReceivePDUs
<1> QED BY <1>1, <1>2

(* An event is created between transactions.                               *)
LEMMA TypeNewEvent ==
  ASSUME TypeInv, phase = "idle", Len(ev) < MaxEvents, NEW e \in Event,
         RefersBack(e, Len(ev) + 1), ev' = Append(ev, e), UNCHANGED <<db, work>>,
         flights' \in [Flights -> Flight']
  PROVE  TypeInv'
<1>1. EventsOK' /\ Grows BY NewEvent DEF TypeInv, TypeOK
<1>2. DatabaseOK' BY <1>1, DatabaseGrows DEF TypeInv, TypeOK
<1>3. TransactionOK' BY <1>1, TransactionGrows DEF TypeInv, TypeOK
<1>4. PreparedFits' /\ StoreReady' BY DEF PreparedFits, StoreReady, work
<1> QED BY <1>1, <1>2, <1>3, <1>4 DEF TypeInv, TypeOK

LEMMA TypeRemoteSend ==
  ASSUME TypeInv, RemoteSend
  PROVE  TypeInv'
<1>1. PICK k \in Kinds \ {"create"}, s \in Users, t \in Users, P \in PrevSets :
        \E p \in P, r \in Abroad \cup {0} :
          /\ IF k = "react" THEN r # 0 /\ ev[r].kind = "message" ELSE r = 0
          /\ ev' = Append(ev, RemoteEvent(k, s, t, r, P, p))
  BY DEF RemoteSend
<1>2. PICK p \in P, r \in Abroad \cup {0} :
          /\ IF k = "react" THEN r # 0 /\ ev[r].kind = "message" ELSE r = 0
          /\ ev' = Append(ev, RemoteEvent(k, s, t, r, P, p))
  BY <1>1
<1>3. P \in SUBSET Known /\ k \in EventKinds
  BY AbroadKnown, KindsAssumption DEF PrevSets
<1>r. r \in 0..Len(ev)
  <2>1. Len(ev) \in Nat BY LenProperties DEF TypeInv, TypeOK, EventsOK
  <2> QED BY <2>1, AbroadKnown DEF Known
<1>4. /\ RemoteEvent(k, s, t, r, P, p) \in Event
      /\ RefersBack(RemoteEvent(k, s, t, r, P, p), Len(ev) + 1)
  BY <1>2, <1>3, <1>r, RemoteEventTyped DEF TypeInv, TypeOK
<1>5. phase = "idle" /\ Len(ev) < MaxEvents /\ UNCHANGED <<db, work>> /\ flights' = flights
  BY DEF RemoteSend
<1>6. Grows BY <1>2, <1>4, <1>5, NewEvent DEF TypeInv, TypeOK
<1>7. flights' \in [Flights -> Flight'] BY <1>5, <1>6, FlightsGrow DEF TypeInv, TypeOK
<1> QED BY <1>2, <1>4, <1>5, <1>7, TypeNewEvent

(* A flight starts with a batch that has the event created.                *)
LEMMA StartNew ==
  ASSUME TypeInv, Grows, NEW f \in Flights, NEW b \in Seq(Known'), NEW skip \in BOOLEAN
  PROVE  [flights EXCEPT ![f] = Start(b, skip)] \in [Flights -> Flight']
<1>1. Start(b, skip) \in Flight' BY DEF Start, Idle, Flight
<1>2. flights \in [Flights -> Flight'] BY FlightsGrow DEF TypeInv, TypeOK
<1> QED BY <1>1, <1>2

LEMMA TypeJoinRemote ==
  ASSUME TypeInv, NEW f \in Flights, JoinRemote(f)
  PROVE  TypeInv'
<1>1. PICK u \in Users, p \in Abroad :
        /\ ev' = Append(ev, RemoteEvent("join", u, u, 0, {p}, p))
        /\ \E S \in SUBSET (1..Len(ev)) : \E b \in [1..Cardinality(S) -> S] :
             flights' = [flights EXCEPT ![f] = Start(Append(b, Len(ev) + 1), TRUE)]
  BY DEF JoinRemote
<1>2. PICK S \in SUBSET (1..Len(ev)) : \E b \in [1..Cardinality(S) -> S] :
        flights' = [flights EXCEPT ![f] = Start(Append(b, Len(ev) + 1), TRUE)]
  BY <1>1
<1>b. PICK b \in [1..Cardinality(S) -> S] :
        flights' = [flights EXCEPT ![f] = Start(Append(b, Len(ev) + 1), TRUE)]
  BY <1>2
<1> DEFINE e == RemoteEvent("join", u, u, 0, {p}, p)
<1>3. Len(ev) \in Nat BY LenProperties DEF TypeInv, TypeOK, EventsOK
<1>4. e \in Event /\ RefersBack(e, Len(ev) + 1)
  BY <1>3, AbroadKnown, RemoteEventTyped
     DEF TypeInv, TypeOK, EventKinds, StateKinds, MemberKinds
<1>5. phase = "idle" /\ Len(ev) < MaxEvents /\ UNCHANGED <<db, work>> BY DEF JoinRemote
<1>6. Grows /\ Len(ev') = Len(ev) + 1
  BY <1>1, <1>3, <1>4, <1>5, NewEvent, AppendSeq DEF TypeInv, TypeOK, EventsOK
<1>7. Append(b, Len(ev) + 1) \in Seq(Known')
  <2>1. Cardinality(S) \in Nat
    <3>1. IsFiniteSet(1..Len(ev)) BY <1>3, FS_Interval
    <3>2. IsFiniteSet(S) BY <3>1, FS_Subset
    <3> QED BY <3>2, FS_CardinalityType
  <2>2. S \subseteq Known' /\ Len(ev) + 1 \in Known' BY <1>3, <1>6 DEF Known
  <2>3. b \in Seq(Known')
    <3>1. \A i \in 1..Cardinality(S) : b[i] \in Known' BY <2>2
    <3>2. b = [i \in 1..Cardinality(S) |-> b[i]] BY <2>1
    <3> QED BY <2>1, <3>1, <3>2, IsASeq
  <2> QED BY <2>2, <2>3, AppendSeq
<1>8. flights' \in [Flights -> Flight'] BY <1>b, <1>6, <1>7, StartNew
<1> QED BY <1>1, <1>4, <1>5, <1>8, TypeNewEvent

(* An event made of the database's current state.                          *)
LEMMA CurrentTyped ==
  ASSUME TypeInv, NEW k \in EventKinds, NEW s \in Users, NEW t \in Users,
         NEW r \in 0..MaxEvents, k = "react" => r # 0, NEW P \in SUBSET Known,
         NEW given \in BOOLEAN, NEW m \in States
  PROVE  LET e == [kind |-> k, sender |-> s, target |-> t, rel |-> r,
                   prevs |-> P, auth |-> m, given |-> given]
         IN e \in Event /\ RefersBack(e, Len(ev) + 1)
<1> DEFINE e == [kind |-> k, sender |-> s, target |-> t, rel |-> r,
                 prevs |-> P, auth |-> m, given |-> given]
<1>1. Len(ev) \in Nat /\ Len(ev) <= MaxEvents
  BY LenProperties DEF TypeInv, TypeOK, EventsOK
<1>3. m \in StateMap /\ P \subseteq Ids
  BY <1>1, BoundsAssumption DEF States, StateMap, Known, Ids
<1>4. e \in Event BY <1>3 DEF Event, Relates
<1>5. RefersBack(e, Len(ev) + 1) BY <1>1 DEF RefersBack, Known, States
<1> QED BY <1>4, <1>5

LEMMA TypePrepareInvite ==
  ASSUME TypeInv, NEW f \in Flights, PrepareInvite(f)
  PROVE  TypeInv'
<1>1. PICK s \in Users, t \in Users :
        ev' = Append(ev, [kind |-> "invite", sender |-> s, target |-> t, rel |-> 0,
                          prevs |-> extrem, auth |-> members, given |-> TRUE])
  BY DEF PrepareInvite
<1> DEFINE e == [kind |-> "invite", sender |-> s, target |-> t, rel |-> 0,
                 prevs |-> extrem, auth |-> members, given |-> TRUE]
<1>2. extrem \in SUBSET Known /\ members \in States BY DEF TypeInv, TypeOK, DatabaseOK
<1>3. e \in Event /\ RefersBack(e, Len(ev) + 1)
  <2>1. /\ "invite" \in EventKinds /\ "invite" # "react" /\ TRUE \in BOOLEAN
        /\ 0 \in 0..MaxEvents
    BY BoundsAssumption DEF EventKinds, StateKinds, MemberKinds
  <2> HIDE DEF e
  <2>2. \A given \in BOOLEAN :
          LET x == [kind |-> "invite", sender |-> s, target |-> t, rel |-> 0,
                    prevs |-> extrem, auth |-> members, given |-> given]
          IN x \in Event /\ RefersBack(x, Len(ev) + 1)
    BY <1>2, <2>1, CurrentTyped
  <2> QED BY <2>2 DEF e
<1>4. phase = "idle" /\ Len(ev) < MaxEvents /\ UNCHANGED <<db, work>>
  BY DEF PrepareInvite
<1>5. Grows /\ Len(ev') = Len(ev) + 1 /\ Len(ev) \in Nat
  BY <1>1, <1>3, <1>4, NewEvent, AppendSeq, LenProperties DEF TypeInv, TypeOK, EventsOK
<1>6. <<Len(ev) + 1>> \in Seq(Known')
  <2>1. Len(ev) + 1 \in Known' BY <1>5 DEF Known
  <2> QED BY <2>1
<1>7. flights' \in [Flights -> Flight'] BY <1>5, <1>6, StartNew DEF PrepareInvite
<1> QED BY <1>1, <1>3, <1>4, <1>7, TypeNewEvent

LEMMA TypeSignInvite ==
  ASSUME TypeInv, SignInvite
  PROVE  TypeInv'
<1>1. PICK id \in DOMAIN ev :
        /\ ev[id].kind = "invite" /\ ~IsLocal(ev[id].sender) /\ IsLocal(ev[id].target)
        /\ log' = Append(log, [id |-> id, shown |-> FALSE])
        /\ outliers' = outliers \cup {ev[id].target}
  BY DEF SignInvite
<1>2. id \in Known BY <1>1, LenProperties DEF Known, TypeInv, TypeOK, EventsOK
<1>3. ev[id].target \in Users
  BY <1>2, ElementOfSeq DEF Event, Known, TypeInv, TypeOK, EventsOK
<1>4. log' \in Seq([id : Known, shown : BOOLEAN]) /\ Len(log') = Len(log) + 1
  BY <1>1, <1>2, LogGrows DEF SignInvite, TypeInv, TypeOK
<1>5. Len(log) \in Nat BY LogTyped DEF TypeInv, TypeOK
<1>6. DatabaseOK'
  BY <1>1, <1>3, <1>4, <1>5, SameEvents DEF SignInvite, TypeInv, TypeOK, DatabaseOK
<1>7. EventsOK' /\ flights' \in [Flights -> Flight']
  BY SameEvents DEF SignInvite, TypeInv, TypeOK
<1>8. TransactionOK'
  BY SameEvents DEF SignInvite, TypeInv, TypeOK, TransactionOK, work
<1>9. PreparedFits' /\ StoreReady'
  BY DEF SignInvite, TypeInv, PreparedFits, StoreReady, work
<1> QED BY <1>6, <1>7, <1>8, <1>9 DEF TypeInv, TypeOK

-----------------------------------------------------------------------------
(* One event of a transaction.                                             *)

LEMMA KeepTyped ==
  ASSUME TypeInv, Grows, NEW id \in Known', NEW soft \in BOOLEAN
  PROVE  Keep(id, soft) \in Seq(Accepted') /\ Len(Keep(id, soft)) = Len(accepted) + 1
<1>1. accepted \in Seq(Accepted') /\ auth \in States'
  BY KnownGrows DEF TypeInv, TypeOK, TransactionOK
<1>2. [id |-> id, soft |-> soft, was |-> auth] \in Accepted' BY <1>1 DEF Accepted
<1> QED BY <1>1, <1>2, AppendSeq DEF Keep

LEMMA TypePrepareOne ==
  ASSUME TypeInv, PrepareOne
  PROVE  TypeInv'
<1>1. LET e == LocalEvent(Head(partials))
            id == Len(ev) + 1
        IN IF DuplicateReaction(e) \/ ~Allowed(e, auth)
           THEN UNCHANGED <<ev, accepted, auth, heads>>
           ELSE /\ ev' = Append(ev, e)
                /\ accepted' = Keep(id, FALSE)
                /\ auth' = Applied(auth, e, id)
                /\ heads' = {id}
  BY DEF PrepareOne
<1> DEFINE e == LocalEvent(Head(partials))
           n == Len(ev) + 1
<1>2. /\ phase = "prepare" /\ partials # <<>> /\ partials' = Tail(partials)
      /\ UNCHANGED <<db, flights, phase, owner, todo, shares, view>>
  BY DEF PrepareOne
<1>3. /\ Head(partials) \in PartialEvent /\ Tail(partials) \in Seq(PartialEvent)
      /\ Len(partials) = Len(Tail(partials)) + 1 /\ Len(Tail(partials)) \in Nat
  BY <1>2, HeadTailSeq, LenProperties DEF TypeInv, TypeOK, TransactionOK
<1>4. Len(ev) \in Nat /\ Len(ev) < MaxEvents /\ Len(ev) + Len(partials) <= MaxEvents
  BY <1>2, <1>3, LenProperties, BoundsAssumption
     DEF TypeInv, TypeOK, EventsOK, PreparedFits
<1>5. StoreReady' BY <1>2 DEF StoreReady
<1>6. CASE UNCHANGED <<ev, accepted, auth, heads>>
  <2>1. EventsOK' /\ DatabaseOK' /\ flights' \in [Flights -> Flight']
    BY <1>2, <1>6, SameEvents, SameDatabase DEF TypeInv, TypeOK
  <2>2. TransactionOK'
    BY <1>2, <1>3, <1>6, SameEvents DEF TypeInv, TypeOK, TransactionOK
  <2>3. PreparedFits' BY <1>2, <1>3, <1>4, <1>6, BoundsAssumption DEF PreparedFits
  <2> QED BY <1>5, <2>1, <2>2, <2>3 DEF TypeInv, TypeOK
<1>7. CASE /\ ev' = Append(ev, e) /\ accepted' = Keep(n, FALSE)
           /\ auth' = Applied(auth, e, n) /\ heads' = {n}
  <2>1. e \in Event /\ RefersBack(e, Len(ev) + 1)
    BY <1>3, CurrentTyped
       DEF LocalEvent, PartialEvent, Relates, TypeInv, TypeOK, TransactionOK
  <2>2. EventsOK' /\ Grows /\ Len(ev') = n
    BY <1>4, <1>7, <2>1, NewEvent, AppendSeq DEF TypeInv, TypeOK, EventsOK
  <2>3. DatabaseOK' BY <1>2, <2>2, DatabaseGrows DEF TypeInv, TypeOK
  <2>4. n \in Known' BY <1>4, <2>2 DEF Known
  <2>5. accepted' \in Seq(Accepted') BY <1>7, <2>2, <2>4, KeepTyped
  <2>6. auth' \in States'
    <3>1. auth \in [Users -> 0..n] /\ n \in Nat /\ n \in 0..n
      BY <1>4 DEF TypeInv, TypeOK, TransactionOK, States
    <3> QED BY <1>7, <2>2, <3>1, AppliedTyped DEF States
  <2>v. view' \in Seq(States') /\ shares' \in [Ids -> 0..Len(view')]
    <3>1. States \subseteq States' BY <2>2, KnownGrows
    <3> QED BY <1>2, <3>1, SeqMonotonic DEF TypeInv, TypeOK, TransactionOK
  <2>7. TransactionOK'
    BY <1>2, <1>3, <1>7, <2>2, <2>4, <2>5, <2>6, <2>v, KnownGrows
       DEF TypeInv, TypeOK, TransactionOK
  <2>8. PreparedFits' BY <1>2, <1>3, <1>4, <2>2, BoundsAssumption DEF PreparedFits
  <2>9. flights' \in [Flights -> Flight']
    BY <1>2, <2>2, FlightsGrow DEF TypeInv, TypeOK
  <2> QED BY <1>5, <2>2, <2>3, <2>7, <2>8, <2>9 DEF TypeInv, TypeOK
<1> QED BY <1>1, <1>6, <1>7

LEMMA TypeReadStep ==
  ASSUME TypeInv, phase \in {"step4", "step5", "step6"},
         UNCHANGED <<ev, db, phase, owner, partials, heads>>,
         todo' \in Seq(Known), accepted' \in Seq(Accepted), auth' \in States,
         view' \in Seq(States), shares' \in [Ids -> 0..Len(view')],
         flights' \in [Flights -> Flight]
  PROVE  TypeInv'
<1>1. EventsOK' /\ DatabaseOK' /\ flights' \in [Flights -> Flight']
  BY SameEvents, SameDatabase DEF TypeInv, TypeOK
<1>2. TransactionOK' BY SameEvents DEF TypeInv, TypeOK, TransactionOK
<1>3. PreparedFits' /\ StoreReady' BY DEF PreparedFits, StoreReady
<1> QED BY <1>1, <1>2, <1>3 DEF TypeInv, TypeOK

LEMMA TodoTyped ==
  ASSUME TypeInv, todo # <<>>
  PROVE  /\ Head(todo) \in Known /\ Head(todo) \in Ids /\ Tail(todo) \in Seq(Known)
         /\ Len(ev) \in Nat
         /\ \A soft \in BOOLEAN : Keep(Head(todo), soft) \in Seq(Accepted)
<1>1. Head(todo) \in Known /\ Tail(todo) \in Seq(Known)
  BY HeadTailSeq DEF TypeInv, TypeOK, TransactionOK
<1>2. Len(ev) \in Nat /\ Len(ev) <= MaxEvents
  BY LenProperties DEF TypeInv, TypeOK, EventsOK
<1>3. Head(todo) \in Ids BY <1>1, <1>2, BoundsAssumption DEF Known, Ids
<1>4. ASSUME NEW soft \in BOOLEAN
      PROVE  Keep(Head(todo), soft) \in Seq(Accepted)
  <2>1. [id |-> Head(todo), soft |-> soft, was |-> auth] \in Accepted
    BY <1>1 DEF Accepted, TypeInv, TypeOK, TransactionOK
  <2> QED BY <2>1, AppendSeq DEF Keep, TypeInv, TypeOK, TransactionOK
<1> QED BY <1>1, <1>2, <1>3, <1>4

LEMMA SoftTyped ==
  ASSUME TypeInv
  PROVE  [flights EXCEPT ![owner].soft = @ \cup {Index}] \in [Flights -> Flight]
<1>1. flights \in [Flights -> Flight] BY DEF TypeInv, TypeOK
<1>2. CASE owner \in Flights
  <2>1. flights[owner].batch \in Seq(Known) /\ todo \in Seq(Known)
    BY <1>1, <1>2 DEF Flight, TypeInv, TypeOK, TransactionOK
  <2>2. Index \in Int BY <2>1, LenProperties DEF Index
  <2>3. [flights[owner] EXCEPT !.soft = @ \cup {Index}] \in Flight
    BY <1>1, <1>2, <2>2 DEF Flight
  <2> QED BY <1>1, <1>2, <2>3
<1>3. CASE owner \notin Flights
  <2>1. [flights EXCEPT ![owner].soft = @ \cup {Index}] = flights BY <1>1, <1>3
  <2> QED BY <1>1, <2>1
<1> QED BY <1>2, <1>3

LEMMA DecideTyped ==
  ASSUME TypeInv, todo # <<>>, NEW ok \in BOOLEAN, Decide(Head(todo), ok)
  PROVE  todo' \in Seq(Known) /\ accepted' \in Seq(Accepted)
  BY TodoTyped DEF Decide, TypeInv, TypeOK, TransactionOK

LEMMA TypeStep4One ==
  ASSUME TypeInv, Step4One
  PROVE  TypeInv'
<1>1. PassesStep4(Head(todo)) \in BOOLEAN BY DEF PassesStep4
<1>2. todo' \in Seq(Known) /\ accepted' \in Seq(Accepted)
  BY <1>1, DecideTyped DEF Step4One
<1> QED BY <1>2, TypeReadStep DEF Step4One, TypeInv, TypeOK, TransactionOK

LEMMA TypeStep6One ==
  ASSUME TypeInv, Step6One
  PROVE  TypeInv'
<1> DEFINE id == Head(todo)
           ok == Allowed(ev[id], auth)
<1>1. todo # <<>> /\ phase = "step6" /\ todo' = Tail(todo) BY DEF Step6One
<1>2. id \in Known /\ Tail(todo) \in Seq(Known) BY <1>1, TodoTyped
<1>3. accepted' \in Seq(Accepted)
  <2>1. SoftFailed(Index, ok) \in BOOLEAN BY DEF SoftFailed
  <2>2. accepted' = Keep(id, SoftFailed(Index, ok)) BY DEF Step6One
  <2> QED BY <1>1, <2>1, <2>2, TodoTyped
<1>4. auth' \in States
  <2>1. Applied(auth, ev[id], id) \in States
    <3>1. Len(ev) \in Nat /\ id \in 0..Len(ev) BY <1>1, <1>2, TodoTyped DEF Known
    <3>2. auth \in [Users -> 0..Len(ev)]
      BY DEF States, TypeInv, TypeOK, TransactionOK
    <3> QED BY <3>1, <3>2, AppliedTyped DEF States
  <2>2. auth' = Applied(auth, ev[id], id) \/ auth' = auth BY DEF Step6One
  <2> QED BY <2>1, <2>2 DEF TypeInv, TypeOK, TransactionOK
<1>5. flights' \in [Flights -> Flight]
  BY SoftTyped DEF Step6One, TypeInv, TypeOK
<1> QED BY <1>1, <1>2, <1>3, <1>4, <1>5, TypeReadStep
        DEF Step6One, TypeInv, TypeOK, TransactionOK

LEMMA KnownIds ==
  ASSUME TypeInv
  PROVE  Known \subseteq Ids /\ Len(ev) \in Nat
<1>1. Len(ev) \in Nat /\ Len(ev) <= MaxEvents
  BY LenProperties DEF TypeInv, TypeOK, EventsOK
<1> QED BY <1>1, BoundsAssumption DEF Known, Ids

LEMMA FoundTyped ==
  ASSUME TypeInv, NEW p \in Known, Found(p)
  PROVE  StateOf(p) \in States
<1>1. p \in Ids BY KnownIds
<1>2. CASE shares[p] # 0
  <2>1. view \in Seq(States) /\ shares[p] \in 0..Len(view)
    BY <1>1 DEF TypeInv, TypeOK, TransactionOK
  <2>2. shares[p] \in 1..Len(view) BY <1>2, <2>1, LenProperties
  <2> QED BY <1>2, <2>1, <2>2, ElementOfSeq DEF StateOf
<1>3. CASE shares[p] = 0
  <2>1. idToVersion[p] \in 0..Len(log) BY <1>1 DEF TypeInv, TypeOK, DatabaseOK
  <2> QED BY <1>3, <2>1, StateTyped DEF StateOf, TypeInv, TypeOK
<1> QED BY <1>2, <1>3

LEMMA StatesBeforeTyped ==
  ASSUME TypeInv, NEW id \in Known, NEW m \in StatesBefore(id)
  PROVE  m \in States
<1> DEFINE found == {p \in ev[id].prevs : Found(p)}
<1>1. ev[id].prevs \subseteq Known
  BY LenProperties DEF TypeInv, TypeOK, EventsOK, RefersBack, Known
<1>2. CASE found = {}
  BY <1>2, LenProperties DEF StatesBefore, Nobody, States, TypeInv, TypeOK, EventsOK
<1>3. CASE found # {}
  <2>1. /\ m \in [Users -> UNION {{StateOf(p)[u] : u \in Users} : p \in found}]
        /\ \A u \in Users : \E p \in found : m[u] = StateOf(p)[u]
    BY <1>3 DEF StatesBefore
  <2>2. \A p \in found : StateOf(p) \in States BY <1>1, FoundTyped
  <2>3. \A u \in Users : m[u] \in 0..Len(ev) BY <2>1, <2>2 DEF States
  <2>4. m = [u \in Users |-> m[u]] BY <2>1
  <2> QED BY <2>3, <2>4 DEF States
<1> QED BY <1>2, <1>3

LEMMA HolderTyped ==
  ASSUME TypeInv, NEW id \in Known
  PROVE  HolderOf(id) \in 1..(Len(view) + 1) /\ Len(view) \in Nat
<1> DEFINE prevs == ev[id].prevs
           kept == {shares[p] : p \in prevs}
<1>1. prevs \subseteq Known
  BY LenProperties DEF TypeInv, TypeOK, EventsOK, RefersBack, Known
<1>2. prevs \subseteq Ids BY <1>1, KnownIds
<1>3. kept \subseteq 0..Len(view) BY <1>2 DEF TypeInv, TypeOK, TransactionOK
<1>4. Len(view) \in Nat BY LenProperties DEF TypeInv, TypeOK, TransactionOK
<1>5. CASE Cardinality(prevs) = 1 /\ kept # {0}
  <2>1. PICK p : prevs = {p}
    <3>1. IsFiniteSet(prevs)
      <4>1. IsFiniteSet(1..Len(ev)) BY KnownIds, FS_Interval
      <4> QED BY <1>1, <4>1, FS_Subset DEF Known
    <3> QED BY <1>5, <3>1, FS_Singleton
  <2>2. kept = {shares[p]} BY <2>1
  <2>3. HolderOf(id) = shares[p] BY <1>5, <2>2 DEF HolderOf
  <2>4. shares[p] # 0 BY <1>5, <2>2
  <2>5. shares[p] \in 0..Len(view) BY <1>3, <2>2
  <2> QED BY <1>4, <2>3, <2>4, <2>5
<1>6. CASE ~(Cardinality(prevs) = 1 /\ kept # {0})
  <2>1. HolderOf(id) = Len(view) + 1 BY <1>6 DEF HolderOf
  <2> QED BY <1>4, <2>1
<1> QED BY <1>5, <1>6

(* What a judgement leaves of the maps of step 5.                           *)
LEMMA JudgeTyped ==
  ASSUME TypeInv, NEW id \in Known, NEW m \in States, NEW ok \in BOOLEAN,
         Judge(id, m, ok)
  PROVE  view' \in Seq(States) /\ shares' \in [Ids -> 0..Len(view')]
<1> DEFINE h == HolderOf(id)
           next == IF ok THEN Applied(m, ev[id], id) ELSE m
           n == IF h = Len(view) + 1 THEN h ELSE Len(view)
<1>1. /\ h \in 1..(Len(view) + 1) /\ Len(view) \in Nat
      /\ view \in Seq(States) /\ shares \in [Ids -> 0..Len(view)]
  BY HolderTyped DEF TypeInv, TypeOK, TransactionOK
<1>2. next \in States
  <2>1. Len(ev) \in Nat /\ id \in 0..Len(ev) BY KnownIds DEF Known
  <2> QED BY <2>1, AppliedTyped DEF States
<1>3. DOMAIN view = 1..Len(view) /\ \A i \in 1..Len(view) : view[i] \in States
  BY <1>1, LenProperties, ElementOfSeq
<1> HIDE DEF h, next
<1>4. DOMAIN view \cup {h} = 1..n /\ n \in Nat /\ Len(view) <= n /\ h \in 0..n
  BY <1>1, <1>3
<1>5. view' = [i \in 1..n |-> IF i # h THEN view[i] ELSE next]
  BY <1>4 DEF Judge, h, next
<1>6. \A i \in 1..n : (IF i # h THEN view[i] ELSE next) \in States
  BY <1>1, <1>2, <1>3
<1>7. view' \in Seq(States) /\ Len(view') = n
  <2> HIDE DEF n
  <2> QED BY <1>4, <1>5, <1>6, IsASeq
<1>8. shares' = [shares EXCEPT ![id] = h] BY DEF Judge, h
<1>9. shares' \in [Ids -> 0..n]
  <2>1. 0..Len(view) \subseteq 0..n BY <1>1, <1>4
  <2>2. shares \in [Ids -> 0..n] BY <1>1, <2>1
  <2> DEFINE T == 0..n
  <2> HIDE DEF T
  <2>3. shares \in [Ids -> T] /\ h \in T BY <1>4, <2>2 DEF T
  <2>4. [shares EXCEPT ![id] = h] \in [Ids -> T] BY <2>3
  <2> QED BY <1>8, <2>4 DEF T
<1> QED BY <1>7, <1>9

LEMMA TypeStep5One ==
  ASSUME TypeInv, Step5One
  PROVE  TypeInv'
<1> DEFINE id == Head(todo)
           e == ev[id]
<1>1. todo # <<>> /\ phase = "step5" /\ UNCHANGED <<ev, db, phase, owner, partials, auth, heads>>
  BY DEF Step5One
<1>2. id \in Known /\ id \in Ids /\ Tail(todo) \in Seq(Known)
      /\ Keep(id, FALSE) \in Seq(Accepted) /\ Len(ev) \in Nat
  BY <1>1, TodoTyped
<1>f. flights' \in [Flights -> Flight] BY DEF Step5One, TypeInv, TypeOK
<1>3. CASE Decide(id, FALSE) /\ UNCHANGED <<shares, view>>
  <2>1. todo' \in Seq(Known) /\ accepted' \in Seq(Accepted)
    BY <1>1, <1>3, DecideTyped
  <2> QED BY <1>1, <1>f, <1>3, <2>1, TypeReadStep DEF TypeInv, TypeOK, TransactionOK
<1>4. CASE \E m \in StatesBefore(id), ok \in BOOLEAN : Judge(id, m, ok)
  <2>1. PICK m \in StatesBefore(id), ok \in BOOLEAN : Judge(id, m, ok)
    BY <1>4
  <2>2. m \in States BY <1>2, StatesBeforeTyped
  <2>3. view' \in Seq(States) /\ shares' \in [Ids -> 0..Len(view')]
    BY <1>2, <2>1, <2>2, JudgeTyped
  <2>4. accepted' \in Seq(Accepted) /\ todo' \in Seq(Known)
    BY <1>1, <2>1, DecideTyped DEF Judge
  <2>5. auth' \in States BY <1>1 DEF TypeInv, TypeOK, TransactionOK
  <2> QED BY <1>1, <1>f, <2>3, <2>4, <2>5, TypeReadStep
<1>5. \A m : (Allowed(e, m) /\ HasCreate(e)) \in BOOLEAN
  OBVIOUS
<1> QED BY <1>3, <1>4, <1>5 DEF Step5One

-----------------------------------------------------------------------------
(* Storing.                                                                *)

LEMMA TypeBeginStore ==
  ASSUME TypeInv, BeginStore
  PROVE  TypeInv'
<1>1. EventsOK' /\ DatabaseOK' /\ flights' \in [Flights -> Flight']
  BY SameEvents, SameDatabase DEF BeginStore, TypeInv, TypeOK
<1>2. TransactionOK' BY SameEvents DEF BeginStore, TypeInv, TypeOK, TransactionOK
<1>3. \A i \in 1..Len(accepted) : ~StoreFailsAt(i)
  BY AcceptedTyped DEF BeginStore, StoreFails
<1>4. StoreReady'
  BY <1>3 DEF BeginStore, StoreReady, StoreFailsAt, HoldsStamp, ValueForVersionstamp
<1>5. PreparedFits' BY DEF BeginStore, PreparedFits
<1> QED BY <1>1, <1>2, <1>4, <1>5 DEF TypeInv, TypeOK

(* The next event to store, and what its log entry needs.                  *)
LEMMA NextToStore ==
  ASSUME TypeInv, phase = "store", accepted # <<>>
  PROVE  LET a == Head(accepted)
         IN /\ a \in Accepted /\ a.id \in Known /\ a.id \in Ids /\ ev[a.id] \in Event
            /\ ~a.soft
            /\ Len(accepted) \in Nat /\ Len(accepted) # 0 /\ a = accepted[1]
<1> DEFINE a == Head(accepted)
<1>1. a \in Accepted /\ a = accepted[1] /\ Len(accepted) = Len(Tail(accepted)) + 1
      /\ Tail(accepted) \in Seq(Accepted)
  BY HeadTailSeq DEF TypeInv, TypeOK, TransactionOK
<1>2. a.id \in Known BY <1>1 DEF Accepted
<1>3. a.id \in Ids BY <1>2, KnownIds
<1>4. ev[a.id] \in Event
  BY <1>2, ElementOfSeq DEF Known, TypeInv, TypeOK, EventsOK
<1>5. Len(accepted) \in Nat /\ Len(accepted) # 0 BY <1>1, LenProperties
<1>6. ~a.soft BY <1>1, <1>5 DEF StoreReady, TypeInv
<1> QED BY <1>1, <1>2, <1>3, <1>4, <1>5, <1>6

(* The rest of the batch, after one event of it is stored.                 *)
LEMMA RestToStore ==
  ASSUME TypeInv, phase = "store", accepted # <<>>, accepted' = Tail(accepted),
         UNCHANGED <<ev, flights, phase, owner, todo, partials, auth, heads, shares, view>>,
         DatabaseOK'
  PROVE  TypeInv'
<1>1. EventsOK' /\ flights' \in [Flights -> Flight']
  BY SameEvents DEF TypeInv, TypeOK
<1>2. /\ Tail(accepted) \in Seq(Accepted) /\ Len(accepted) = Len(Tail(accepted)) + 1
      /\ \A i \in 1..Len(Tail(accepted)) : Tail(accepted)[i] = accepted[i + 1]
      /\ Len(Tail(accepted)) \in Nat
  BY HeadTailSeq, LenProperties DEF TypeInv, TypeOK, TransactionOK
<1>3. TransactionOK' BY <1>2, SameEvents DEF TypeInv, TypeOK, TransactionOK
<1>4. StoreReady' BY <1>2 DEF TypeInv, StoreReady
<1>5. PreparedFits' BY DEF PreparedFits
<1> QED BY <1>1, <1>3, <1>4, <1>5 DEF TypeInv, TypeOK

LEMMA IndexTyped ==
  ASSUME NEW n \in Nat, NEW g \in [Ids -> 0..n], NEW i, NEW x \in 0..(n + 1)
  PROVE  [g EXCEPT ![i] = x] \in [Ids -> 0..(n + 1)]
<1>1. 0..n \subseteq 0..(n + 1) OBVIOUS
<1>2. g \in [Ids -> 0..(n + 1)] BY <1>1
<1> DEFINE S == 0..(n + 1)
<1> HIDE DEF S
<1>3. g \in [Ids -> S] /\ x \in S BY <1>2 DEF S
<1>4. [g EXCEPT ![i] = x] \in [Ids -> S] BY <1>3
<1> QED BY <1>4 DEF S

LEMMA TypeStoreEvent ==
  ASSUME TypeInv, StoreEvent
  PROVE  TypeInv'
<1> DEFINE id == Head(accepted).id
           e  == ev[id]
<1>1. id \in Known /\ id \in Ids /\ e \in Event BY NextToStore DEF StoreEvent
<1>2. /\ e.kind \in EventKinds /\ e.sender \in Users /\ e.target \in Users
      /\ e.rel \in 0..MaxEvents /\ (e.kind = "react" => e.rel # 0)
  BY <1>1 DEF Event, Relates
<1>3. log' \in Seq([id : Known, shown : BOOLEAN]) /\ Len(log') = Len(log) + 1
  BY <1>1, LogGrows DEF StoreEvent, TypeInv, TypeOK
<1>4. Len(log) \in Nat /\ Len(ev) \in Nat
  BY LogTyped, KnownIds DEF TypeInv, TypeOK
<1>5. idToVersion' \in [Ids -> 0..Len(log')]
  <2>1. idToVersion \in [Ids -> 0..Len(log)] BY DEF TypeInv, TypeOK, DatabaseOK
  <2>2. idToVersion' = [idToVersion EXCEPT ![id] = Len(log) + 1] BY DEF StoreEvent
  <2> QED BY <1>3, <1>4, <2>1, <2>2, IndexTyped
<1>6. room' \in [exists : BOOLEAN, count : Int]
  <2>1. room \in [exists : BOOLEAN, count : Int] BY DEF TypeInv, TypeOK, DatabaseOK
  <2>2. \A c \in Int : [room EXCEPT !.count = c] \in [exists : BOOLEAN, count : Int]
    BY <2>1
  <2>3. [room EXCEPT !.exists = TRUE] \in [exists : BOOLEAN, count : Int]
    BY <2>1
  <2>4. room.count + 1 \in Int /\ room.count - 1 \in Int BY <2>1
  <2> QED BY <2>1, <2>2, <2>3, <2>4 DEF StoreEvent, RoomAfter
<1>7. members' \in States
  <2>1. members \in [Users -> 0..Len(ev)] /\ id \in 0..Len(ev)
    BY <1>1, <1>4 DEF Known, States, TypeInv, TypeOK, DatabaseOK
  <2>2. Applied(members, e, id) \in States BY <1>4, <2>1, AppliedTyped DEF States
  <2> QED BY <2>1, <2>2 DEF StoreEvent, StoreMember, MembersAfter, States
<1>8. /\ joined' \in [Servers -> SUBSET Users] /\ servers' \subseteq Servers
      /\ outliers' \subseteq Users
  <2>1. Home[e.target] \in Servers BY <1>2, HomeAssumption
  <2>2. /\ joined \in [Servers -> SUBSET Users] /\ servers \subseteq Servers
        /\ outliers \subseteq Users
    BY DEF TypeInv, TypeOK, DatabaseOK
  <2>3. JoinedAfter(e) \in [Servers -> SUBSET Users] BY <1>2, <2>1, <2>2 DEF JoinedAfter
  <2>4. ServersAfter(e) \subseteq Servers BY <2>1, <2>2 DEF ServersAfter
  <2> QED BY <2>2, <2>3, <2>4 DEF StoreEvent, StoreMember
<1>9. reactions' \subseteq (Ids \X Users)
  <2>1. e.kind = "react" => e.rel \in Ids BY <1>2, BoundsAssumption DEF Ids
  <2>2. e.sender \in Users /\ reactions \subseteq (Ids \X Users)
    BY <1>2 DEF TypeInv, TypeOK, DatabaseOK
  <2>3. ReactionsAfter(e) \subseteq (Ids \X Users) BY <2>1, <2>2 DEF ReactionsAfter
  <2> QED BY <2>3 DEF StoreEvent
<1>10. extrem' \subseteq Known
  BY <1>1 DEF StoreEvent, ExtremAfter, TypeInv, TypeOK, DatabaseOK
<1>11. Known' = Known /\ States' = States BY SameEvents DEF StoreEvent
<1>12. DatabaseOK'
  BY <1>3, <1>5, <1>6, <1>7, <1>8, <1>9, <1>10, <1>11 DEF DatabaseOK
<1> QED BY <1>12, RestToStore DEF StoreEvent

-----------------------------------------------------------------------------
LEMMA RemoteRoomTyped ==
  /\ RemoteRoom \in Seq(Event) /\ Len(RemoteRoom) = 2
  /\ \A i \in 1..2 : RefersBack(RemoteRoom[i], i)
<1> DEFINE create == RemoteRoom[1]
           join   == RemoteRoom[2]
<1>1. create \in Event /\ join \in Event
  BY UsersAssumption, BoundsAssumption
     DEF RemoteRoom, Event, Relates, Ids, StateMap, Nobody, EventKinds, StateKinds, MemberKinds
<1>2. RemoteRoom = <<create, join>> BY DEF RemoteRoom
<1>3. RemoteRoom \in Seq(Event) /\ Len(RemoteRoom) = 2
  <2> HIDE DEF create, join
  <2> QED BY <1>1, <1>2
<1>4. RefersBack(create, 1) /\ RefersBack(join, 2)
  BY DEF RemoteRoom, RefersBack, Nobody
<1> QED BY <1>3, <1>4

LEMMA TypeInit == Init => TypeInv
<1> SUFFICES ASSUME Init PROVE TypeInv
  OBVIOUS
<1>1. EventsOK
  <2>1. CASE ev = <<>> BY <2>1, BoundsAssumption, EmptySeq DEF EventsOK, Known
  <2>2. CASE ev = RemoteRoom
    BY <2>2, RemoteRoomTyped, BoundsAssumption DEF EventsOK, Known
  <2> QED BY <2>1, <2>2 DEF Init
<1>2. Len(ev) \in Nat BY <1>1, LenProperties DEF EventsOK
<1>3. Nobody \in States BY <1>2 DEF Nobody, States
<1>4. DatabaseOK
  <2>1. log \in Seq([id : Known, shown : BOOLEAN]) /\ Len(log) = 0
    BY EmptySeq DEF Init
  <2> QED BY <1>3, <2>1 DEF Init, DatabaseOK
<1>5. flights \in [Flights -> Flight]
  <2>1. Idle \in Flight BY EmptySeq DEF Idle, Flight
  <2> QED BY <2>1 DEF Init
<1>6. TransactionOK
  <2>1. todo \in Seq(Known) /\ partials \in Seq(PartialEvent) /\ accepted \in Seq(Accepted)
    BY EmptySeq DEF Init
  <2>2. view \in Seq(States) /\ shares \in [Ids -> 0..Len(view)]
    BY EmptySeq DEF Init
  <2> QED BY <1>3, <2>1, <2>2 DEF Init, TransactionOK
<1>7. PreparedFits /\ StoreReady BY DEF Init, PreparedFits, StoreReady
<1> QED BY <1>1, <1>4, <1>5, <1>6, <1>7 DEF TypeInv, TypeOK

LEMMA TypeStutter ==
  ASSUME TypeInv, UNCHANGED vars
  PROVE  TypeInv'
  BY TypeFlightsOnly DEF vars, TypeInv, TypeOK

LEMMA TypeNext ==
  ASSUME TypeInv, [Next]_vars
  PROVE  TypeInv'
<1>1. CASE CreateRoom \/ SendLocal BY <1>1, TypeTake
<1>2. CASE PrepareOne BY <1>2, TypePrepareOne
<1>3. CASE RemoteSend BY <1>3, TypeRemoteSend
<1>4. CASE SignInvite BY <1>4, TypeSignInvite
<1>5. ASSUME NEW f \in Flights, ReceivePDUs(f) \/ RefuseBatch(f)
      PROVE  TypeInv'
  BY <1>5, TypeReceive
<1>6. ASSUME NEW f \in Flights, JoinRemote(f)
      PROVE  TypeInv'
  BY <1>6, TypeJoinRemote
<1>7. ASSUME NEW f \in Flights, PrepareInvite(f)
      PROVE  TypeInv'
  BY <1>7, TypePrepareInvite
<1>8. ASSUME NEW f \in Flights, BeginStep4(f) \/ BeginStep5(f) \/ BeginStep6(f)
      PROVE  TypeInv'
  BY <1>8, TypeTakeFlight
<1>9. CASE Step4One BY <1>9, TypeStep4One
<1>10. CASE Step5One BY <1>10, TypeStep5One
<1>11. CASE Step6One BY <1>11, TypeStep6One
<1>12. CASE EndStep4 \/ EndStep5
  BY <1>12, TypeEndRead DEF EndStep4, EndStep5
<1>13. CASE MissingAuthEvent \/ Retry \/ AbortStore \/ Commit \/ Crash
  BY <1>13, TypeRelease
<1>14. CASE BeginStore BY <1>14, TypeBeginStore
<1>16. CASE StoreEvent BY <1>16, TypeStoreEvent
<1>17. CASE UNCHANGED vars BY <1>17, TypeStutter
<1> QED BY <1>1, <1>2, <1>3, <1>4, <1>5, <1>6, <1>7, <1>8, <1>9, <1>10, <1>11,
           <1>12, <1>13, <1>14, <1>16, <1>17 DEF Next

LEMMA TypeAlways == Spec => []TypeInv
<1>1. TypeInv /\ [Next]_vars => TypeInv' BY TypeNext
<1> QED BY <1>1, TypeInit, PTL DEF Spec

(* The database, the requests and the running transaction of the engine    *)
(* never refer to an event or a version that does not exist, and events    *)
(* refer to earlier ones only.                                             *)
THEOREM TypeCorrect == Spec => []TypeOK
<1>1. TypeInv => TypeOK BY DEF TypeInv
<1> QED BY <1>1, TypeAlways, PTL

-----------------------------------------------------------------------------
(* What a step does to the database: nothing, a version that is not shown,  *)
(* or the next event of a batch.                                           *)

Quiet  == UNCHANGED db
Hidden ==
  /\ UNCHANGED <<ev, room, members, joined, servers, reactions, extrem>>
  /\ \E id \in Known : log' = Append(log, [id |-> id, shown |-> FALSE])

LEMMA EventsStay ==
  ASSUME TypeInv, NEW x, ev' = ev \/ ev' = Append(ev, x)
  PROVE  \A i \in Known : ev'[i] = ev[i]
  BY DEF Known, TypeInv, TypeOK, EventsOK

LEMMA EventsAppended ==
  ASSUME [Next]_vars
  PROVE  \E x : ev' = ev \/ ev' = Append(ev, x)
<1>1. CASE RemoteSend BY <1>1 DEF RemoteSend
<1>2. CASE PrepareOne BY <1>2 DEF PrepareOne
<1>3. CASE \E f \in Flights : JoinRemote(f) \/ PrepareInvite(f)
  BY <1>3 DEF JoinRemote, PrepareInvite
<1>4. CASE UNCHANGED vars BY <1>4 DEF vars
<1>5. CASE CreateRoom \/ SendLocal BY <1>5 DEF CreateRoom, SendLocal, BeginLocal
<1>6. CASE \E f \in Flights : \/ ReceivePDUs(f) \/ BeginStep4(f) \/ RefuseBatch(f)
                              \/ BeginStep5(f) \/ BeginStep6(f)
  BY <1>6 DEF ReceivePDUs, BeginStep4, RefuseBatch, BeginStep5, BeginStep6
<1>7. CASE \/ SignInvite \/ Step4One \/ MissingAuthEvent \/ EndStep4 \/ Step5One
           \/ EndStep5 \/ Step6One \/ Retry
  BY <1>7 DEF SignInvite, Step4One, MissingAuthEvent, EndStep4, Step5One, EndStep5,
              EndRead, Step6One, Retry
<1>8. CASE AbortStore \/ BeginStore \/ StoreEvent \/ Commit \/ Crash
  BY <1>8 DEF AbortStore, BeginStore, StoreEvent, Commit, Crash
<1> QED BY <1>1, <1>2, <1>3, <1>4, <1>5, <1>6, <1>7, <1>8 DEF Next

LEMMA EventsNeverChange ==
  ASSUME TypeInv, [Next]_vars
  PROVE  \A i \in Known : ev'[i] = ev[i]
BY EventsAppended, EventsStay

LEMMA DatabaseStep ==
  ASSUME TypeInv, [Next]_vars
  PROVE  Quiet \/ Hidden \/ StoreEvent
<1>1. CASE RemoteSend \/ PrepareOne BY <1>1 DEF RemoteSend, PrepareOne, Quiet
<1>2. CASE UNCHANGED vars BY <1>2 DEF vars, Quiet
<1>3. CASE CreateRoom \/ SendLocal
  BY <1>3 DEF CreateRoom, SendLocal, BeginLocal, Quiet
<1>4. CASE \E f \in Flights : \/ ReceivePDUs(f) \/ JoinRemote(f) \/ PrepareInvite(f)
                              \/ BeginStep4(f) \/ RefuseBatch(f) \/ BeginStep5(f)
                              \/ BeginStep6(f)
  BY <1>4 DEF ReceivePDUs, JoinRemote, PrepareInvite, BeginStep4, RefuseBatch,
              BeginStep5, BeginStep6, Quiet
<1>5. CASE SignInvite
  <2>1. PICK id \in DOMAIN ev : log' = Append(log, [id |-> id, shown |-> FALSE])
    BY <1>5 DEF SignInvite
  <2>2. id \in Known BY <2>1, LenProperties DEF Known, TypeInv, TypeOK, EventsOK
  <2> QED BY <1>5, <2>1, <2>2 DEF SignInvite, Hidden
<1>6. CASE \/ Step4One \/ MissingAuthEvent \/ EndStep4 \/ Step5One \/ EndStep5
           \/ Step6One \/ Retry \/ AbortStore \/ BeginStore \/ Commit \/ Crash
  BY <1>6 DEF Step4One, MissingAuthEvent, EndStep4, Step5One, EndStep5, EndRead,
              Step6One, Retry, AbortStore, BeginStore, Commit, Crash, Quiet
<1>8. CASE StoreEvent BY <1>8
<1> QED BY <1>1, <1>2, <1>3, <1>4, <1>5, <1>6, <1>8 DEF Next

-----------------------------------------------------------------------------
(* The current member index and the versioned state index.                 *)

LEMMA MembersStored ==
  ASSUME TypeInv, StoreEvent
  PROVE  members' = Applied(members, ev[Head(accepted).id], Head(accepted).id)
  BY DEF StoreEvent, StoreMember, MembersAfter, Applied

LEMMA LatestNext ==
  ASSUME TypeInv, CurrentStateIsLatest, [Next]_vars
  PROVE  CurrentStateIsLatest'
<1>1. PICK n \in Nat : n = Len(log) BY LogTyped DEF TypeInv, TypeOK
<1>2. members = StateAt(n) BY <1>1 DEF CurrentStateIsLatest
<1>3. CASE Quiet
  <2>1. Kept /\ log' = log /\ members' = members
    BY <1>1, <1>3, EventsNeverChange DEF Kept, Quiet, db
  <2>2. StateAt(n)' = StateAt(n) BY <1>1, <2>1, StateKept DEF TypeInv, TypeOK
  <2> QED BY <1>1, <1>2, <2>1, <2>2 DEF CurrentStateIsLatest
<1>4. CASE Hidden
  <2>1. PICK id \in Known : log' = Append(log, [id |-> id, shown |-> FALSE])
    BY <1>4 DEF Hidden
  <2>2. StateAt(n + 1)' = StateAt(n) /\ Len(log') = n + 1
    BY <1>1, <1>4, <2>1, StateHidden, LogGrows DEF Hidden, TypeInv, TypeOK
  <2> QED BY <1>2, <1>4, <2>2 DEF Hidden, CurrentStateIsLatest
<1>5. CASE StoreEvent
  <2> DEFINE id == Head(accepted).id
  <2>1. id \in Known /\ UNCHANGED ev /\ log' = Append(log, [id |-> id, shown |-> TRUE])
    BY <1>5, NextToStore DEF StoreEvent
  <2>2. StateAt(n + 1)' = Applied(StateAt(n), ev[id], id) /\ Len(log') = n + 1
    BY <1>1, <2>1, StateShown, LogGrows DEF TypeInv, TypeOK
  <2>3. members' = Applied(members, ev[id], id) BY <1>5, MembersStored
  <2> QED BY <1>2, <2>2, <2>3 DEF CurrentStateIsLatest
<1> QED BY <1>3, <1>4, <1>5, DatabaseStep

LEMMA LatestInit == Init => CurrentStateIsLatest
<1> SUFFICES ASSUME Init PROVE CurrentStateIsLatest
  OBVIOUS
<1>1. Len(log) = 0 /\ members = Nobody BY DEF Init
<1>2. \A u \in Users : Changes(0, u) = {} BY DEF Changes
<1> QED BY <1>1, <1>2 DEF CurrentStateIsLatest, StateAt, Nobody

(* The member a room has now is the latest of its history: the current     *)
(* index, overwritten by each member event, never drifts from the one that *)
(* step 5 reads.                                                           *)
THEOREM CurrentStateCorrect == Spec => []CurrentStateIsLatest
<1>1. TypeInv /\ CurrentStateIsLatest /\ [Next]_vars => CurrentStateIsLatest'
  BY LatestNext
<1> QED BY <1>1, LatestInit, TypeAlways, PTL DEF Spec

-----------------------------------------------------------------------------
(* Members, joined-member keys and servers.                                *)

LEMMA JoinedStored ==
  ASSUME TypeInv, StoreEvent
  PROVE  LET id == Head(accepted).id
             e  == ev[id]
         IN Joined' = IF e.kind = "join" THEN Joined \cup {e.target}
                      ELSE IF e.kind \in MemberKinds THEN Joined \ {e.target} ELSE Joined
<1> DEFINE id == Head(accepted).id
           e  == ev[id]
<1>1. id \in Known /\ e \in Event /\ UNCHANGED ev BY NextToStore DEF StoreEvent
<1>2. members' = Applied(members, e, id) BY MembersStored
<1>3. members \in States /\ e.target \in Users /\ id # 0
  BY <1>1 DEF Event, Known, TypeInv, TypeOK, DatabaseOK
<1>4. \A u \in Users : Membership(members, u)' =
        IF e.kind \in MemberKinds /\ u = e.target THEN e.kind ELSE Membership(members, u)
  BY <1>1, <1>2, <1>3 DEF Membership, Applied, States
<1> QED BY <1>3, <1>4 DEF Joined, MemberKinds

LEMMA JoinedKept ==
  ASSUME TypeInv, [Next]_vars, members' = members
  PROVE  Joined' = Joined
<1>1. \A u \in Users : members[u] = 0 \/ members[u] \in Known
  BY KnownIds DEF Known, States, TypeInv, TypeOK, DatabaseOK
<1>2. \A u \in Users : Membership(members, u)' = Membership(members, u)
  BY <1>1, EventsNeverChange DEF Membership
<1> QED BY <1>2 DEF Joined

LEMMA ServersNext ==
  ASSUME TypeInv, ServersMatchMembers, [Next]_vars
  PROVE  ServersMatchMembers'
<1>1. CASE Quiet \/ Hidden
  <2>1. UNCHANGED <<members, joined, servers>> BY <1>1 DEF Quiet, Hidden, db
  <2>2. Joined' = Joined BY <2>1, JoinedKept
  <2> QED BY <2>1, <2>2 DEF ServersMatchMembers
<1>2. CASE StoreEvent
  <2> DEFINE id == Head(accepted).id
             e  == ev[id]
             t  == e.target
  <2>1. e \in Event BY <1>2, NextToStore DEF StoreEvent
  <2>2. t \in Users /\ Home[t] \in Servers BY <2>1, HomeAssumption DEF Event
  <2>3. Joined' = IF e.kind = "join" THEN Joined \cup {t}
                  ELSE IF e.kind \in MemberKinds THEN Joined \ {t} ELSE Joined
    BY <1>2, JoinedStored
  <2>4. Joined \subseteq Users BY DEF Joined
  <2>5. joined \in [Servers -> SUBSET Users] BY DEF TypeInv, TypeOK, DatabaseOK
  <2>6. CASE e.kind \notin MemberKinds
    <3>1. Joined' = Joined BY <2>3, <2>6 DEF MemberKinds
    <3> QED BY <1>2, <2>6, <3>1 DEF StoreEvent, ServersMatchMembers
  <2>7. CASE e.kind \in MemberKinds
    <3>1. joined' = JoinedAfter(e) /\ servers' = ServersAfter(e)
      BY <1>2, <2>7 DEF StoreEvent, StoreMember
    <3>2. \A s \in Servers : joined'[s] = {u \in Joined' : Home[u] = s}
      <4>1. CASE e.kind = "join"
        BY <2>2, <2>3, <2>4, <2>5, <3>1, <4>1 DEF JoinedAfter, ServersMatchMembers
      <4>2. CASE e.kind # "join"
        BY <2>2, <2>3, <2>4, <2>5, <2>7, <3>1, <4>2 DEF JoinedAfter, ServersMatchMembers
      <4> QED BY <4>1, <4>2
    <3>3. servers' = {Home[u] : u \in Joined'}
      <4>1. CASE e.kind = "join"
        <5>1. servers' = servers \cup {Home[t]} BY <3>1, <4>1 DEF ServersAfter
        <5>2. Joined' = Joined \cup {t} BY <2>3, <4>1
        <5> QED BY <5>1, <5>2 DEF ServersMatchMembers
      <4>2. CASE e.kind # "join"
        <5>1. Joined' = Joined \ {t} BY <2>3, <2>7, <4>2
        <5>2. servers' = IF joined'[Home[t]] = {} THEN servers \ {Home[t]} ELSE servers
          BY <3>1, <4>2 DEF ServersAfter
        <5>3. joined'[Home[t]] = {u \in Joined' : Home[u] = Home[t]} BY <2>2, <3>2
        <5>4. CASE joined'[Home[t]] = {}
          BY <5>1, <5>2, <5>3, <5>4 DEF ServersMatchMembers
        <5>5. CASE joined'[Home[t]] # {}
          <6>1. PICK u \in Joined' : Home[u] = Home[t] BY <5>3, <5>5
          <6> QED BY <5>1, <5>2, <5>5, <6>1 DEF ServersMatchMembers
        <5> QED BY <5>4, <5>5
      <4> QED BY <4>1, <4>2
    <3> QED BY <3>2, <3>3 DEF ServersMatchMembers
  <2> QED BY <2>6, <2>7
<1> QED BY <1>1, <1>2, DatabaseStep

LEMMA ServersInit == Init => ServersMatchMembers
<1> SUFFICES ASSUME Init PROVE ServersMatchMembers
  OBVIOUS
<1>1. Joined = {} BY DEF Init, Joined, Membership, Nobody
<1> QED BY <1>1 DEF Init, ServersMatchMembers

(* Whatever mix of local sends, federated batches, invites, retries and    *)
(* crashes stores member events, a server is in the room exactly when one  *)
(* of its users is.                                                        *)
THEOREM ServersCorrect == Spec => []ServersMatchMembers
<1>1. TypeInv /\ ServersMatchMembers /\ [Next]_vars => ServersMatchMembers'
  BY ServersNext
<1> QED BY <1>1, ServersInit, TypeAlways, PTL DEF Spec
=============================================================================
