--------------------------- MODULE RoomIndexProofs ---------------------------
(* What the indices of the room say of its events: forward extremities, the *)
(* create event, places in the timeline, reactions.  The argument follows   *)
(* the events of a batch from one transaction to the next: those still to   *)
(* do, those kept, those the flight carries on, and what the database says  *)
(* of each.                                                                 *)
EXTENDS RoomTimelineProofs

-----------------------------------------------------------------------------
(* Sequences of event IDs.                                                 *)

Elems(s)   == {s[i] : i \in 1..Len(s)}
(* No event of E comes twice.                                              *)
Once(s, E) == \A i, j \in 1..Len(s) : s[i] = s[j] /\ s[i] \in E => i = j

(* The events a transaction has kept.                                      *)
Picked == [k \in 1..Len(accepted) |-> accepted[k].id]

LEMMA ElemsTail ==
  ASSUME NEW S, NEW s \in Seq(S), s # <<>>, NEW E
  PROVE  /\ Head(s) \in S /\ Tail(s) \in Seq(S)
         /\ Elems(s) = {Head(s)} \cup Elems(Tail(s))
         /\ Once(s, E) => Once(Tail(s), E) /\ Head(s) \notin Elems(Tail(s)) \cap E
<1>1. PICK n \in Nat : Len(Tail(s)) = n /\ Len(s) = n + 1
  BY HeadTailSeq, LenProperties
<1>2. /\ Head(s) = s[1] /\ \A i \in 1..n : Tail(s)[i] = s[i + 1]
      /\ Head(s) \in S /\ Tail(s) \in Seq(S)
  BY <1>1, HeadTailSeq
<1>3. ASSUME NEW i \in 1..(n + 1), i # 1
      PROVE  \E j \in 1..n : i = j + 1
  <2>1. i - 1 \in 1..n /\ i = (i - 1) + 1 BY <1>1, <1>3
  <2> QED BY <2>1
<1>4. \A i \in 1..n : i + 1 \in 1..(n + 1) /\ i + 1 # 1 OBVIOUS
<1>5. Elems(s) = {Head(s)} \cup Elems(Tail(s))
  <2>1. Elems(s) \subseteq {Head(s)} \cup Elems(Tail(s))
    <3>1. ASSUME NEW i \in 1..(n + 1)
          PROVE  s[i] = Head(s) \/ \E j \in 1..n : s[i] = Tail(s)[j]
      <4>1. CASE i = 1 BY <1>2, <4>1
      <4>2. CASE i # 1 BY <1>2, <1>3, <4>2
      <4> QED BY <4>1, <4>2
    <3> QED BY <1>1, <3>1 DEF Elems
  <2>2. {Head(s)} \cup Elems(Tail(s)) \subseteq Elems(s)
    <3>1. \A i \in 1..n : Tail(s)[i] = s[i + 1] /\ i + 1 \in 1..(n + 1) BY <1>2, <1>4
    <3> QED BY <1>1, <1>2, <3>1 DEF Elems
  <2> QED BY <2>1, <2>2
<1>6. ASSUME Once(s, E) PROVE Once(Tail(s), E) /\ Head(s) \notin Elems(Tail(s)) \cap E
  <2>1. \A i, j \in 1..n : Tail(s)[i] = Tail(s)[j] /\ Tail(s)[i] \in E => i + 1 = j + 1
    BY <1>1, <1>2, <1>4, <1>6 DEF Once
  <2>2. \A i \in 1..n : Tail(s)[i] = Head(s) => Head(s) \notin E
    BY <1>1, <1>2, <1>4, <1>6 DEF Once
  <2> QED BY <1>1, <2>1, <2>2 DEF Once, Elems
<1> QED BY <1>2, <1>5, <1>6

LEMMA ElemsAppend ==
  ASSUME NEW S, NEW s \in Seq(S), NEW x \in S, NEW E
  PROVE  /\ Append(s, x) \in Seq(S)
         /\ Elems(Append(s, x)) = Elems(s) \cup {x}
         /\ Once(s, E) /\ x \notin Elems(s) \cap E => Once(Append(s, x), E)
<1>1. PICK n \in Nat : Len(s) = n BY LenProperties
<1>2. /\ Len(Append(s, x)) = n + 1 /\ Append(s, x)[n + 1] = x
      /\ \A i \in 1..n : Append(s, x)[i] = s[i] /\ Append(s, x) \in Seq(S)
  BY <1>1, AppendSeq
<1>3. \A i \in 1..(n + 1) : i = n + 1 \/ i \in 1..n OBVIOUS
<1>4. Elems(Append(s, x)) = Elems(s) \cup {x} BY <1>1, <1>2, <1>3 DEF Elems
<1>5. Once(s, E) /\ x \notin Elems(s) \cap E => Once(Append(s, x), E)
  BY <1>1, <1>2, <1>3 DEF Elems, Once
<1> QED BY <1>2, <1>4, <1>5, AppendSeq

LEMMA ElemsEmpty == Elems(<<>>) = {} /\ \A E : Once(<<>>, E)
  BY EmptySeq DEF Elems, Once

LEMMA ElemsTyped ==
  ASSUME NEW S, NEW s \in Seq(S)
  PROVE  Elems(s) \subseteq S
  BY ElementOfSeq DEF Elems

LEMMA PickedTyped ==
  ASSUME TypeInv
  PROVE  /\ Picked \in Seq(Known) /\ Len(Picked) = Len(accepted)
         /\ Len(accepted) \in Nat
         /\ \A k \in 1..Len(accepted) : Picked[k] = accepted[k].id
<1>1. Len(accepted) \in Nat /\ \A k \in 1..Len(accepted) : accepted[k].id \in Known
  BY AcceptedTyped DEF Accepted
<1>2. Picked \in Seq(Known) BY <1>1, IsASeq DEF Picked
<1>3. Len(Picked) = Len(accepted) BY <1>1, <1>2, LenProperties DEF Picked
<1> QED BY <1>1, <1>2, <1>3 DEF Picked

LEMMA PickedNone ==
  ASSUME accepted' = <<>>
  PROVE  Picked' = <<>>
<1>1. Len(accepted') = 0 BY EmptySeq
<1>2. Picked' \in Seq({}) /\ Len(Picked') = 0
  BY <1>1, IsASeq, LenProperties DEF Picked
<1> QED BY <1>2, EmptySeq

LEMMA PickedKept ==
  ASSUME TypeInv, TypeInv', NEW id \in Known', NEW soft,
         accepted' = Keep(id, soft), Grows
  PROVE  /\ Picked' = Append(Picked, id) /\ Len(accepted') = Len(accepted) + 1
         /\ accepted'[Len(accepted) + 1].id = id
         /\ accepted'[Len(accepted) + 1].soft = soft
         /\ \A k \in 1..Len(accepted) : accepted'[k] = accepted[k]
<1>1. PICK n \in Nat : n = Len(accepted) BY AcceptedTyped
<1>2. PICK a : a = [id |-> id, soft |-> soft, was |-> auth] OBVIOUS
<1>3. accepted' = Append(accepted, a) BY <1>2 DEF Keep
<1>4. accepted \in Seq(Accepted) BY DEF TypeInv, TypeOK, TransactionOK
<1>5. /\ Len(accepted') = n + 1 /\ accepted'[n + 1] = a
      /\ \A k \in 1..n : accepted'[k] = accepted[k]
  <2>1. accepted \in Seq(Accepted \cup {a})
    BY <1>4, SeqMonotonic
  <2> QED BY <1>1, <1>3, <2>1, AppendSeq
<1>6. PICK p \in Seq(Known') : p = Append(Picked, id)
  BY PickedTyped, KnownGrows, AppendSeq
<1>7. Len(p) = n + 1 /\ p[n + 1] = id /\ \A k \in 1..n : p[k] = Picked[k]
  BY <1>1, <1>6, PickedTyped, KnownGrows, AppendSeq
<1>8. \A k \in 1..(n + 1) : p[k] = accepted'[k].id
  <2>1. \A k \in 1..(n + 1) : k = n + 1 \/ k \in 1..n OBVIOUS
  <2> QED BY <1>1, <1>2, <1>5, <1>7, <2>1, PickedTyped
<1>9. p = [k \in 1..(n + 1) |-> accepted'[k].id]
  <2>1. p = [k \in 1..(n + 1) |-> p[k]] BY <1>7, LenProperties
  <2> QED BY <1>8, <2>1
<1> QED BY <1>1, <1>2, <1>5, <1>6, <1>9 DEF Picked

LEMMA PickedTail ==
  ASSUME TypeInv, accepted # <<>>, accepted' = Tail(accepted)
  PROVE  /\ Picked # <<>> /\ Picked' = Tail(Picked) /\ Head(Picked) = Head(accepted).id
         /\ accepted[1] = Head(accepted) /\ Len(accepted') = Len(accepted) - 1
         /\ \A k \in 1..Len(accepted') : accepted'[k] = accepted[k + 1]
<1>1. PICK n \in Nat : Len(accepted) = n + 1 /\ Len(accepted') = n
  BY HeadTailSeq, LenProperties DEF TypeInv, TypeOK, TransactionOK
<1>2. Head(accepted) = accepted[1] /\ \A k \in 1..n : accepted'[k] = accepted[k + 1]
  BY <1>1, HeadTailSeq DEF TypeInv, TypeOK, TransactionOK
<1>3. Picked # <<>> BY <1>1, PickedTyped, EmptySeq
<1>4. PICK p \in Seq(Known) : p = Tail(Picked) BY <1>3, PickedTyped, HeadTailSeq
<1>5. /\ Len(p) = n /\ Head(Picked) = Picked[1]
      /\ \A k \in 1..n : p[k] = Picked[k + 1]
  BY <1>1, <1>3, <1>4, PickedTyped, HeadTailSeq, LenProperties
<1>6. \A k \in 1..n : k + 1 \in 1..(n + 1) OBVIOUS
<1>7. \A k \in 1..n : p[k] = accepted'[k].id BY <1>1, <1>2, <1>5, <1>6, PickedTyped
<1>8. p = [k \in 1..n |-> accepted'[k].id]
  <2>1. p = [k \in 1..n |-> p[k]] BY <1>5, LenProperties
  <2> QED BY <1>7, <2>1
<1> QED BY <1>1, <1>2, <1>3, <1>4, <1>5, <1>8, PickedTyped DEF Picked

-----------------------------------------------------------------------------
(* What the transaction at work is: of which request, and at which of its   *)
(* events.                                                                 *)

Steps       == {"step4", "step5", "step6"}
BatchIds(f) == Elems(flights[f].batch)
LocalWork   == phase = "prepare" \/ (phase = "store" /\ owner = LocalSend)
FlightWork  == phase \in Steps \/ (phase = "store" /\ owner # LocalSend)

AtWork ==
  /\ phase \in Steps => owner \in Flights /\ flights[owner].pc = phase
  /\ phase = "store" /\ owner # LocalSend => flights[owner].pc = "step6"
  /\ phase = "prepare" => owner = LocalSend
  /\ FlightWork => Elems(todo) \cup Elems(Picked) \subseteq BatchIds(owner)
  /\ phase = "idle" => accepted = <<>>

(* Steps 4 to 6 take the next event and keep it or not.                    *)
Reads(kept) ==
  LET id == Head(todo)
  IN /\ phase \in Steps /\ todo # <<>> /\ todo' = Tail(todo)
     /\ UNCHANGED <<ev, db, phase, owner, partials, heads>>
     /\ IF kept THEN \E soft : accepted' = Keep(id, soft) ELSE accepted' = accepted
     /\ \A f \in Flights :
          flights'[f].pc = flights[f].pc /\ flights'[f].batch = flights[f].batch
     /\ phase = "step4" /\ kept => PassesStep4(id)

LEMMA ReadsShape ==
  ASSUME TypeInv, AtWork, Step4One \/ Step5One \/ Step6One
  PROVE  \E kept \in BOOLEAN : Reads(kept)
<1>1. flights \in [Flights -> Flight] BY DEF TypeInv, TypeOK
<1>2. PICK id : id = Head(todo) OBVIOUS
<1>4. CASE Step4One
  <2>1. /\ phase = "step4" /\ todo # <<>>
        /\ UNCHANGED <<ev, db, flights, phase, owner, partials, heads>>
        /\ Decide(id, PassesStep4(id))
    BY <1>2, <1>4 DEF Step4One
  <2>2. CASE PassesStep4(id)
    <3>1. Reads(TRUE) BY <1>2, <2>1, <2>2 DEF Reads, Decide, Steps
    <3> QED BY <3>1
  <2>3. CASE ~PassesStep4(id)
    <3>1. Reads(FALSE) BY <1>2, <2>1, <2>3 DEF Reads, Decide, Steps
    <3> QED BY <3>1
  <2> QED BY <2>2, <2>3
<1>5. CASE Step5One
  <2>1. /\ phase = "step5" /\ todo # <<>>
        /\ UNCHANGED <<ev, db, flights, phase, owner, partials, heads>>
    BY <1>5 DEF Step5One
  <2>2. PICK ok \in BOOLEAN : Decide(id, ok)
    <3>1. \A m : (Allowed(ev[id], m) /\ HasCreate(ev[id])) \in BOOLEAN OBVIOUS
    <3> QED BY <1>2, <1>5, <3>1 DEF Step5One, Judge
  <2>3. Reads(ok) BY <1>2, <2>1, <2>2 DEF Reads, Decide, Steps
  <2> QED BY <2>3
<1>6. CASE Step6One
  <2>1. /\ phase = "step6" /\ todo # <<>> /\ todo' = Tail(todo)
        /\ UNCHANGED <<ev, db, phase, owner, partials, heads>>
        /\ \E soft : accepted' = Keep(id, soft)
    BY <1>2, <1>6 DEF Step6One
  <2>2. \A f \in Flights :
          flights'[f].pc = flights[f].pc /\ flights'[f].batch = flights[f].batch
    BY <1>1, <1>6 DEF Step6One, Flight
  <2>3. Reads(TRUE) BY <1>2, <2>1, <2>2 DEF Reads, Steps
  <2> QED BY <2>3
<1> QED BY <1>4, <1>5, <1>6

(* An event of the batch is stored.                                        *)
Stores(id) ==
  /\ phase = "store" /\ phase' = "store" /\ accepted # <<>> /\ id = Head(accepted).id
  /\ accepted' = Tail(accepted) /\ UNCHANGED <<ev, flights, owner, todo, partials>>

LEMMA StoresShape ==
  ASSUME TypeInv, StoreEvent
  PROVE  Stores(Head(accepted).id)
  BY DEF StoreEvent, Stores

(* A transaction begins, for a local send or for a flight; or ends.        *)
Begins ==
  /\ phase = "idle" /\ UNCHANGED <<ev, db, flights>> /\ accepted' = <<>>
  /\ \/ phase' = "prepare" /\ owner' = LocalSend /\ todo' = <<>>
     \/ /\ phase' \in Steps /\ owner' \in Flights
        /\ phase' = flights[owner'].pc /\ todo' = flights[owner'].batch

LEMMA BeginsShape ==
  ASSUME TypeInv,
         \/ CreateRoom \/ SendLocal
         \/ \E f \in Flights : BeginStep4(f) \/ BeginStep5(f) \/ BeginStep6(f)
  PROVE  Begins
  BY DEF CreateRoom, SendLocal, BeginLocal, BeginStep4, BeginStep5, BeginStep6, Take,
         Begins, Steps

Ends ==
  /\ Release /\ UNCHANGED <<ev, db>>
  /\ \/ flights' = [flights EXCEPT ![owner] = Idle]
     \/ flights' = [f \in Flights |-> Idle]
     \/ flights' = flights /\ phase \notin {"step4", "step5"}

LEMMA EndsShape ==
  ASSUME TypeInv, MissingAuthEvent \/ Retry \/ AbortStore \/ Commit \/ Crash
  PROVE  Ends
  BY DEF MissingAuthEvent, Retry, AbortStore, Commit, Crash, Ends, Authorised

(* A flight leaves step 4 or 5 with what it kept.                          *)
Passes(next) ==
  /\ Release /\ UNCHANGED <<ev, db>> /\ phase \in {"step4", "step5"} /\ todo = <<>>
  /\ \/ flights' = [flights EXCEPT ![owner] = Idle]
     \/ flights' = Goto(owner, next, Picked)

LEMMA PassesShape ==
  ASSUME TypeInv, EndStep4 \/ EndStep5
  PROVE  \E next \in {"step5", "step6"} : Passes(next)
  BY DEF EndStep4, EndStep5, EndRead, Passes, Picked

(* A flight starts, or its batch is refused.                               *)
Arrives(f, new) ==
  /\ phase = "idle" /\ UNCHANGED <<db, work>>
  /\ flights' = [flights EXCEPT ![f] = new]
  /\ new.pc \in {"idle", "step4"}

LEMMA ArrivesShape ==
  ASSUME TypeInv, NEW f \in Flights,
         ReceivePDUs(f) \/ JoinRemote(f) \/ PrepareInvite(f) \/ RefuseBatch(f)
  PROVE  \E new : Arrives(f, new)
<1>1. PICK new : /\ flights' = [flights EXCEPT ![f] = new]
                 /\ new = Idle \/ \E b, skip : new = Start(b, skip)
  <2>1. CASE ReceivePDUs(f) BY <2>1 DEF ReceivePDUs
  <2>2. CASE JoinRemote(f) BY <2>2 DEF JoinRemote
  <2>3. CASE PrepareInvite(f) BY <2>3 DEF PrepareInvite
  <2>4. CASE RefuseBatch(f) BY <2>4 DEF RefuseBatch
  <2> QED BY <2>1, <2>2, <2>3, <2>4
<1>3. new.pc \in {"idle", "step4"}
  <2>1. \A b, skip : Start(b, skip).pc = "step4" BY DEF Start, Idle
  <2>2. Idle.pc = "idle" BY DEF Idle
  <2> QED BY <1>1, <2>1, <2>2
<1>2. phase = "idle" /\ UNCHANGED <<db, work>>
  BY DEF ReceivePDUs, JoinRemote, PrepareInvite, RefuseBatch
<1> QED BY <1>1, <1>2, <1>3 DEF Arrives

LEMMA ReadsPicked ==
  ASSUME TypeInv, TypeInv', NEW kept \in BOOLEAN, Reads(kept)
  PROVE  /\ Picked' = IF kept THEN Append(Picked, Head(todo)) ELSE Picked
         /\ Head(todo) \in Known /\ Elems(todo) = {Head(todo)} \cup Elems(todo')
         /\ Elems(Picked') = Elems(Picked) \cup (IF kept THEN {Head(todo)} ELSE {})
<1>1. todo \in Seq(Known) /\ todo # <<>> /\ todo' = Tail(todo) /\ UNCHANGED ev
  BY DEF Reads, TypeInv, TypeOK, TransactionOK
<1>2. /\ Head(todo) \in Known /\ Head(todo) \in Known' /\ Grows
      /\ Elems(todo) = {Head(todo)} \cup Elems(todo')
  BY <1>1, ElemsTail, SameEvents, KnownIds DEF Grows
<1>3. Picked' = IF kept THEN Append(Picked, Head(todo)) ELSE Picked
  BY <1>2, PickedKept DEF Reads, Picked
<1>4. Elems(Picked') = Elems(Picked) \cup (IF kept THEN {Head(todo)} ELSE {})
  <2>1. CASE kept BY <1>2, <1>3, <2>1, PickedTyped, ElemsAppend
  <2>2. CASE ~kept BY <1>3, <2>2
  <2> QED BY <2>1, <2>2
<1> QED BY <1>2, <1>3, <1>4

LEMMA StoresPicked ==
  ASSUME TypeInv, NEW id, Stores(id), NEW E
  PROVE  /\ Picked # <<>> /\ Picked' = Tail(Picked) /\ id = Head(Picked) /\ id \in Known
         /\ Elems(Picked) = {id} \cup Elems(Picked')
         /\ Once(Picked, E) => Once(Picked', E) /\ id \notin Elems(Picked') \cap E
<1>1. Picked # <<>> /\ Picked' = Tail(Picked) /\ id = Head(Picked)
  BY PickedTail DEF Stores
<1> QED BY <1>1, PickedTyped, ElemsTail

LEMMA AtWorkReads ==
  ASSUME TypeInv, TypeInv', AtWork, Step4One \/ Step5One \/ Step6One
  PROVE  AtWork'
<1>1. PICK kept \in BOOLEAN : Reads(kept) BY ReadsShape
<1>2. /\ phase \in Steps /\ owner \in Flights /\ phase' = phase /\ owner' = owner
      /\ flights'[owner].pc = flights[owner].pc
      /\ flights'[owner].batch = flights[owner].batch
  BY <1>1 DEF AtWork, Reads
<1>3. Elems(todo') \cup Elems(Picked') \subseteq Elems(todo) \cup Elems(Picked)
  BY <1>1, ReadsPicked
<1> QED BY <1>2, <1>3 DEF AtWork, FlightWork, BatchIds, Steps

LEMMA AtWorkStores ==
  ASSUME TypeInv, AtWork, StoreEvent
  PROVE  AtWork'
<1>1. PICK id : Stores(id) BY StoresShape
<1>2. Elems(Picked') \subseteq Elems(Picked) BY <1>1, StoresPicked
<1>3. /\ phase = "store" /\ phase' = "store" /\ owner' = owner
      /\ flights' = flights /\ todo' = todo
  BY <1>1 DEF Stores
<1> QED BY <1>2, <1>3 DEF AtWork, FlightWork, BatchIds, Steps

LEMMA AtWorkNext ==
  ASSUME TypeInv, AtWork, [Next]_vars
  PROVE  AtWork'
<1>1. CASE \/ CreateRoom \/ SendLocal
           \/ \E f \in Flights : BeginStep4(f) \/ BeginStep5(f) \/ BeginStep6(f)
  <2>1. Begins BY <1>1, BeginsShape
  <2>2. Elems(Picked') = {} BY <2>1, PickedNone, ElemsEmpty DEF Begins
  <2> QED BY <2>1, <2>2 DEF Begins, AtWork, FlightWork, BatchIds, Steps
<1>2. CASE \/ MissingAuthEvent \/ Retry \/ AbortStore \/ Commit \/ Crash
           \/ EndStep4 \/ EndStep5
  <2>1. Release BY <1>2, EndsShape, PassesShape DEF Ends, Passes
  <2> QED BY <2>1 DEF Release, AtWork, FlightWork, Steps
<1>3. ASSUME NEW f \in Flights,
             ReceivePDUs(f) \/ JoinRemote(f) \/ PrepareInvite(f) \/ RefuseBatch(f)
      PROVE  AtWork'
  <2>1. phase = "idle" /\ UNCHANGED work BY <1>3, ArrivesShape DEF Arrives
  <2> QED BY <2>1 DEF AtWork, FlightWork, Steps, work
<1>4. CASE RemoteSend \/ SignInvite \/ UNCHANGED vars
  <2>1. UNCHANGED <<flights, phase, owner, todo, accepted>>
    BY <1>4 DEF RemoteSend, SignInvite, vars, work
  <2> QED BY <2>1 DEF AtWork, FlightWork, BatchIds, Picked, Steps
<1>5. CASE PrepareOne
  BY <1>5 DEF PrepareOne, AtWork, FlightWork, Steps
<1>6. CASE Step4One \/ Step5One \/ Step6One BY <1>6, TypeNext, AtWorkReads
<1>7. CASE BeginStore
  <2>1. /\ phase \in {"prepare", "step6"} /\ phase' = "store"
        /\ UNCHANGED <<flights, owner, todo, accepted>>
    BY <1>7 DEF BeginStore, Authorised
  <2> QED BY <1>7, <2>1, OwnerAssumption
          DEF BeginStore, AtWork, FlightWork, BatchIds, Picked, Steps
<1>8. CASE StoreEvent BY <1>8, AtWorkStores
<1> QED BY <1>1, <1>2, <1>3, <1>4, <1>5, <1>6, <1>7, <1>8 DEF Next

LEMMA AtWorkInit == Init => AtWork
  BY DEF Init, AtWork, FlightWork, Steps

-----------------------------------------------------------------------------
(* The timeline and the ID to version index.                               *)

LEMMA ShownIds ==
  ASSUME DatabaseOK
  PROVE  /\ Shown \subseteq Known
         /\ \A id : id \in Shown <=> \E v \in 1..Len(log) : log[v].shown /\ log[v].id = id
  BY LogTyped DEF Shown

LEMMA ShownAppended ==
  ASSUME DatabaseOK, DatabaseOK', NEW id \in Known, NEW b \in BOOLEAN, UNCHANGED ev,
         log' = Append(log, [id |-> id, shown |-> b])
  PROVE  Shown' = IF b THEN Shown \cup {id} ELSE Shown
<1>1. PICK n \in Nat : n = Len(log) BY LogTyped
<1>2. /\ Len(log') = n + 1 /\ log'[n + 1].id = id /\ log'[n + 1].shown = b
      /\ \A w \in 1..n : log'[w] = log[w]
  BY <1>1, LogGrows DEF Kept
<1>3. \A v \in 1..(n + 1) : v = n + 1 \/ v \in 1..n BY <1>1
<1>4. \A v \in 1..n : v \in 1..(n + 1) /\ n + 1 \in 1..(n + 1) BY <1>1
<1>5. n + 1 \in 1..(n + 1) BY <1>1
<1>6. DOMAIN log = 1..n /\ DOMAIN log' = 1..(n + 1)
  BY <1>1, <1>2, LogTyped, LenProperties DEF DatabaseOK
<1> QED BY <1>2, <1>3, <1>4, <1>5, <1>6 DEF Shown

LEMMA ShownNext ==
  ASSUME TypeInv, [Next]_vars
  PROVE  \/ Shown' = Shown
         \/ StoreEvent /\ Shown' = Shown \cup {Head(accepted).id}
<1>1. DatabaseOK /\ DatabaseOK' BY TypeNext DEF TypeInv, TypeOK
<1>2. CASE Quiet BY <1>2 DEF Quiet, db, Shown
<1>3. CASE Hidden BY <1>1, <1>3, ShownAppended DEF Hidden
<1>4. CASE StoreEvent
  <2>1. Head(accepted).id \in Known BY <1>4, NextToStore DEF StoreEvent
  <2> QED BY <1>1, <1>4, <2>1, ShownAppended DEF StoreEvent
<1> QED BY <1>2, <1>3, <1>4, DatabaseStep

LEMMA IndexNext ==
  ASSUME TypeInv, [Next]_vars, ~StoreEvent
  PROVE  UNCHANGED <<idToVersion, room, reactions, extrem>>
<1>1. CASE SignInvite BY <1>1 DEF SignInvite
<1>2. CASE RemoteSend \/ PrepareOne \/ CreateRoom \/ SendLocal \/ UNCHANGED vars
  BY <1>2 DEF RemoteSend, PrepareOne, CreateRoom, SendLocal, BeginLocal, vars, db
<1>3. CASE \E f \in Flights : \/ ReceivePDUs(f) \/ JoinRemote(f) \/ PrepareInvite(f)
                              \/ BeginStep4(f) \/ RefuseBatch(f) \/ BeginStep5(f)
                              \/ BeginStep6(f)
  BY <1>3 DEF ReceivePDUs, JoinRemote, PrepareInvite, BeginStep4, RefuseBatch,
              BeginStep5, BeginStep6, db
<1>4. CASE \/ Step4One \/ MissingAuthEvent \/ EndStep4 \/ Step5One \/ EndStep5
           \/ Step6One \/ Retry \/ AbortStore \/ BeginStore \/ Commit \/ Crash
  BY <1>4 DEF Step4One, MissingAuthEvent, EndStep4, Step5One, EndStep5, EndRead,
              Step6One, Retry, AbortStore, BeginStore, Commit, Crash, db
<1> QED BY <1>1, <1>2, <1>3, <1>4 DEF Next

(* Only BeginStore and the writes after it reach the phase of the writes.   *)
LEMMA PhaseNext ==
  ASSUME TypeInv, [Next]_vars, ~StoreEvent, ~BeginStore, ~UNCHANGED vars
  PROVE  phase' # "store"
<1>1. CASE \/ CreateRoom \/ SendLocal
           \/ \E f \in Flights : BeginStep4(f) \/ BeginStep5(f) \/ BeginStep6(f)
  BY <1>1, BeginsShape DEF Begins, Steps
<1>2. CASE \/ MissingAuthEvent \/ Retry \/ AbortStore \/ Commit \/ Crash
           \/ EndStep4 \/ EndStep5
  BY <1>2, EndsShape, PassesShape DEF Ends, Passes, Release
<1>3. CASE \/ RemoteSend \/ SignInvite \/ PrepareOne
           \/ \E f \in Flights : \/ ReceivePDUs(f) \/ JoinRemote(f) \/ PrepareInvite(f)
                                 \/ RefuseBatch(f)
  BY <1>3 DEF RemoteSend, SignInvite, PrepareOne, ReceivePDUs, JoinRemote,
              PrepareInvite, RefuseBatch, work
<1>4. CASE Step4One \/ Step5One \/ Step6One
  BY <1>4 DEF Step4One, Step5One, Step6One
<1> QED BY <1>1, <1>2, <1>3, <1>4 DEF Next

ShownIndexed == \A id \in Shown : idToVersion[id] # 0

LEMMA ShownIndexedNext ==
  ASSUME TypeInv, ShownIndexed, [Next]_vars
  PROVE  ShownIndexed'
<1>1. CASE StoreEvent
  <2>1. PICK id : id = Head(accepted).id /\ id \in Ids
    BY <1>1, NextToStore DEF StoreEvent
  <2>2. /\ idToVersion' = [idToVersion EXCEPT ![id] = Len(log) + 1]
        /\ idToVersion \in [Ids -> 0..Len(log)] /\ Len(log) \in Nat
    BY <1>1, <2>1, LogTyped DEF StoreEvent, TypeInv, TypeOK, DatabaseOK
  <2>3. idToVersion'[id] # 0 /\ \A i \in Ids : i # id => idToVersion'[i] = idToVersion[i]
    BY <2>1, <2>2
  <2>4. Shown' \subseteq Shown \cup {id} /\ Shown \subseteq Ids
    BY <2>1, ShownNext, ShownIds, KnownIds DEF TypeInv, TypeOK
  <2> QED BY <2>3, <2>4 DEF ShownIndexed
<1>2. CASE ~StoreEvent BY <1>2, IndexNext, ShownNext DEF ShownIndexed
<1> QED BY <1>1, <1>2

(* The versions of the timeline: a stored event takes the next.            *)
LEMMA VersionsNext ==
  ASSUME TypeInv, [Next]_vars, ~StoreEvent
  PROVE  /\ ShownVersions' = ShownVersions
         /\ \A v \in ShownVersions : log'[v] = log[v] /\ log[v].id \in Known
<1>0. \A v \in ShownVersions : log[v].id \in Known
  BY LogTyped DEF ShownVersions, TypeInv, TypeOK
<1>1. CASE Quiet BY <1>0, <1>1 DEF Quiet, db, ShownVersions
<1>2. CASE Hidden
  <2>1. PICK id \in Known : log' = Append(log, [id |-> id, shown |-> FALSE])
    BY <1>2 DEF Hidden
  <2>2. PICK n \in Nat : Len(log) = n BY LogTyped DEF TypeInv, TypeOK
  <2>3. /\ \A v \in 1..n : log'[v] = log[v]
        /\ log'[n + 1] = [id |-> id, shown |-> FALSE]
        /\ DOMAIN log = 1..n /\ DOMAIN log' = 1..(n + 1)
    BY <1>2, <2>1, <2>2, LogGrows, LogTyped, LenProperties DEF Hidden, Kept, TypeInv, TypeOK
  <2>4. \A v \in 1..(n + 1) : v = n + 1 \/ v \in 1..n BY <2>2
  <2> QED BY <1>0, <2>3, <2>4 DEF ShownVersions
<1> QED BY <1>1, <1>2, DatabaseStep

LEMMA VersionsStored ==
  ASSUME TypeInv, StoreEvent, NEW n \in Nat, n = Len(log)
  PROVE  LET id == Head(accepted).id
         IN /\ id \in Known /\ ev[id] \in Event /\ UNCHANGED ev
            /\ ShownVersions' = ShownVersions \cup {n + 1} /\ log'[n + 1].id = id
            /\ \A v \in ShownVersions : /\ v \in 1..n /\ log'[v] = log[v]
                                        /\ log[v].id \in Known
<1>1. PICK id \in Known : id = Head(accepted).id /\ ev[id] \in Event
  BY NextToStore DEF StoreEvent
<1>2. log' = Append(log, [id |-> id, shown |-> TRUE]) /\ UNCHANGED ev
  BY <1>1 DEF StoreEvent
<1>3. /\ \A v \in 1..n : log'[v] = log[v] /\ log[v].id \in Known
      /\ log'[n + 1] = [id |-> id, shown |-> TRUE]
      /\ DOMAIN log = 1..n /\ DOMAIN log' = 1..(n + 1)
  BY <1>2, LogGrows, LogTyped, LenProperties DEF Kept, TypeInv, TypeOK
<1>4. \A v \in 1..(n + 1) : v = n + 1 \/ v \in 1..n OBVIOUS
<1>5. ShownVersions' = ShownVersions \cup {n + 1} BY <1>3, <1>4 DEF ShownVersions
<1>6. \A v \in ShownVersions : v \in 1..n BY <1>3 DEF ShownVersions
<1> QED BY <1>1, <1>2, <1>3, <1>5, <1>6

-----------------------------------------------------------------------------
(* Forward extremities.                                                    *)

LEMMA LastEventNext ==
  ASSUME TypeInv, LastEventKept, [Next]_vars
  PROVE  LastEventKept'
<1>1. CASE StoreEvent
  <2>1. PICK id : id = Head(accepted).id OBVIOUS
  <2>2. extrem' = (extrem \ ev[id].prevs) \cup {id} BY <1>1, <2>1 DEF StoreEvent, ExtremAfter
  <2>3. Shown' = Shown \cup {id}
    <3>1. id \in Known BY <1>1, <2>1, NextToStore DEF StoreEvent
    <3>2. UNCHANGED ev /\ log' = Append(log, [id |-> id, shown |-> TRUE])
      BY <1>1, <2>1 DEF StoreEvent
    <3> QED BY <3>1, <3>2, TypeNext, ShownAppended DEF TypeInv, TypeOK
  <2> QED BY <2>2, <2>3 DEF LastEventKept
<1>2. CASE ~StoreEvent
  <2>1. Shown' = Shown BY <1>2, ShownNext
  <2>2. extrem' = extrem BY <1>2, IndexNext
  <2> QED BY <2>1, <2>2 DEF LastEventKept
<1> QED BY <1>1, <1>2

(* The room never loses its place: forward extremities are events of the   *)
(* timeline, and there is one as soon as there is a timeline, so the next   *)
(* local event has prev events to refer to.                                *)
THEOREM LastEventCorrect == Spec => []LastEventKept
<1>1. Init => LastEventKept BY DEF Init, LastEventKept, Shown
<1>2. TypeInv /\ LastEventKept /\ [Next]_vars => LastEventKept' BY LastEventNext
<1> QED BY <1>1, <1>2, TypeAlways, PTL DEF Spec

(* Those left when an event is stored: the ones it does not refer to.       *)
LEMMA ExactNext ==
  ASSUME TypeInv, ExtremitiesExact, [Next]_vars
  PROVE  ExtremitiesExact'
<1>1. CASE StoreEvent
  <2>1. PICK n \in Nat : n = Len(log) BY LogTyped DEF TypeInv, TypeOK
  <2>2. PICK id : id = Head(accepted).id OBVIOUS
  <2>3. /\ UNCHANGED ev /\ ShownVersions' = ShownVersions \cup {n + 1}
        /\ log'[n + 1].id = id
        /\ \A v \in ShownVersions : v \in 1..n /\ log'[v] = log[v]
    BY <1>1, <2>1, <2>2, VersionsStored
  <2>4. \A v \in ShownVersions : v < n + 1 /\ v # n + 1 /\ ~(n + 1 > n + 1) /\ ~(v > n + 1)
    BY <2>1, <2>3
  <2>5. \A v \in ShownVersions :
          Unreferenced(v)' <=> Unreferenced(v) /\ log[v].id \notin ev[id].prevs
    BY <2>3, <2>4 DEF Unreferenced
  <2>6. Unreferenced(n + 1)' BY <2>1, <2>3, <2>4 DEF Unreferenced
  <2>7. extrem' = (extrem \ ev[id].prevs) \cup {id}
    BY <1>1, <2>2 DEF StoreEvent, ExtremAfter
  <2>8. extrem = {log[v].id : v \in {w \in ShownVersions : Unreferenced(w)}}
    BY DEF ExtremitiesExact
  <2> DEFINE R == {log'[v].id : v \in {w \in ShownVersions' : Unreferenced(w)'}}
  <2>9. ASSUME NEW x PROVE x \in extrem' <=> x \in R
    <3>1. x \in R <=> \E v \in ShownVersions' : Unreferenced(v)' /\ x = log'[v].id
      OBVIOUS
    <3>2. x \in extrem <=> \E v \in ShownVersions : Unreferenced(v) /\ x = log[v].id
      BY <2>8
    <3>3. x \in R <=> \/ x = id
                     \/ \E v \in ShownVersions : Unreferenced(v)' /\ x = log[v].id
      BY <2>3, <2>6, <3>1
    <3> QED BY <2>5, <2>7, <3>2, <3>3
  <2>10. extrem' = R BY <2>9
  <2> QED BY <2>10 DEF ExtremitiesExact
<1>2. CASE ~StoreEvent
  <2>1. /\ ShownVersions' = ShownVersions
        /\ \A v \in ShownVersions : log'[v] = log[v] /\ ev'[log[v].id] = ev[log[v].id]
    BY <1>2, VersionsNext, EventsNeverChange
  <2>2. \A v \in ShownVersions : Unreferenced(v)' <=> Unreferenced(v)
    BY <2>1 DEF Unreferenced
  <2>3. extrem' = extrem BY <1>2, IndexNext
  <2> QED BY <2>1, <2>2, <2>3 DEF ExtremitiesExact
<1> QED BY <1>1, <1>2

(* The forward extremities are exactly the events of the timeline that no   *)
(* later one refers to, with forks, with events that come before their prev *)
(* events or once more, and with any interleaving of requests.              *)
THEOREM ExtremitiesCorrect == Spec => []ExtremitiesExact
<1>1. Init => ExtremitiesExact
  <2> SUFFICES ASSUME Init PROVE ExtremitiesExact
    OBVIOUS
  <2>1. ShownVersions = {} BY DEF Init, ShownVersions
  <2> QED BY <2>1 DEF Init, ExtremitiesExact
<1>2. TypeInv /\ ExtremitiesExact /\ [Next]_vars => ExtremitiesExact' BY ExactNext
<1> QED BY <1>1, <1>2, TypeAlways, PTL DEF Spec

(* The extremities that the events of a local send replace, one by one.    *)
Tip(k) == IF k = 1 THEN extrem ELSE {accepted[k - 1].id}
Tips ==
  LocalWork =>
    /\ \A k \in 1..Len(accepted) :
         ~accepted[k].soft /\ ev[accepted[k].id].prevs = Tip(k)
    /\ phase = "prepare" => heads = Tip(Len(accepted) + 1)

HealInv == TypeInv /\ AtWork /\ Tips /\ LocalSendHealsForks

LEMMA TipsPrepare ==
  ASSUME TypeInv, TypeInv', AtWork, Tips, PrepareOne, [Next]_vars
  PROVE  Tips'
<1>1. LET e == LocalEvent(Head(partials))
          id == Len(ev) + 1
      IN IF DuplicateReaction(e) \/ ~Allowed(e, auth)
         THEN UNCHANGED <<ev, accepted, auth, heads>>
         ELSE /\ ev' = Append(ev, e)
              /\ accepted' = Keep(id, FALSE)
              /\ auth' = Applied(auth, e, id)
              /\ heads' = {id}
  BY DEF PrepareOne
<1>2. phase = "prepare" /\ phase' = "prepare" /\ UNCHANGED <<extrem, owner>>
  BY DEF PrepareOne, db
<1>3. CASE UNCHANGED <<ev, accepted, auth, heads>>
  BY <1>2, <1>3 DEF Tips, Tip, LocalWork
<1>4. PICK n \in Nat : n = Len(accepted) BY AcceptedTyped
<1>5. PICK id \in Nat : id = Len(ev) + 1 BY KnownIds
<1>6. PICK e : e = LocalEvent(Head(partials)) OBVIOUS
<1>7. CASE ev' = Append(ev, e) /\ accepted' = Keep(id, FALSE) /\ heads' = {id}
  <2>1. Len(ev') = id /\ ev'[id] = e /\ Grows /\ id \in Known'
    <3>1. Len(ev) \in Nat /\ ev \in Seq(Event) BY KnownIds DEF TypeInv, TypeOK, EventsOK
    <3>2. Len(ev') = Len(ev) + 1 /\ ev'[Len(ev) + 1] = e
      BY <1>7, <3>1, AppendProperties
    <3> QED BY <1>5, <3>1, <3>2 DEF Grows, Known
  <2>2. /\ Len(accepted') = n + 1 /\ accepted'[n + 1].id = id
        /\ accepted'[n + 1].soft = FALSE /\ \A k \in 1..n : accepted'[k] = accepted[k]
    BY <1>4, <1>7, <2>1, PickedKept
  <2>3. e.prevs = Tip(n + 1)
    <3>1. heads = Tip(Len(accepted) + 1) BY <1>2 DEF Tips, LocalWork
    <3>2. e.prevs = heads BY <1>6 DEF LocalEvent
    <3> QED BY <1>4, <3>1, <3>2
  <2>4. \A k \in 1..(n + 1) : k = 1 \/ k - 1 \in 1..n BY <1>4
  <2>5. \A k \in 1..(n + 1) : Tip(k)' = Tip(k) BY <1>2, <2>2, <2>4 DEF Tip
  <2>6. Tip(n + 2)' = {id} /\ (n + 1) + 1 = n + 2 BY <1>4, <2>2 DEF Tip
  <2>7. \A k \in 1..n : /\ ev'[accepted[k].id] = ev[accepted[k].id]
                        /\ k \in 1..(n + 1)
    <3>1. \A k \in 1..n : accepted[k].id \in Known BY <1>4, AcceptedTyped DEF Accepted
    <3> QED BY <1>4, <3>1, EventsNeverChange
  <2>8. \A k \in 1..n : ~accepted'[k].soft /\ ev'[accepted'[k].id].prevs = Tip(k)'
    <3>1. \A k \in 1..Len(accepted) :
            ~accepted[k].soft /\ ev[accepted[k].id].prevs = Tip(k)
      BY <1>2 DEF Tips, LocalWork
    <3> QED BY <1>4, <2>2, <2>5, <2>7, <3>1
  <2>9. ~accepted'[n + 1].soft /\ ev'[accepted'[n + 1].id].prevs = Tip(n + 1)'
    BY <1>4, <2>1, <2>2, <2>3, <2>5
  <2>10. \A k \in 1..(n + 1) : k = n + 1 \/ k \in 1..n BY <1>4
  <2> QED BY <1>7, <2>2, <2>6, <2>8, <2>9, <2>10 DEF Tips
<1> QED BY <1>1, <1>3, <1>5, <1>6, <1>7

LEMMA TipsStored ==
  ASSUME HealInv, StoreEvent, TypeInv'
  PROVE  Tips' /\ LocalSendHealsForks'
<1>1. PICK id : Stores(id) /\ id = Head(accepted).id BY StoresShape DEF HealInv
<1>2. PICK n \in Nat : Len(accepted) = n + 1 /\ Len(accepted') = n
  BY <1>1, HeadTailSeq, LenProperties DEF HealInv, Stores, TypeInv, TypeOK, TransactionOK
<1>3. /\ accepted[1] = Head(accepted) /\ 1 \in 1..(n + 1)
      /\ \A k \in 1..n : accepted'[k] = accepted[k + 1] /\ k + 1 \in 1..(n + 1)
  BY <1>1, <1>2, PickedTail DEF Stores, HealInv
<1>4. /\ phase = "store" /\ phase' = "store" /\ UNCHANGED <<ev, owner>> BY <1>1 DEF Stores
<1> SUFFICES ASSUME owner = LocalSend
             PROVE  Tips' /\ LocalSendHealsForks'
  BY <1>4 DEF Tips, LocalWork, LocalSendHealsForks
<1>5. \A k \in 1..(n + 1) : ~accepted[k].soft /\ ev[accepted[k].id].prevs = Tip(k)
  BY <1>2, <1>4 DEF HealInv, Tips, LocalWork
<1>6. StoreEvent /\ ev[id].prevs = extrem
  BY <1>1, <1>3, <1>5 DEF Tip
<1>7. extrem' = {id} BY <1>1, <1>6 DEF StoreEvent, ExtremAfter
<1>8. \A k \in 1..n : Tip(k)' = Tip(k + 1)
  <2>1. ASSUME NEW k \in 1..n PROVE Tip(k)' = Tip(k + 1)
    <3>1. CASE k = 1 BY <1>1, <1>3, <1>7, <3>1 DEF Tip
    <3>2. CASE k # 1
      <4>1. k - 1 \in 1..n /\ (k - 1) + 1 = k /\ (k + 1) - 1 = k /\ k + 1 # 1
        BY <1>2, <3>2
      <4> QED BY <1>3, <3>2, <4>1 DEF Tip
    <3> QED BY <3>1, <3>2
  <2> QED BY <2>1
<1>9. Tips' BY <1>2, <1>3, <1>4, <1>5, <1>8 DEF Tips
<1>10. log'[Len(log')].id = id
  <2>1. id \in Known BY <1>1, NextToStore DEF Stores, HealInv
  <2>2. UNCHANGED ev /\ log' = Append(log, [id |-> id, shown |-> TRUE])
    BY <1>1, <1>6 DEF StoreEvent
  <2> QED BY <2>1, <2>2, LogGrows DEF HealInv, TypeInv, TypeOK
<1> QED BY <1>7, <1>9, <1>10 DEF LocalSendHealsForks

LEMMA HealNext ==
  ASSUME HealInv, [Next]_vars
  PROVE  HealInv'
<1>1. TypeInv' /\ AtWork' BY TypeNext, AtWorkNext DEF HealInv
<1>2. CASE StoreEvent BY <1>1, <1>2, TipsStored DEF HealInv
<1>3. CASE CreateRoom \/ SendLocal
  <2>1. /\ accepted' = <<>> /\ heads' = extrem /\ phase' = "prepare" /\ extrem' = extrem
    BY <1>3 DEF CreateRoom, SendLocal, BeginLocal, Take, db
  <2>2. Len(accepted') = 0 BY <2>1, EmptySeq
  <2> QED BY <1>1, <2>1, <2>2 DEF HealInv, Tips, Tip, LocalSendHealsForks
<1>4. CASE PrepareOne
  BY <1>1, <1>4, TipsPrepare DEF HealInv, PrepareOne, LocalSendHealsForks
<1>5. CASE BeginStore
  <2>1. /\ phase \in {"prepare", "step6"} /\ phase' = "store" /\ accepted' # <<>>
        /\ UNCHANGED <<ev, extrem, accepted, owner>>
    BY <1>5 DEF BeginStore, Authorised, db
  <2>2. phase = "step6" => owner # LocalSend
    BY OwnerAssumption DEF HealInv, AtWork, Steps
  <2> QED BY <1>1, <2>1, <2>2 DEF HealInv, Tips, Tip, LocalWork, LocalSendHealsForks
<1>6. CASE UNCHANGED vars
  BY <1>1, <1>6 DEF vars, work, db, HealInv, Tips, Tip, LocalWork, LocalSendHealsForks
<1>7. CASE phase' \notin {"prepare", "store"}
  BY <1>1, <1>7 DEF HealInv, Tips, LocalWork, LocalSendHealsForks
<1>8. CASE \/ MissingAuthEvent \/ Retry \/ AbortStore \/ Commit \/ Crash
           \/ EndStep4 \/ EndStep5
  <2>1. phase' = "idle" BY <1>8, EndsShape, PassesShape DEF Ends, Passes, Release, HealInv
  <2> QED BY <1>7, <2>1
<1>9. CASE \/ \E f \in Flights : BeginStep4(f) \/ BeginStep5(f) \/ BeginStep6(f)
           \/ Step4One \/ Step5One \/ Step6One
  BY <1>7, <1>9 DEF BeginStep4, BeginStep5, BeginStep6, Take, Step4One, Step5One, Step6One
<1>10. CASE \/ RemoteSend \/ SignInvite
            \/ \E f \in Flights : \/ ReceivePDUs(f) \/ JoinRemote(f) \/ PrepareInvite(f)
                                  \/ RefuseBatch(f)
  BY <1>7, <1>10 DEF RemoteSend, SignInvite, ReceivePDUs, JoinRemote, PrepareInvite,
                     RefuseBatch, work
<1> QED BY <1>2, <1>3, <1>4, <1>5, <1>6, <1>8, <1>9, <1>10 DEF Next

(* A local send leaves one extremity, the last event it made, whatever     *)
(* forks it found: it refers to all of them, and no other transaction adds *)
(* one between its preparation and its last write.                         *)
THEOREM HealsCorrect == Spec => []LocalSendHealsForks
<1>1. Init => HealInv
  BY TypeInit, AtWorkInit DEF Init, HealInv, Tips, LocalWork, LocalSendHealsForks
<1>2. HealInv /\ [Next]_vars => HealInv' BY HealNext
<1>3. HealInv => LocalSendHealsForks BY DEF HealInv
<1> QED BY <1>1, <1>2, <1>3, PTL DEF Spec

-----------------------------------------------------------------------------
(* Where events come from, and the states that they carry.                 *)

FromElsewhere(e) ==
  e.given /\ ~IsLocal(e.sender) /\ \E p \in Known : e.auth = After(p)
FromDance(e) ==
  e.given /\ e.kind = "join" /\ \E p \in Known : e.auth = After(p)
FromInvite(e) == e.given /\ e.kind = "invite" /\ e.auth = members
FromClient(e) == ~e.given /\ e.auth = auth
NewEventIs(e) ==
  /\ ev' = Append(ev, e) /\ Len(ev') = Len(ev) + 1 /\ ev'[Len(ev) + 1] = e
  /\ FromElsewhere(e) \/ FromDance(e) \/ FromInvite(e) \/ FromClient(e)

LEMMA EventNext ==
  ASSUME TypeInv, [Next]_vars
  PROVE  ev' = ev \/ \E e : NewEventIs(e)
<1>1. ASSUME NEW e, ev' = Append(ev, e)
      PROVE  Len(ev') = Len(ev) + 1 /\ ev'[Len(ev) + 1] = e
  BY <1>1, AppendProperties DEF TypeInv, TypeOK, EventsOK
<1>2. CASE RemoteSend
  <2>1. PICK k \in Kinds \ {"create"}, s \in Users, t \in Users, P \in PrevSets :
          \E p \in P, r \in Abroad \cup {0} :
            ~IsLocal(s) /\ ev' = Append(ev, RemoteEvent(k, s, t, r, P, p))
    BY <1>2 DEF RemoteSend
  <2>2. PICK p \in P, r \in Abroad \cup {0} :
          ~IsLocal(s) /\ ev' = Append(ev, RemoteEvent(k, s, t, r, P, p))
    BY <2>1
  <2>3. PICK e : e = RemoteEvent(k, s, t, r, P, p) OBVIOUS
  <2>4. e.sender = s /\ e.auth = After(p) /\ e.given BY <2>3 DEF RemoteEvent
  <2>5. p \in Known BY AbroadKnown DEF PrevSets
  <2>6. FromElsewhere(e) BY <2>2, <2>4, <2>5 DEF FromElsewhere
  <2> QED BY <1>1, <2>2, <2>3, <2>6 DEF NewEventIs
<1>3. ASSUME NEW f \in Flights, JoinRemote(f)
      PROVE  \E e : ev' = Append(ev, e) /\ FromDance(e)
  <2>1. PICK u \in Users, p \in Abroad : ev' = Append(ev, RemoteEvent("join", u, u, 0, {p}, p))
    BY <1>3 DEF JoinRemote
  <2>2. PICK e : e = RemoteEvent("join", u, u, 0, {p}, p) OBVIOUS
  <2>3. e.kind = "join" /\ e.auth = After(p) /\ e.given BY <2>2 DEF RemoteEvent
  <2>4. FromDance(e) BY <2>3, AbroadKnown DEF FromDance
  <2> QED BY <2>1, <2>2, <2>4
<1>4. ASSUME NEW f \in Flights, PrepareInvite(f)
      PROVE  \E e : ev' = Append(ev, e) /\ FromInvite(e)
  <2>1. PICK s \in Users, t \in Users :
          ev' = Append(ev, [kind |-> "invite", sender |-> s, target |-> t, rel |-> 0,
                            prevs |-> extrem, auth |-> members, given |-> TRUE])
    BY <1>4 DEF PrepareInvite
  <2> QED BY <2>1 DEF FromInvite
<1>5. CASE PrepareOne
  <2>1. ev' = ev \/ ev' = Append(ev, LocalEvent(Head(partials)))
    BY <1>5 DEF PrepareOne
  <2>2. PICK e : e = LocalEvent(Head(partials)) OBVIOUS
  <2>3. FromClient(e) BY <2>2 DEF FromClient, LocalEvent
  <2> QED BY <1>1, <2>1, <2>2, <2>3 DEF NewEventIs
<1>6. CASE \/ CreateRoom \/ SendLocal \/ SignInvite \/ UNCHANGED vars
           \/ \E f \in Flights : \/ ReceivePDUs(f) \/ RefuseBatch(f) \/ BeginStep4(f)
                                 \/ BeginStep5(f) \/ BeginStep6(f)
  BY <1>6 DEF CreateRoom, SendLocal, BeginLocal, SignInvite, vars, ReceivePDUs, RefuseBatch,
              BeginStep4, BeginStep5, BeginStep6
<1>7. CASE \/ Step4One \/ MissingAuthEvent \/ EndStep4 \/ Step5One \/ EndStep5 \/ Step6One
           \/ Retry \/ AbortStore \/ BeginStore \/ StoreEvent \/ Commit
           \/ Crash
  BY <1>7 DEF Step4One, MissingAuthEvent, EndStep4, Step5One, EndStep5, EndRead, Step6One,
              Retry, AbortStore, BeginStore, StoreEvent, Commit, Crash
<1> QED BY <1>1, <1>2, <1>3, <1>4, <1>5, <1>6, <1>7 DEF Next, NewEventIs

(* A member map holds member events.                                       *)
HoldsMembers(m) == \A u \in Users : m[u] # 0 => ev[m[u]].kind \in MemberKinds

MemberMaps ==
  /\ HoldsMembers(members) /\ HoldsMembers(auth)
  /\ \A i \in Known : HoldsMembers(ev[i].auth)

LEMMA HoldsStable ==
  ASSUME TypeInv, [Next]_vars, NEW m \in States, HoldsMembers(m)
  PROVE  HoldsMembers(m)'
<1>1. \A u \in Users : m[u] # 0 => m[u] \in Known BY KnownIds DEF States, Known
<1> QED BY <1>1, EventsNeverChange DEF HoldsMembers

LEMMA HoldsApplied ==
  ASSUME TypeInv, NEW m \in States, HoldsMembers(m), NEW id
  PROVE  HoldsMembers(Applied(m, ev[id], id))
  BY DEF HoldsMembers, Applied, States

LEMMA HoldsAfter ==
  ASSUME TypeInv, MemberMaps, NEW p \in Known
  PROVE  HoldsMembers(After(p)) /\ After(p) \in States
<1>1. ev[p].auth \in States
  <2>1. ev[p].auth \in [Users -> 0..(p - 1)] /\ Len(ev) \in Nat
    BY KnownIds DEF TypeInv, TypeOK, EventsOK, RefersBack
  <2> QED BY <2>1 DEF States, Known
<1> QED BY <1>1, HoldsApplied, AfterTyped DEF After, MemberMaps, TypeInv, TypeOK

LEMMA AuthNext ==
  ASSUME TypeInv, [Next]_vars
  PROVE  \/ auth' \in {auth, members, Nobody}
         \/ \E id \in Known : UNCHANGED ev /\ auth' = Applied(auth, ev[id], id)
         \/ \E e : /\ ev' = Append(ev, e) /\ auth' = Applied(auth, e, Len(ev) + 1)
                  /\ PrepareOne
<1>1. CASE \/ CreateRoom \/ SendLocal
           \/ \E f \in Flights : BeginStep4(f) \/ BeginStep5(f) \/ BeginStep6(f)
  BY <1>1 DEF CreateRoom, SendLocal, BeginLocal, BeginStep4, BeginStep5, BeginStep6, Take
<1>2. CASE \/ MissingAuthEvent \/ Retry \/ AbortStore \/ Commit \/ Crash
           \/ EndStep4 \/ EndStep5
  BY <1>2, EndsShape, PassesShape DEF Ends, Passes, Release
<1>3. CASE \/ RemoteSend \/ SignInvite \/ UNCHANGED vars
           \/ \E f \in Flights : \/ ReceivePDUs(f) \/ JoinRemote(f) \/ PrepareInvite(f)
                                 \/ RefuseBatch(f)
  BY <1>3 DEF RemoteSend, SignInvite, vars, ReceivePDUs, JoinRemote, PrepareInvite,
              RefuseBatch, work
<1>4. CASE PrepareOne BY <1>4 DEF PrepareOne
<1>5. CASE Step6One
  <2>1. Head(todo) \in Known BY <1>5, TodoTyped DEF Step6One
  <2> QED BY <1>5, <2>1 DEF Step6One
<1>6. CASE Step4One \/ Step5One \/ BeginStore \/ StoreEvent
  BY <1>6 DEF Step4One, Step5One, BeginStore, StoreEvent
<1> QED BY <1>1, <1>2, <1>3, <1>4, <1>5, <1>6 DEF Next

LEMMA MemberMapsNext ==
  ASSUME TypeInv, MemberMaps, [Next]_vars
  PROVE  MemberMaps'
<1>1. /\ auth \in States /\ members \in States /\ Nobody \in States /\ HoldsMembers(Nobody)
      /\ Len(ev) \in Nat
  BY KnownIds DEF TypeInv, TypeOK, DatabaseOK, TransactionOK, Nobody, States, HoldsMembers
<1>2. HoldsMembers(members)'
  <2>1. CASE Quiet \/ Hidden
    <3>1. members' = members BY <2>1 DEF Quiet, Hidden, db
    <3>2. PICK m \in States : m = members BY <1>1
    <3>3. HoldsMembers(m)' BY <3>2, HoldsStable DEF MemberMaps
    <3> QED BY <3>1, <3>2, <3>3
  <2>2. CASE StoreEvent
    <3>1. /\ members' = Applied(members, ev[Head(accepted).id], Head(accepted).id)
          /\ UNCHANGED ev
      BY <2>2, MembersStored DEF StoreEvent
    <3>2. PICK m : m = Applied(members, ev[Head(accepted).id], Head(accepted).id) OBVIOUS
    <3>3. HoldsMembers(m) BY <1>1, <3>2, HoldsApplied DEF MemberMaps
    <3>4. HoldsMembers(m)' BY <3>1, <3>3 DEF HoldsMembers
    <3> QED BY <3>1, <3>2, <3>4
  <2> QED BY <2>1, <2>2, DatabaseStep
<1>3. \A i \in Known' : HoldsMembers(ev[i].auth)'
  <2>1. ASSUME NEW i \in Known PROVE HoldsMembers(ev[i].auth)'
    <3>1. ev[i].auth \in [Users -> 0..(i - 1)]
      BY DEF TypeInv, TypeOK, EventsOK, RefersBack
    <3>2. PICK m \in States : m = ev[i].auth BY <1>1, <3>1 DEF States, Known
    <3>3. ev'[i].auth = m BY <3>2, EventsNeverChange
    <3>4. HoldsMembers(m)' BY <3>2, HoldsStable DEF MemberMaps
    <3> QED BY <3>3, <3>4
  <2>2. CASE ev' = ev BY <2>1, <2>2 DEF Known
  <2>3. ASSUME NEW e, NewEventIs(e)
        PROVE  \A i \in Known' : HoldsMembers(ev[i].auth)'
    <3>1. PICK m \in States : m = e.auth /\ HoldsMembers(m)
      <4>1. CASE FromElsewhere(e) \/ FromDance(e)
        <5>1. PICK p \in Known : e.auth = After(p) BY <4>1 DEF FromElsewhere, FromDance
        <5> QED BY <5>1, HoldsAfter
      <4>2. CASE FromInvite(e) \/ FromClient(e)
        BY <1>1, <4>2 DEF FromInvite, FromClient, MemberMaps
      <4> QED BY <2>3, <4>1, <4>2 DEF NewEventIs
    <3>2. HoldsMembers(m)' BY <3>1, HoldsStable
    <3>3. \A i \in Known' : i \in Known \/ i = Len(ev) + 1
      BY <1>1, <2>3 DEF Known, NewEventIs
    <3>4. ev'[Len(ev) + 1].auth = m BY <2>3, <3>1 DEF NewEventIs
    <3>5. ASSUME NEW i \in Known' PROVE HoldsMembers(ev[i].auth)'
      <4>1. CASE i \in Known BY <2>1, <4>1
      <4>2. CASE i = Len(ev) + 1
        <5>1. ev'[i].auth = m BY <3>4, <4>2
        <5> QED BY <3>2, <5>1
      <4> QED BY <3>3, <4>1, <4>2
    <3> QED BY <3>5
  <2> QED BY <2>2, <2>3, EventNext
<1>4. HoldsMembers(auth)'
  <2>1. CASE auth' \in {auth, members, Nobody}
    <3>1. PICK m \in States : m = auth' /\ HoldsMembers(m) BY <1>1, <2>1 DEF MemberMaps
    <3>2. HoldsMembers(m)' BY <3>1, HoldsStable
    <3> QED BY <3>1, <3>2
  <2>2. ASSUME NEW id \in Known, UNCHANGED ev, auth' = Applied(auth, ev[id], id)
        PROVE  HoldsMembers(auth)'
    <3>1. PICK m : m = Applied(auth, ev[id], id) OBVIOUS
    <3>2. HoldsMembers(m) BY <1>1, <3>1, HoldsApplied DEF MemberMaps
    <3>3. HoldsMembers(m)' BY <2>2, <3>2 DEF HoldsMembers
    <3> QED BY <2>2, <3>1, <3>3
  <2>3. ASSUME NEW e, ev' = Append(ev, e), auth' = Applied(auth, e, Len(ev) + 1)
        PROVE  HoldsMembers(auth)'
    <3>1. PICK m \in States, n \in Nat : m = auth /\ n = Len(ev) + 1 BY <1>1
    <3>2. HoldsMembers(m)' BY <3>1, HoldsStable DEF MemberMaps
    <3>3. ev'[n] = e BY <2>3, <3>1, AppendProperties DEF TypeInv, TypeOK, EventsOK
    <3>4. auth' = Applied(m, e, n) BY <2>3, <3>1
    <3>5. \A u \in Users : m[u] # 0 => ev'[m[u]].kind \in MemberKinds
      BY <3>2 DEF HoldsMembers
    <3>6. \A u \in Users : auth'[u] = m[u] \/ (auth'[u] = n /\ e.kind \in MemberKinds)
      BY <3>1, <3>4 DEF Applied, States
    <3> QED BY <3>3, <3>5, <3>6 DEF HoldsMembers
  <2> QED BY <2>1, <2>2, <2>3, AuthNext
<1> QED BY <1>2, <1>3, <1>4 DEF MemberMaps

LEMMA MemberMapsInit == Init => MemberMaps
<1> SUFFICES ASSUME Init PROVE MemberMaps
  OBVIOUS
<1>1. HoldsMembers(Nobody) BY DEF HoldsMembers, Nobody
<1>2. \A i \in Known : ev[i].auth = Nobody
  <2>1. CASE ev = <<>> BY <2>1, EmptySeq DEF Known
  <2>2. CASE ev = RemoteRoom
    <3>1. Known = {1, 2} BY <2>2, RemoteRoomTyped DEF Known
    <3> QED BY <2>2, <3>1 DEF RemoteRoom
  <2> QED BY <2>1, <2>2 DEF Init
<1> QED BY <1>1, <1>2 DEF Init, MemberMaps

-----------------------------------------------------------------------------
(* What a flight carries comes from its start on.                          *)

LEMMA BatchNext ==
  ASSUME TypeInv, AtWork, [Next]_vars, NEW f \in Flights
  PROVE  \/ BatchIds(f)' \subseteq BatchIds(f)
         \/ ReceivePDUs(f) \/ JoinRemote(f) \/ PrepareInvite(f)
<1>1. flights \in [Flights -> Flight] BY DEF TypeInv, TypeOK
<1>2. Elems(Idle.batch) = {} BY ElemsEmpty DEF Idle
<1>3. ASSUME flights' = flights \/ flights'[f].batch = flights[f].batch
      PROVE  BatchIds(f)' \subseteq BatchIds(f)
  BY <1>3 DEF BatchIds
<1>4. ASSUME \/ flights' = flights
             \/ \E g : flights' = [flights EXCEPT ![g] = Idle]
             \/ flights' = [g \in Flights |-> Idle]
      PROVE  BatchIds(f)' \subseteq BatchIds(f)
  <2>1. flights'[f] = flights[f] \/ flights'[f] = Idle BY <1>1, <1>4
  <2> QED BY <1>2, <2>1 DEF BatchIds
<1>5. CASE \/ MissingAuthEvent \/ Retry \/ AbortStore \/ Commit \/ Crash
  BY <1>4, <1>5, EndsShape DEF Ends
<1>6. CASE EndStep4 \/ EndStep5
  <2>1. PICK next : Passes(next) BY <1>6, PassesShape
  <2>2. CASE flights' = [flights EXCEPT ![owner] = Idle] BY <1>4, <2>2
  <2>3. CASE flights' = Goto(owner, next, Picked)
    <3>1. CASE f = owner
      <4>1. flights'[f].batch = Picked BY <1>1, <2>3, <3>1 DEF Goto, Flight
      <4>2. Elems(Picked) \subseteq BatchIds(owner)
        BY <2>1 DEF AtWork, Passes, FlightWork, Steps
      <4> QED BY <3>1, <4>1, <4>2 DEF BatchIds
    <3>2. CASE f # owner
      <4>1. flights'[f] = flights[f] BY <1>1, <2>3, <3>2 DEF Goto
      <4> QED BY <1>3, <4>1
    <3> QED BY <3>1, <3>2
  <2> QED BY <2>1, <2>2, <2>3 DEF Passes
<1>7. CASE Step4One \/ Step5One \/ Step6One
  <2>1. flights'[f].batch = flights[f].batch BY <1>7, ReadsShape DEF Reads
  <2> QED BY <1>3, <2>1
<1>8. CASE \/ CreateRoom \/ SendLocal \/ PrepareOne \/ RemoteSend \/ SignInvite
           \/ BeginStore \/ StoreEvent \/ UNCHANGED vars
           \/ \E g \in Flights : BeginStep4(g) \/ BeginStep5(g) \/ BeginStep6(g)
  <2>1. flights' = flights
    BY <1>8, BeginsShape
       DEF Begins, PrepareOne, RemoteSend, SignInvite, BeginStore, StoreEvent, vars
  <2> QED BY <1>3, <2>1
<1>9. ASSUME NEW g \in Flights,
             ReceivePDUs(g) \/ JoinRemote(g) \/ PrepareInvite(g) \/ RefuseBatch(g)
      PROVE  \/ BatchIds(f)' \subseteq BatchIds(f)
             \/ ReceivePDUs(f) \/ JoinRemote(f) \/ PrepareInvite(f)
  <2>1. CASE RefuseBatch(g)
    <3>1. flights' = [flights EXCEPT ![g] = Idle] BY <2>1 DEF RefuseBatch
    <3> QED BY <1>4, <3>1
  <2>2. CASE f # g
    <3>1. PICK new : flights' = [flights EXCEPT ![g] = new]
      BY <1>9, ArrivesShape DEF Arrives
    <3>2. flights'[f] = flights[f] BY <1>1, <2>2, <3>1
    <3> QED BY <1>3, <3>2
  <2> QED BY <1>9, <2>1, <2>2
<1> QED BY <1>5, <1>6, <1>7, <1>8, <1>9 DEF Next

RemoteFirst == ~IsLocal(Creator) => 1 \in Known /\ ev[1].given

(* Events made here for clients, but for memberships, which a join response *)
(* may bring back before the room knows them.                              *)
Ours(id) == ~ev[id].given /\ ev[id].kind \notin MemberKinds

LEMMA OursStable ==
  ASSUME TypeInv, [Next]_vars, NEW id \in Known
  PROVE  Ours(id)' <=> Ours(id)
  BY EventsNeverChange DEF Ours

(* The response to a join has nothing but the room's creation and members. *)
LEMMA JoinBatch ==
  ASSUME TypeInv, MemberMaps, RemoteFirst, NEW f \in Flights, JoinRemote(f),
         NEW id \in BatchIds(f)'
  PROVE  id \in Known' /\ ~Ours(id)'
<1>1. PICK u \in Users, p \in Abroad :
        LET e == RemoteEvent("join", u, u, 0, {p}, p)
        IN /\ ev' = Append(ev, e)
           /\ \E S \in SUBSET (1..Len(ev)) :
                /\ JoinResponse(e, S)
                /\ \E b \in [1..Cardinality(S) -> S] :
                     flights' = [flights EXCEPT ![f] = Start(Append(b, Len(ev) + 1), TRUE)]
  BY DEF JoinRemote
<1>2. PICK e : e = RemoteEvent("join", u, u, 0, {p}, p) OBVIOUS
<1>3. ev' = Append(ev, e) /\ e.given /\ e.auth = After(p) /\ p \in Known
  BY <1>1, <1>2, AbroadKnown DEF RemoteEvent
<1>4. PICK S \in SUBSET (1..Len(ev)) :
        /\ JoinResponse(e, S)
        /\ \E b \in [1..Cardinality(S) -> S] :
             flights' = [flights EXCEPT ![f] = Start(Append(b, Len(ev) + 1), TRUE)]
  BY <1>1, <1>2
<1>5. PICK b \in [1..Cardinality(S) -> S] :
        flights' = [flights EXCEPT ![f] = Start(Append(b, Len(ev) + 1), TRUE)]
  BY <1>4
<1>6. Len(ev) \in Nat /\ Cardinality(S) \in Nat /\ Known = 1..Len(ev)
  <2>1. Len(ev) \in Nat BY KnownIds
  <2>2. IsFiniteSet(1..Len(ev)) BY <2>1, FS_Interval
  <2>3. IsFiniteSet(S) BY <2>2, FS_Subset
  <2> QED BY <2>1, <2>3, FS_CardinalityType DEF Known
<1>7. PICK T : T = {i \in S : i = 1 \/ ev[i].kind \in MemberKinds} OBVIOUS
<1>8. JoinState(e) \subseteq T
  <2>1. JoinState(e) \subseteq S BY <1>4 DEF JoinResponse
  <2>2. HoldsMembers(e.auth) BY <1>3, HoldsAfter
  <2> QED BY <1>7, <2>1, <2>2 DEF JoinState, HoldsMembers
<1>9. AuthClosed(T)
  <2>1. ASSUME NEW i \in T, NEW a \in AuthIDs(ev[i]) PROVE a \in T
    <3>1. a \in S BY <1>4, <1>7 DEF JoinResponse, AuthClosed
    <3>2. ev[i].sender \in Users /\ ev[i].target \in Users /\ i \in Known
      BY <1>6, <1>7, KnownEvent
    <3>3. ev[a].kind \in MemberKinds BY <3>2 DEF MemberMaps, HoldsMembers, AuthIDs
    <3> QED BY <1>7, <3>1, <3>3
  <2> QED BY <2>1 DEF AuthClosed
<1>10. T = S BY <1>4, <1>7, <1>8, <1>9 DEF JoinResponse
<1>11. b \in Seq(S \cup {Len(ev) + 1}) BY <1>6, IsASeq
<1>12. PICK c : c = Append(b, Len(ev) + 1) OBVIOUS
<1>13. Elems(c) \subseteq S \cup {Len(ev) + 1}
  <2>1. c \in Seq(S \cup {Len(ev) + 1}) BY <1>11, <1>12, AppendSeq
  <2> QED BY <2>1, ElemsTyped
<1>14. flights'[f].batch = c
  BY <1>5, <1>12 DEF Start, Idle, TypeInv, TypeOK
<1>15. id \in S \cup {Len(ev) + 1} BY <1>13, <1>14 DEF BatchIds
<1>16. Len(ev') = Len(ev) + 1 /\ ev'[Len(ev) + 1] = e /\ \A i \in Known : ev'[i] = ev[i]
  BY <1>3, AppendProperties DEF TypeInv, TypeOK, EventsOK, Known
<1>17. S \subseteq Known /\ Known \subseteq Known' /\ Len(ev) + 1 \in Known'
  BY <1>6, <1>16 DEF Known
<1>18. ev[1].given BY DEF RemoteFirst, JoinRemote
<1>19. \A i \in S : ~Ours(i)' /\ i \in Known'
  <2>1. \A i \in S : ev[i].given \/ ev[i].kind \in MemberKinds BY <1>7, <1>10, <1>18
  <2> QED BY <1>16, <1>17, <2>1 DEF Ours
<1>20. PICK n \in Nat : n = Len(ev) + 1 BY <1>6
<1>21. ~Ours(n)' /\ n \in Known' BY <1>3, <1>16, <1>17, <1>20 DEF Ours
<1> QED BY <1>15, <1>19, <1>20, <1>21

-----------------------------------------------------------------------------
(* Events made here.  Other servers have them from the timeline, so in step *)
(* 4 they are duplicates.                                                  *)

Carried ==
  \A f \in Flights : \A id \in BatchIds(f) : Ours(id) => id \in Shown
Checked ==
  /\ \A f \in Flights : flights[f].pc \in {"step5", "step6"} =>
       \A id \in BatchIds(f) : ~Ours(id)
  /\ phase = "step4" => \A id \in Elems(Picked) : ~Ours(id)
LocalFresh == LocalWork => Once(Picked, Ids) /\ Elems(Picked) \cap Shown = {}
LEMMA RemoteFirstNext ==
  ASSUME TypeInv, RemoteFirst, [Next]_vars
  PROVE  RemoteFirst'
<1>1. Known \subseteq Known'
  <2>1. Len(ev) \in Nat /\ (UNCHANGED ev \/ Len(ev') = Len(ev) + 1)
    BY KnownIds, EventNext DEF NewEventIs
  <2> QED BY <2>1 DEF Known
<1> QED BY <1>1, EventsNeverChange DEF RemoteFirst

LEMMA RemoteFirstInit == Init => RemoteFirst
  BY RemoteRoomTyped DEF Init, RemoteFirst, RemoteRoom, Known

LEMMA BatchTyped ==
  ASSUME TypeInv, NEW f \in Flights
  PROVE  BatchIds(f) \subseteq Known /\ flights[f].batch \in Seq(Known)
<1>1. flights[f].batch \in Seq(Known) BY DEF TypeInv, TypeOK, Flight
<1> QED BY <1>1, ElemsTyped DEF BatchIds

(* What a transaction brings: what was made elsewhere or can be read here.  *)
LEMMA ReceivedIds ==
  ASSUME TypeInv, NEW f \in Flights, ReceivePDUs(f), NEW id \in BatchIds(f)'
  PROVE  id \in Known /\ (Ours(id) => id \in Shown) /\ ev' = ev
<1>1. PICK n \in 1..MaxBatch : \E b \in [1..n -> Abroad] :
        flights' = [flights EXCEPT ![f] = Start(b, FALSE)]
  BY DEF ReceivePDUs, Batches
<1>2. PICK b \in [1..n -> Abroad] : flights' = [flights EXCEPT ![f] = Start(b, FALSE)]
  BY <1>1
<1>3. flights'[f].batch = b BY <1>2 DEF Start, Idle, TypeInv, TypeOK
<1>4. Len(b) = n
  <2>1. n \in Nat BY BoundsAssumption
  <2> QED BY <2>1, LenProperties
<1>5. PICK i \in 1..n : id = b[i] BY <1>3, <1>4 DEF BatchIds, Elems
<1>6. id \in Abroad BY <1>2, <1>5
<1> QED BY <1>6, AbroadKnown DEF ReceivePDUs, Abroad, Ours

LEMMA InvitedIds ==
  ASSUME TypeInv, NEW f \in Flights, PrepareInvite(f), NEW id \in BatchIds(f)'
  PROVE  id \in Known' /\ ~Ours(id)'
<1>1. PICK e : ev' = Append(ev, e) /\ e.given BY DEF PrepareInvite
<1>2. /\ Len(ev) \in Nat /\ Len(ev') = Len(ev) + 1 /\ ev'[Len(ev) + 1] = e
  BY <1>1, KnownIds, AppendProperties DEF TypeInv, TypeOK, EventsOK
<1>3. flights'[f].batch = <<Len(ev) + 1>>
  BY DEF PrepareInvite, Start, Idle, TypeInv, TypeOK
<1>4. id = Len(ev) + 1 BY <1>3 DEF BatchIds, Elems
<1>5. PICK n \in Nat : n = Len(ev) + 1 BY <1>2
<1>6. ~Ours(n)' /\ n \in Known' BY <1>1, <1>2, <1>5 DEF Ours, Known
<1> QED BY <1>4, <1>5, <1>6

LEMMA ShownGrows ==
  ASSUME TypeInv, [Next]_vars
  PROVE  Shown \subseteq Shown'
  BY ShownNext

LEMMA CarriedNext ==
  ASSUME TypeInv, AtWork, MemberMaps, RemoteFirst, Carried, [Next]_vars
  PROVE  Carried'
<1> SUFFICES ASSUME NEW f \in Flights, NEW id \in BatchIds(f)', Ours(id)'
             PROVE  id \in Shown'
  BY DEF Carried
<1>1. CASE id \in BatchIds(f)
  BY <1>1, BatchTyped, OursStable, ShownGrows DEF Carried
<1>2. CASE ReceivePDUs(f) BY <1>2, ReceivedIds, OursStable, ShownGrows
<1>3. CASE JoinRemote(f) BY <1>3, JoinBatch
<1>4. CASE PrepareInvite(f) BY <1>4, InvitedIds
<1> QED BY <1>1, <1>2, <1>3, <1>4, BatchNext

(* Step 4 passes no event that is in the timeline, except for memberships. *)
LEMMA Step4Fresh ==
  ASSUME TypeInv, ShownIndexed, NEW id \in Shown, PassesStep4(id)
  PROVE  ev[id].kind \in MemberKinds
  BY DEF PassesStep4, IsDuplicate, ShownIndexed

LEMMA CheckedReads ==
  ASSUME TypeInv, TypeInv', AtWork, Carried, Checked, ShownIndexed,
         Step4One \/ Step5One \/ Step6One
  PROVE  Checked'
<1>1. PICK kept \in BOOLEAN : Reads(kept) BY ReadsShape
<1>2. /\ ev' = ev /\ phase' = phase /\ owner' = owner /\ Head(todo) \in Elems(todo)
      /\ Elems(Picked') = Elems(Picked) \cup (IF kept THEN {Head(todo)} ELSE {})
  BY <1>1, ReadsPicked DEF Reads
<1>3. \A f \in Flights : flights'[f].pc = flights[f].pc /\ BatchIds(f)' = BatchIds(f)
  BY <1>1 DEF Reads, BatchIds
<1>4. \A id : Ours(id)' <=> Ours(id) BY <1>2 DEF Ours
<1>5. ASSUME phase = "step4", kept, Ours(Head(todo)) PROVE FALSE
  <2>1. Head(todo) \in BatchIds(owner) /\ owner \in Flights
    BY <1>2, <1>5 DEF AtWork, FlightWork, Steps
  <2>2. Head(todo) \in Shown BY <1>5, <2>1 DEF Carried
  <2> QED BY <1>1, <1>5, <2>2, Step4Fresh DEF Reads, Ours
<1> QED BY <1>2, <1>3, <1>4, <1>5 DEF Checked

LEMMA CheckedPasses ==
  ASSUME TypeInv, AtWork, Checked, EndStep4 \/ EndStep5
  PROVE  Checked'
<1>1. PICK next : Passes(next) BY PassesShape
<1>2. /\ flights \in [Flights -> Flight] /\ owner \in Flights /\ phase' = "idle"
      /\ ev' = ev /\ \A id : Ours(id)' <=> Ours(id)
  BY <1>1 DEF TypeInv, TypeOK, Passes, AtWork, Steps, Release, Ours
<1>3. \A id \in Elems(Picked) : ~Ours(id)
  BY <1>1 DEF Passes, Checked, AtWork, FlightWork, Steps
<1>4. ASSUME NEW f \in Flights, flights'[f].pc \in {"step5", "step6"}, NEW id \in BatchIds(f)'
      PROVE  ~Ours(id)
  <2>1. CASE flights' = [flights EXCEPT ![owner] = Idle]
    <3>1. flights'[f] = flights[f] BY <1>2, <1>4, <2>1 DEF Idle
    <3> QED BY <1>4, <3>1 DEF Checked, BatchIds
  <2>2. CASE flights' = Goto(owner, next, Picked)
    <3>1. CASE f = owner
      <4>1. flights'[f].batch = Picked BY <1>2, <2>2, <3>1 DEF Goto, Flight
      <4> QED BY <1>3, <1>4, <4>1 DEF BatchIds
    <3>2. CASE f # owner
      <4>1. flights'[f] = flights[f] BY <1>2, <2>2, <3>2 DEF Goto
      <4> QED BY <1>4, <4>1 DEF Checked, BatchIds
    <3> QED BY <3>1, <3>2
  <2> QED BY <1>1, <2>1, <2>2 DEF Passes
<1> QED BY <1>2, <1>4 DEF Checked

LEMMA CheckedNext ==
  ASSUME TypeInv, AtWork, Carried, Checked, ShownIndexed, [Next]_vars
  PROVE  Checked'
<1>1. flights \in [Flights -> Flight] /\ TypeInv' BY TypeNext DEF TypeInv, TypeOK
<1>2. ASSUME NEW f \in Flights,
             flights'[f] = flights[f] \/ flights'[f].pc \in {"idle", "step4"},
             flights'[f].pc \in {"step5", "step6"}, NEW id \in BatchIds(f)'
      PROVE  ~Ours(id)'
  <2>1. flights'[f] = flights[f] BY <1>2
  <2>2. id \in BatchIds(f) /\ ~Ours(id) BY <1>2, <2>1 DEF BatchIds, Checked
  <2> QED BY <2>2, BatchTyped, OursStable
<1>3. ASSUME \A f \in Flights : flights'[f] = flights[f] \/ flights'[f].pc \in {"idle", "step4"},
             phase' # "step4" \/ accepted' = <<>>
      PROVE  Checked'
  <2>1. \A f \in Flights : flights'[f].pc \in {"step5", "step6"} =>
          \A id \in BatchIds(f)' : ~Ours(id)'
    BY <1>2, <1>3
  <2>2. accepted' = <<>> => Elems(Picked') = {} BY PickedNone, ElemsEmpty
  <2> QED BY <1>3, <2>1, <2>2 DEF Checked
<1>4. CASE Step4One \/ Step5One \/ Step6One BY <1>1, <1>4, CheckedReads
<1>5. CASE EndStep4 \/ EndStep5 BY <1>5, CheckedPasses
<1>6. CASE \/ CreateRoom \/ SendLocal
           \/ \E f \in Flights : BeginStep4(f) \/ BeginStep5(f) \/ BeginStep6(f)
  BY <1>3, <1>6, BeginsShape DEF Begins
<1>7. CASE MissingAuthEvent \/ Retry \/ AbortStore \/ Commit \/ Crash
  <2>1. Ends BY <1>7, EndsShape
  <2>2. phase' = "idle" BY <2>1 DEF Ends, Release
  <2>3. \A f \in Flights : flights'[f] = flights[f] \/ flights'[f].pc = "idle"
    BY <1>1, <2>1 DEF Ends, Idle
  <2> QED BY <1>3, <2>2, <2>3
<1>8. ASSUME NEW g \in Flights,
             ReceivePDUs(g) \/ JoinRemote(g) \/ PrepareInvite(g) \/ RefuseBatch(g)
      PROVE  Checked'
  <2>1. PICK new : Arrives(g, new) BY <1>8, ArrivesShape
  <2>2. \A f \in Flights : flights'[f] = flights[f] \/ flights'[f].pc \in {"idle", "step4"}
    BY <1>1, <2>1 DEF Arrives
  <2>3. phase' = "idle" BY <2>1 DEF Arrives, work
  <2> QED BY <1>3, <2>2, <2>3
<1>9. CASE RemoteSend \/ SignInvite \/ PrepareOne \/ BeginStore \/ StoreEvent
  <2>1. flights' = flights /\ phase' \in {"idle", "prepare", "store"}
    BY <1>9 DEF RemoteSend, SignInvite, PrepareOne, BeginStore, StoreEvent, work
  <2> QED BY <1>3, <2>1
<1>10. CASE UNCHANGED vars
  <2>1. UNCHANGED <<ev, flights, phase, accepted>> BY <1>10 DEF vars, work
  <2> QED BY <2>1 DEF Checked, BatchIds, Picked, Ours
<1> QED BY <1>4, <1>5, <1>6, <1>7, <1>8, <1>9, <1>10 DEF Next

LEMMA LocalFreshNext ==
  ASSUME TypeInv, AtWork, LocalFresh, [Next]_vars
  PROVE  LocalFresh'
<1>0. TypeInv' /\ Shown \subseteq Known
  BY TypeNext, ShownIds DEF TypeInv, TypeOK
<1>1. CASE StoreEvent
  <2>1. PICK id : Stores(id) /\ id = Head(accepted).id BY <1>1, StoresShape
  <2>2. /\ Elems(Picked) = {id} \cup Elems(Picked') /\ id \in Ids
        /\ Once(Picked, Ids) => Once(Picked', Ids) /\ id \notin Elems(Picked') \cap Ids
    BY <2>1, StoresPicked, KnownIds
  <2>3. Shown' \subseteq Shown \cup {id} BY <2>1, ShownNext
  <2>4. LocalWork' => LocalWork BY <2>1 DEF Stores, LocalWork
  <2> QED BY <2>2, <2>3, <2>4 DEF LocalFresh
<1>2. CASE PrepareOne
  <2>1. Shown' = Shown BY <1>2, ShownNext DEF PrepareOne, StoreEvent
  <2>2. phase = "prepare" BY <1>2 DEF PrepareOne
  <2>3. CASE accepted' = accepted
    BY <2>1, <2>2, <2>3 DEF LocalFresh, LocalWork, Picked
  <2>4. CASE accepted' # accepted
    <3>1. PICK id \in Nat : id = Len(ev) + 1 BY KnownIds
    <3>2. accepted' = Keep(id, FALSE) /\ \E x : ev' = Append(ev, x)
      BY <1>2, <2>4, <3>1 DEF PrepareOne
    <3>3. Len(ev') = id /\ id \in Known' /\ Grows /\ id \notin Known
      <4>1. Len(ev) \in Nat /\ Len(ev') = Len(ev) + 1
        BY <3>2, KnownIds, AppendProperties DEF TypeInv, TypeOK, EventsOK
      <4> QED BY <3>1, <4>1 DEF Grows, Known
    <3>4. Picked' = Append(Picked, id) BY <1>0, <3>2, <3>3, PickedKept
    <3>5. Picked \in Seq(Known) /\ Picked \in Seq(Known') /\ Elems(Picked) \subseteq Known
      BY <3>3, PickedTyped, KnownGrows, ElemsTyped
    <3>6. Elems(Picked') = Elems(Picked) \cup {id} /\ (Once(Picked, Ids) => Once(Picked', Ids))
      BY <3>3, <3>4, <3>5, ElemsAppend
    <3> QED BY <1>0, <2>1, <2>2, <3>3, <3>6 DEF LocalFresh, LocalWork
  <2> QED BY <2>3, <2>4
<1>3. CASE \/ CreateRoom \/ SendLocal
           \/ \E f \in Flights : BeginStep4(f) \/ BeginStep5(f) \/ BeginStep6(f)
  <2>1. Picked' = <<>> BY <1>3, BeginsShape, PickedNone DEF Begins
  <2> QED BY <2>1, ElemsEmpty DEF LocalFresh
<1>4. CASE BeginStore \/ UNCHANGED vars
  <2>1. LocalWork' => LocalWork
    BY <1>4, OwnerAssumption
       DEF BeginStore, Authorised, vars, work, LocalWork, AtWork, Steps
  <2>2. accepted' = accepted /\ Shown' = Shown
    BY <1>4, ShownNext DEF BeginStore, StoreEvent, vars, work, Shown, db
  <2> QED BY <2>1, <2>2 DEF LocalFresh, Picked
<1>5. CASE ~(StoreEvent \/ BeginStore \/ PrepareOne \/ CreateRoom \/ SendLocal \/ UNCHANGED vars)
  <2>1. phase' # "store" BY <1>5, PhaseNext
  <2>2. phase' # "prepare" \/ accepted' = <<>>
    <3>1. CASE \/ MissingAuthEvent \/ Retry \/ AbortStore \/ Commit \/ Crash
               \/ EndStep4 \/ EndStep5
      BY <3>1, EndsShape, PassesShape DEF Ends, Passes, Release
    <3>2. CASE \/ \E f \in Flights : BeginStep4(f) \/ BeginStep5(f) \/ BeginStep6(f)
               \/ Step4One \/ Step5One \/ Step6One
      BY <3>2 DEF BeginStep4, BeginStep5, BeginStep6, Take, Step4One, Step5One, Step6One
    <3>3. CASE \/ RemoteSend \/ SignInvite
               \/ \E f \in Flights : \/ ReceivePDUs(f) \/ JoinRemote(f) \/ PrepareInvite(f)
                                     \/ RefuseBatch(f)
      BY <3>3 DEF RemoteSend, SignInvite, ReceivePDUs, JoinRemote, PrepareInvite,
                  RefuseBatch, work
    <3> QED BY <1>5, <3>1, <3>2, <3>3 DEF Next
  <2>3. accepted' = <<>> => Elems(Picked') = {} /\ Once(Picked', Ids)
    BY PickedNone, ElemsEmpty
  <2> QED BY <2>1, <2>2, <2>3 DEF LocalFresh, LocalWork
<1> QED BY <1>1, <1>2, <1>3, <1>4, <1>5

MadeInv ==
  /\ TypeInv /\ AtWork /\ MemberMaps /\ RemoteFirst /\ ShownIndexed
  /\ Carried /\ Checked /\ LocalFresh

LEMMA MadeInit == Init => MadeInv
<1> SUFFICES ASSUME Init PROVE MadeInv
  OBVIOUS
<1>1. TypeInv /\ AtWork /\ MemberMaps /\ RemoteFirst
  BY TypeInit, AtWorkInit, MemberMapsInit, RemoteFirstInit
<1>2. Shown = {} BY DEF Init, Shown
<1>3. Carried /\ Checked
  BY ElemsEmpty DEF Init, Carried, Checked, BatchIds, Idle
<1>4. LocalFresh BY DEF Init, LocalFresh, LocalWork
<1> QED BY <1>1, <1>2, <1>3, <1>4 DEF MadeInv, ShownIndexed

LEMMA MadeNext ==
  ASSUME MadeInv, [Next]_vars
  PROVE  MadeInv'
<1>1. TypeInv' /\ AtWork' /\ MemberMaps' /\ RemoteFirst' /\ ShownIndexed'
  BY TypeNext, AtWorkNext, MemberMapsNext, RemoteFirstNext, ShownIndexedNext DEF MadeInv
<1>2. Carried' /\ Checked' /\ LocalFresh'
  BY CarriedNext, CheckedNext, LocalFreshNext DEF MadeInv
<1> QED BY <1>1, <1>2 DEF MadeInv

(* An event stored for a federated request was not made here.              *)
LEMMA StoredNotOurs ==
  ASSUME MadeInv, StoreEvent, owner # LocalSend
  PROVE  ~Ours(Head(accepted).id)
<1>1. PICK id : Stores(id) /\ id = Head(accepted).id BY StoresShape DEF MadeInv
<1>2. id \in Elems(Picked) /\ owner \in Flights
  BY <1>1, StoresPicked DEF MadeInv, TypeInv, TypeOK, TransactionOK
<1>3. id \in BatchIds(owner) /\ flights[owner].pc = "step6"
  BY <1>1, <1>2 DEF MadeInv, AtWork, FlightWork, Stores
<1> QED BY <1>1, <1>2, <1>3 DEF MadeInv, Checked

LEMMA OnceNext ==
  ASSUME MadeInv, SentHereStoredOnce, [Next]_vars
  PROVE  SentHereStoredOnce'
<1>1. CASE StoreEvent
  <2>1. PICK n \in Nat : n = Len(log) BY LogTyped DEF MadeInv, TypeInv, TypeOK
  <2>2. PICK id : id = Head(accepted).id OBVIOUS
  <2>3. /\ UNCHANGED ev /\ ShownVersions' = ShownVersions \cup {n + 1}
        /\ log'[n + 1].id = id /\ id \in Known
        /\ \A v \in ShownVersions : v \in 1..n /\ log'[v] = log[v]
    BY <1>1, <2>1, <2>2, VersionsStored DEF MadeInv
  <2>4. Ours(id) => id \notin Shown
    <3>1. CASE owner = LocalSend
      <4>1. Stores(id) BY <1>1, <2>2, StoresShape DEF MadeInv
      <4>2. id \in Elems(Picked) BY <4>1, StoresPicked DEF MadeInv
      <4>3. LocalWork BY <3>1, <4>1 DEF Stores, LocalWork
      <4> QED BY <4>2, <4>3 DEF MadeInv, LocalFresh
    <3>2. CASE owner # LocalSend BY <1>1, <2>2, <3>2, StoredNotOurs
    <3> QED BY <3>1, <3>2
  <2>5. \A v \in ShownVersions : log[v].id \in Shown
    BY DEF ShownVersions, Shown
  <2>6. \A v \in ShownVersions : log[v].id = id => ~Ours(id) BY <2>4, <2>5
  <2> QED BY <2>3, <2>6 DEF SentHereStoredOnce, Ours
<1>2. CASE ~StoreEvent
  <2>1. /\ ShownVersions' = ShownVersions
        /\ \A v \in ShownVersions : log'[v] = log[v] /\ ev'[log[v].id] = ev[log[v].id]
    BY <1>2, VersionsNext, EventsNeverChange DEF MadeInv
  <2> QED BY <2>1 DEF SentHereStoredOnce
<1> QED BY <1>1, <1>2

(* An event sent here for a client, other than a membership, is stored     *)
(* once, whatever batches bring it back, in whatever order and however     *)
(* often, and wherever a retry or a crash interrupts them: step 4 of each  *)
(* comes after the write, since no server has the event before.            *)
THEOREM SentHereCorrect == Spec => []SentHereStoredOnce
<1>1. Init => MadeInv /\ SentHereStoredOnce
  <2>1. Init => ShownVersions = {} BY DEF Init, ShownVersions
  <2> QED BY <2>1, MadeInit DEF SentHereStoredOnce
<1>2. MadeInv /\ SentHereStoredOnce /\ [Next]_vars => MadeInv' /\ SentHereStoredOnce'
  BY MadeNext, OnceNext
<1> QED BY <1>1, <1>2, PTL DEF Spec

-----------------------------------------------------------------------------
(* Reactions of local users.                                               *)

Pair(e)       == <<e.rel, e.sender>>
(* Reactions made elsewhere are those of other users.                      *)
ReactsAbroad  ==
  \A id \in Known : ev[id].given /\ ev[id].kind = "react" => ~IsLocal(ev[id].sender)
Noted         == \A a \in Shown : ev[a].kind = "react" => Pair(ev[a]) \in reactions

(* A local reaction is checked against the reactions it is stored in.      *)
ReactAsked == phase = "prepare" =>
                \A k \in 1..Len(partials) :
                  partials[k].kind = "react" => Len(partials) = 1 /\ accepted = <<>>
ReactKept  == LocalWork =>
                \A k \in 1..Len(accepted) :
                  ev[accepted[k].id].kind = "react" =>
                    /\ Len(accepted) = 1 /\ Pair(ev[accepted[k].id]) \notin reactions
                    /\ phase = "prepare" => partials = <<>>

LEMMA ReactsAbroadNext ==
  ASSUME TypeInv, ReactsAbroad, [Next]_vars
  PROVE  ReactsAbroad'
<1>1. PICK n \in Nat : n = Len(ev) BY KnownIds
<1>2. \A id \in Known : ev'[id] = ev[id] BY EventsNeverChange
<1>3. CASE ev' = ev BY <1>3 DEF ReactsAbroad, Known, IsLocal
<1>4. ASSUME NEW e, NewEventIs(e) PROVE ReactsAbroad'
  <2>1. e.given /\ e.kind = "react" => ~IsLocal(e.sender)
    BY <1>4 DEF NewEventIs, FromElsewhere, FromDance, FromInvite, FromClient
  <2>2. \A id \in Known' : id \in Known \/ ev'[id] = e
    BY <1>1, <1>4 DEF NewEventIs, Known
  <2> QED BY <1>2, <2>1, <2>2 DEF ReactsAbroad, IsLocal
<1> QED BY <1>3, <1>4, EventNext

LEMMA NotedNext ==
  ASSUME TypeInv, Noted, [Next]_vars
  PROVE  Noted'
<1>1. \A a \in Shown : ev'[a] = ev[a]
  BY ShownIds, EventsNeverChange DEF TypeInv, TypeOK
<1>2. CASE StoreEvent /\ Shown' = Shown \cup {Head(accepted).id}
  BY <1>1, <1>2 DEF StoreEvent, ReactionsAfter, Noted, Pair
<1>3. CASE ~StoreEvent
  BY <1>1, <1>3, IndexNext, ShownNext DEF Noted
<1>4. CASE StoreEvent /\ Shown' = Shown
  BY <1>1, <1>4 DEF StoreEvent, ReactionsAfter, Noted, Pair
<1> QED BY <1>2, <1>3, <1>4, ShownNext

LEMMA ReactPrepare ==
  ASSUME TypeInv, ReactAsked, ReactKept, PrepareOne, [Next]_vars
  PROVE  ReactAsked' /\ ReactKept'
<1>1. LET e == LocalEvent(Head(partials))
          id == Len(ev) + 1
      IN IF DuplicateReaction(e) \/ ~Allowed(e, auth)
         THEN UNCHANGED <<ev, accepted, auth, heads>>
         ELSE /\ ev' = Append(ev, e)
              /\ accepted' = Keep(id, FALSE)
              /\ auth' = Applied(auth, e, id)
              /\ heads' = {id}
  BY DEF PrepareOne
<1>2. /\ phase = "prepare" /\ phase' = "prepare" /\ partials # <<>>
      /\ partials' = Tail(partials) /\ reactions' = reactions
  BY DEF PrepareOne, db
<1>3. PICK n \in Nat : n = Len(accepted) BY AcceptedTyped
<1>4. PICK m \in Nat : /\ Len(partials) = m + 1 /\ Len(partials') = m
                       /\ Head(partials) = partials[1]
                       /\ \A k \in 1..m : partials'[k] = partials[k + 1]
  <2>1. partials \in Seq(PartialEvent) BY DEF TypeInv, TypeOK, TransactionOK
  <2> QED BY <1>2, <2>1, HeadTailSeq, LenProperties
<1>5. ReactAsked'
  <2>1. \A k \in 1..m : k + 1 \in 1..(m + 1) /\ m + 1 # 1 BY <1>4
  <2> QED BY <1>2, <1>4, <2>1 DEF ReactAsked
<1>6. \A k \in 1..n : ev[accepted[k].id].kind # "react"
  BY <1>2, <1>3 DEF ReactKept, LocalWork
<1>7. \A k \in 1..n : ev'[accepted[k].id] = ev[accepted[k].id]
  BY <1>3, AcceptedTyped, EventsNeverChange DEF Accepted
<1>8. PICK id \in Nat : id = Len(ev) + 1 BY KnownIds
<1>9. PICK e : e = LocalEvent(Head(partials)) OBVIOUS
<1>10. CASE accepted' = accepted
  <2>1. \A k \in 1..Len(accepted') : ev'[accepted'[k].id].kind # "react"
    BY <1>3, <1>6, <1>7, <1>10
  <2> QED BY <1>5, <2>1 DEF ReactKept
<1>11. CASE ev' = Append(ev, e) /\ accepted' = Keep(id, FALSE) /\ ~DuplicateReaction(e)
  <2>1. Len(ev') = id /\ ev'[id] = e /\ Grows /\ id \in Known'
    <3>1. Len(ev) \in Nat /\ ev \in Seq(Event) BY KnownIds DEF TypeInv, TypeOK, EventsOK
    <3>2. Len(ev') = Len(ev) + 1 /\ ev'[Len(ev) + 1] = e
      BY <1>11, <3>1, AppendProperties
    <3> QED BY <1>8, <3>1, <3>2 DEF Grows, Known
  <2>2. /\ Len(accepted') = n + 1 /\ accepted'[n + 1].id = id
        /\ \A k \in 1..n : accepted'[k] = accepted[k]
    BY <1>3, <1>11, <2>1, TypeNext, PickedKept
  <2>3. \A k \in 1..n : ev'[accepted'[k].id].kind # "react" BY <1>6, <1>7, <2>2
  <2>4. \A k \in 1..(n + 1) : k = n + 1 \/ k \in 1..n BY <1>3
  <2>5. ASSUME e.kind = "react"
        PROVE  n = 0 /\ partials' = <<>> /\ Pair(e) \notin reactions
    <3>1. Head(partials).kind = "react" BY <1>9, <2>5 DEF LocalEvent
    <3>2. 1 \in 1..(m + 1) BY <1>4
    <3>3. Len(partials) = 1 /\ accepted = <<>>
      BY <1>2, <1>4, <3>1, <3>2 DEF ReactAsked
    <3>4. n = 0 /\ m = 0 BY <1>3, <1>4, <3>3, EmptySeq
    <3>5. partials' = <<>>
      <4>1. partials' \in Seq(PartialEvent)
        BY TypeNext DEF TypeInv, TypeOK, TransactionOK
      <4> QED BY <1>4, <3>4, <4>1, EmptySeq
    <3> QED BY <1>11, <2>5, <3>4, <3>5 DEF DuplicateReaction, Pair
  <2>6. ASSUME NEW k \in 1..(n + 1), ev'[accepted'[k].id].kind = "react"
        PROVE  /\ n + 1 = 1 /\ partials' = <<>>
               /\ Pair(ev'[accepted'[k].id]) \notin reactions
    <3>1. k = n + 1 BY <2>3, <2>4, <2>6
    <3>2. ev'[accepted'[k].id] = e BY <2>1, <2>2, <3>1
    <3> QED BY <2>5, <2>6, <3>2
  <2> QED BY <1>2, <1>5, <2>2, <2>6 DEF ReactKept, Pair
<1> QED BY <1>1, <1>5, <1>8, <1>9, <1>10, <1>11

LEMMA ReactStored ==
  ASSUME TypeInv, ReactKept, StoreEvent
  PROVE  ReactAsked' /\ ReactKept'
<1>1. PICK id : Stores(id) BY StoresShape
<1>2. PICK n \in Nat : Len(accepted) = n + 1 /\ Len(accepted') = n
  BY <1>1, HeadTailSeq, LenProperties DEF Stores, TypeInv, TypeOK, TransactionOK
<1>3. \A k \in 1..n : accepted'[k] = accepted[k + 1] /\ k + 1 \in 1..(n + 1) /\ n + 1 # 1
  BY <1>1, <1>2, PickedTail DEF Stores
<1>4. phase = "store" /\ phase' = "store" /\ ev' = ev /\ owner' = owner BY <1>1 DEF Stores
<1>5. LocalWork' => \A k \in 1..n : ev'[accepted'[k].id].kind # "react"
  BY <1>2, <1>3, <1>4 DEF ReactKept, LocalWork
<1> QED BY <1>2, <1>4, <1>5 DEF ReactAsked, ReactKept

LEMMA ReactNext ==
  ASSUME TypeInv, AtWork, ReactAsked, ReactKept, [Next]_vars
  PROVE  ReactAsked' /\ ReactKept'
<1>1. CASE StoreEvent BY <1>1, ReactStored
<1>2. CASE PrepareOne BY <1>2, ReactPrepare
<1>3. CASE CreateRoom \/ SendLocal
  <2>1. PICK ps : BeginLocal(ps) /\ (ps = CreateBatch \/ \E p : ps = <<p>>)
    BY <1>3 DEF CreateRoom, SendLocal
  <2>2. accepted' = <<>> /\ partials' = ps BY <2>1 DEF BeginLocal, Take
  <2>3. \A k \in 1..Len(ps) : ps[k].kind = "react" => Len(ps) = 1
    BY <2>1 DEF CreateBatch, Partial
  <2>4. Len(accepted') = 0 BY <2>2, EmptySeq
  <2> QED BY <2>2, <2>3, <2>4 DEF ReactAsked, ReactKept
<1>4. CASE BeginStore
  <2>1. /\ phase \in {"prepare", "step6"} /\ phase' = "store"
        /\ UNCHANGED <<ev, reactions, accepted, owner>>
    BY <1>4 DEF BeginStore, Authorised, db
  <2>2. phase = "step6" => owner # LocalSend BY OwnerAssumption DEF AtWork, Steps
  <2> QED BY <2>1, <2>2 DEF ReactAsked, ReactKept, LocalWork
<1>5. CASE UNCHANGED vars
  BY <1>5 DEF vars, work, db, ReactAsked, ReactKept, LocalWork
<1>6. CASE phase' \notin {"prepare", "store"}
  BY <1>6 DEF ReactAsked, ReactKept, LocalWork
<1>7. CASE \/ MissingAuthEvent \/ Retry \/ AbortStore \/ Commit \/ Crash
           \/ EndStep4 \/ EndStep5
  <2>1. phase' = "idle" BY <1>7, EndsShape, PassesShape DEF Ends, Passes, Release
  <2> QED BY <1>6, <2>1
<1>8. CASE \/ \E f \in Flights : BeginStep4(f) \/ BeginStep5(f) \/ BeginStep6(f)
           \/ Step4One \/ Step5One \/ Step6One
  BY <1>6, <1>8 DEF BeginStep4, BeginStep5, BeginStep6, Take, Step4One, Step5One, Step6One
<1>9. CASE \/ RemoteSend \/ SignInvite
           \/ \E f \in Flights : \/ ReceivePDUs(f) \/ JoinRemote(f) \/ PrepareInvite(f)
                                 \/ RefuseBatch(f)
  BY <1>6, <1>9 DEF RemoteSend, SignInvite, ReceivePDUs, JoinRemote, PrepareInvite,
                    RefuseBatch, work
<1> QED BY <1>1, <1>2, <1>3, <1>4, <1>5, <1>7, <1>8, <1>9 DEF Next

ReactInv ==
  /\ MadeInv /\ ReactsAbroad /\ Noted /\ ReactAsked /\ ReactKept /\ LocalsReactOnce

LEMMA ReactOnceNext ==
  ASSUME ReactInv, [Next]_vars
  PROVE  LocalsReactOnce'
<1>1. \A a \in Shown : ev'[a] = ev[a]
  BY ShownIds, EventsNeverChange DEF ReactInv, MadeInv, TypeInv, TypeOK
<1> DEFINE Same(a, b) ==
             /\ ev[a].kind = "react" /\ ev[b].kind = "react" /\ a # b
             /\ ev[a].sender \in {u \in Users : IsLocal(u)} /\ Pair(ev[a]) = Pair(ev[b])
<1>2. \A a, b \in Shown : ~Same(a, b)
  BY DEF ReactInv, LocalsReactOnce, OneReactionOf, Pair
<1>3. ASSUME NEW a \in Shown', NEW b \in Shown', Same(a, b)'
      PROVE  FALSE
  <2>1. CASE a \in Shown /\ b \in Shown
    <3>1. Same(a, b) BY <1>1, <1>3, <2>1 DEF Pair, IsLocal
    <3> QED BY <1>2, <2>1, <3>1
  <2>2. CASE ~(a \in Shown /\ b \in Shown)
    <3>1. PICK id : id = Head(accepted).id /\ StoreEvent /\ Shown' = Shown \cup {id}
      BY <2>2, ShownNext DEF ReactInv, MadeInv
    <3>2. PICK c \in Shown : {a, b} = {id, c}
      BY <1>3, <2>2, <3>1
    <3>3. ev' = ev /\ ev[id].kind = "react" /\ ev[c].kind = "react"
          /\ Pair(ev[c]) = Pair(ev[id]) /\ IsLocal(ev[id].sender)
      <4>1. ev' = ev BY <3>1 DEF StoreEvent
      <4>2. Same(a, b) BY <1>3, <4>1 DEF Pair, IsLocal
      <4>3. IsLocal(ev[a].sender) /\ IsLocal(ev[b].sender) BY <4>2 DEF Pair
      <4> QED BY <3>2, <4>1, <4>2, <4>3
    <3>4. Pair(ev[id]) \in reactions BY <3>2, <3>3 DEF ReactInv, Noted
    <3>5. accepted[1].id = id /\ 1 \in 1..Len(accepted) /\ phase = "store"
      BY <3>1, StoresShape, NextToStore DEF Stores, ReactInv, MadeInv
    <3>6. CASE owner = LocalSend
      BY <3>3, <3>4, <3>5, <3>6 DEF ReactInv, ReactKept, LocalWork
    <3>7. CASE owner # LocalSend
      <4>1. ~Ours(id) /\ id \in Known
        BY <3>1, <3>7, StoredNotOurs, NextToStore DEF ReactInv, MadeInv, StoreEvent
      <4> QED BY <3>3, <4>1 DEF ReactInv, ReactsAbroad, Ours, MemberKinds
    <3> QED BY <3>6, <3>7
  <2> QED BY <2>1, <2>2
<1> QED BY <1>3 DEF LocalsReactOnce, OneReactionOf, Pair, IsLocal

LEMMA ReactInit == Init => ReactInv
<1> SUFFICES ASSUME Init PROVE ReactInv
  OBVIOUS
<1>1. MadeInv BY MadeInit
<1>2. ReactsAbroad
  <2>1. CASE ev = <<>> BY <2>1, EmptySeq DEF Known, ReactsAbroad
  <2>2. CASE ev = RemoteRoom
    <3>1. Known = {1, 2} BY <2>2, RemoteRoomTyped DEF Known
    <3> QED BY <2>2, <3>1 DEF RemoteRoom, ReactsAbroad
  <2> QED BY <2>1, <2>2 DEF Init
<1>3. Shown = {} BY DEF Init, Shown
<1>4. Noted /\ LocalsReactOnce BY <1>3 DEF Noted, LocalsReactOnce, OneReactionOf
<1>5. ReactAsked /\ ReactKept BY DEF Init, ReactAsked, ReactKept, LocalWork
<1> QED BY <1>1, <1>2, <1>4, <1>5 DEF ReactInv

(* A local user reacts to an event at most once, with any number of local   *)
(* sends, federated batches and join responses in progress: a local one is  *)
(* checked against the reactions of the timeline it is written to, and one  *)
(* that a batch brings back was in the timeline before step 4 looked.       *)
THEOREM ReactOnceCorrect == Spec => []LocalsReactOnce
<1>1. ReactInv /\ [Next]_vars => ReactInv'
  <2> SUFFICES ASSUME ReactInv, [Next]_vars PROVE ReactInv'
    OBVIOUS
  <2>1. MadeInv' BY MadeNext DEF ReactInv
  <2>2. ReactsAbroad' /\ Noted' /\ ReactAsked' /\ ReactKept'
    BY ReactsAbroadNext, NotedNext, ReactNext DEF ReactInv, MadeInv
  <2> QED BY <2>1, <2>2, ReactOnceNext DEF ReactInv
<1>2. ReactInv => LocalsReactOnce BY DEF ReactInv
<1> QED BY <1>1, <1>2, ReactInit, PTL DEF Spec

-----------------------------------------------------------------------------
(* The create event.                                                       *)

RoomKnown == room.exists <=> ShownVersions # {}
Creating(k) == ev[accepted[k].id].kind = "create"
StoreOrder ==
  phase = "store" => \A k \in 1..Len(accepted) :
    ev[accepted[k].id].kind \in StateKinds =>
      (Creating(k) <=> ~(room.exists \/ \E j \in 1..(k - 1) : Creating(j)))

CreateInv == TimelineInv /\ CreateFirst /\ RoomKnown /\ StoreOrder

LEMMA OrderBegins ==
  ASSUME TypeInv, BeginStore
  PROVE  StoreOrder'
<1>1. PICK n \in Nat : n = Len(accepted) BY AcceptedTyped
<1>2. \A k \in 1..n : ~StoreFailsAt(k) /\ ~accepted[k].soft
  <2>1. \A k \in 1..n : k \in DOMAIN accepted
    BY <1>1, LenProperties DEF TypeInv, TypeOK, TransactionOK
  <2>2. \A k \in 1..n : ~StoreFailsAt(k) BY <2>1 DEF BeginStore, StoreFails
  <2> QED BY <2>2 DEF StoreFailsAt, HoldsStamp, ValueForVersionstamp
<1>3. ASSUME NEW k \in 1..n, ev[accepted[k].id].kind \in StateKinds
      PROVE  Creating(k) <=> ~(room.exists \/ \E j \in 1..(k - 1) : Creating(j))
  <2>1. \A j \in 1..(k - 1) : j \in 1..n /\ (Creates(j) <=> Creating(j))
    BY <1>1, <1>2 DEF Creates, Creating
  <2>2. ~(Creating(k) <=> (room.exists \/ \E j \in 1..(k - 1) : Creates(j)))
    BY <1>2, <1>3 DEF StoreFailsAt, Creating
  <2>3. (\E j \in 1..(k - 1) : Creates(j)) <=> (\E j \in 1..(k - 1) : Creating(j))
    BY <2>1
  <2> QED BY <2>2, <2>3
<1>4. UNCHANGED <<ev, room, accepted>> BY DEF BeginStore, db
<1> QED BY <1>1, <1>3, <1>4 DEF StoreOrder, Creating

LEMMA CreateStored ==
  ASSUME CreateInv, StoreEvent
  PROVE  CreateFirst' /\ RoomKnown' /\ StoreOrder'
<1>1. PICK n \in Nat : n = Len(log)
  BY LogTyped DEF CreateInv, TimelineInv, TypeInv, TypeOK
<1>2. PICK id : id = Head(accepted).id OBVIOUS
<1>3. /\ UNCHANGED ev /\ ShownVersions' = ShownVersions \cup {n + 1}
      /\ log'[n + 1].id = id /\ id \in Known /\ ev[id] \in Event
      /\ \A v \in ShownVersions : v \in 1..n /\ log'[v] = log[v]
  BY <1>1, <1>2, VersionsStored DEF CreateInv, TimelineInv
<1>4. PICK m \in Nat :
        /\ Len(accepted) = m + 1 /\ Len(accepted') = m /\ accepted[1] = Head(accepted)
        /\ \A k \in 1..m : accepted'[k] = accepted[k + 1]
  <2>1. /\ accepted # <<>> /\ accepted' = Tail(accepted) /\ accepted \in Seq(Accepted)
    BY DEF StoreEvent, CreateInv, TimelineInv, TypeInv, TypeOK, TransactionOK
  <2> QED BY <2>1, HeadTailSeq, LenProperties
<1>5. phase = "store" /\ phase' = "store" /\ room' = RoomAfter(ev[id])
  BY <1>2 DEF StoreEvent
<1>6. 1 \in 1..(m + 1) /\ 1..(1 - 1) = {} OBVIOUS
<1>7. ev[id].kind \in StateKinds => (ev[id].kind = "create" <=> ~room.exists)
  BY <1>2, <1>4, <1>5, <1>6 DEF CreateInv, StoreOrder, Creating
<1>8. ev[id].kind \notin StateKinds => ShownVersions # {}
  <2> SUFFICES ASSUME ev[id].kind \notin StateKinds PROVE ShownVersions # {}
    OBVIOUS
  <2>1. Membership(members, ev[id].sender) = "join" /\ ev[id].sender \in Users
    BY <1>2, <1>3, StoredAllowed DEF CreateInv, Allowed, StateKinds, MemberKinds, Event
  <2>2. members[ev[id].sender] # 0 BY <2>1 DEF Membership
  <2>3. Changes(n, ev[id].sender) # {}
    BY <1>1, <2>1, <2>2 DEF CreateInv, TimelineInv, CurrentStateIsLatest, StateAt
  <2>4. PICK w \in 1..n : log[w].shown BY <2>3 DEF Changes, IsMember
  <2>5. DOMAIN log = 1..n
    BY <1>1, LenProperties DEF CreateInv, TimelineInv, TypeInv, TypeOK, DatabaseOK
  <2> QED BY <2>4, <2>5 DEF ShownVersions
<1>9. ev[id].kind = "create" <=> ShownVersions = {}
  BY <1>7, <1>8 DEF CreateInv, RoomKnown, StateKinds
<1>10. CreateFirst'
  <2>1. \A v \in ShownVersions : v < n + 1 /\ ~(n + 1 <= v) /\ v <= n + 1 BY <1>1, <1>3
  <2>2. ASSUME NEW v \in ShownVersions
        PROVE  (\A w \in ShownVersions' : v <= w) <=> \A w \in ShownVersions : v <= w
    BY <1>3, <2>1
  <2>3. (\A w \in ShownVersions' : n + 1 <= w) <=> ShownVersions = {}
    BY <1>1, <1>3, <2>1
  <2> QED BY <1>3, <1>9, <2>2, <2>3 DEF CreateInv, CreateFirst
<1>11. room'.exists <=> room.exists \/ ev[id].kind = "create"
  BY <1>5 DEF RoomAfter, CreateInv, TimelineInv, TypeInv, TypeOK, DatabaseOK
<1>12. room'.exists
  BY <1>9, <1>11 DEF CreateInv, RoomKnown
<1>13. RoomKnown' BY <1>3, <1>12 DEF RoomKnown
<1>14. StoreOrder'
  <2>1. ASSUME NEW k \in 1..m, ev[accepted[k + 1].id].kind \in StateKinds
        PROVE  ~Creating(k + 1)
    <3>1. /\ k + 1 \in 1..(m + 1) /\ (k + 1) - 1 = k /\ 1 \in 1..k
      BY <1>4
    <3>2. Creating(k + 1) <=> ~(room.exists \/ \E j \in 1..k : Creating(j))
      BY <1>4, <1>5, <2>1, <3>1 DEF CreateInv, StoreOrder
    <3>3. room.exists \/ Creating(1)
      BY <1>2, <1>4, <1>11, <1>12 DEF Creating
    <3> QED BY <3>1, <3>2, <3>3
  <2>2. \A k \in 1..m : Creating(k)' <=> Creating(k + 1)
    BY <1>3, <1>4 DEF Creating
  <2> QED BY <1>3, <1>4, <1>12, <2>1, <2>2 DEF StoreOrder
<1> QED BY <1>10, <1>13, <1>14

LEMMA CreateNext ==
  ASSUME CreateInv, [Next]_vars
  PROVE  CreateInv'
<1>1. TimelineInv' BY TimelineNext DEF CreateInv
<1>2. CASE StoreEvent BY <1>1, <1>2, CreateStored DEF CreateInv
<1>3. CASE ~StoreEvent
  <2>1. TypeInv BY DEF CreateInv, TimelineInv
  <2>2. /\ ShownVersions' = ShownVersions /\ room' = room
        /\ \A v \in ShownVersions : log'[v] = log[v] /\ ev'[log[v].id] = ev[log[v].id]
    BY <1>3, <2>1, VersionsNext, IndexNext, EventsNeverChange
  <2>3. CreateFirst' BY <2>2 DEF CreateInv, CreateFirst
  <2>4. RoomKnown' BY <2>2 DEF CreateInv, RoomKnown
  <2>5. StoreOrder'
    <3>1. CASE BeginStore BY <2>1, <3>1, OrderBegins
    <3>2. CASE UNCHANGED vars
      BY <3>2 DEF vars, work, db, CreateInv, StoreOrder, Creating
    <3>3. CASE phase' # "store" BY <3>3 DEF StoreOrder
    <3> QED BY <1>3, <2>1, <3>1, <3>2, <3>3, PhaseNext
  <2> QED BY <1>1, <2>3, <2>4, <2>5 DEF CreateInv
<1> QED BY <1>2, <1>3

(* A room is created once, and by its first event, with any number of       *)
(* requests that create or join it at the same time: the one that comes     *)
(* second fails before it writes anything, and nothing is stored before.    *)
THEOREM CreateFirstCorrect == Spec => []CreateFirst
<1>1. Init => CreateInv
  <2> SUFFICES ASSUME Init PROVE CreateInv
    OBVIOUS
  <2>1. ShownVersions = {} BY DEF Init, ShownVersions
  <2>2. TimelineInv BY TimelineInit
  <2> QED BY <2>1, <2>2 DEF Init, CreateInv, CreateFirst, RoomKnown, StoreOrder
<1>2. CreateInv /\ [Next]_vars => CreateInv' BY CreateNext
<1>3. CreateInv => CreateFirst BY DEF CreateInv
<1> QED BY <1>1, <1>2, <1>3, PTL DEF Spec

=============================================================================
