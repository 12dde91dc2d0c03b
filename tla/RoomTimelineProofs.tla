------------------------- MODULE RoomTimelineProofs -------------------------
(* Every event of the timeline was allowed where it stands, the member      *)
(* count is right, and the send engine implements the timeline.  The        *)
(* argument follows one batch: as long as none of it is soft failed, each   *)
(* event kept was allowed by the state that storing those before it leaves, *)
(* so it still is when its turn to be stored comes; and a batch that has a  *)
(* soft failed event, of this attempt or of one before it, is not stored.   *)
EXTENDS RoomStoreProofs

(* The state that the first k - 1 events of the batch at work leave.        *)
Left(a) == Applied(a.was, ev[a.id], a.id)
StateBefore(k) == IF k = 1 THEN members ELSE Left(accepted[k - 1])

(* None of the first k events is soft failed.                              *)
Unfailed(k) == \A j \in 1..k : ~accepted[j].soft

Linked == \A k \in 1..Len(accepted) : Unfailed(k) => accepted[k].was = StateBefore(k)
Legal  == \A k \in 1..Len(accepted) :
            ~accepted[k].soft => Allowed(ev[accepted[k].id], accepted[k].was)
Chain ==
  phase \in {"prepare", "step6", "store"} =>
    /\ Linked /\ Legal
    /\ phase # "store" /\ Unfailed(Len(accepted)) =>
         auth = StateBefore(Len(accepted) + 1)

TimelineInv == TypeInv /\ CurrentStateIsLatest /\ Chain

-----------------------------------------------------------------------------
(* The chain of states.                                                    *)

(* New events do not change what is allowed.                               *)
LEMMA AllowedStable ==
  ASSUME TypeInv, [Next]_vars, NEW m \in States, NEW e, e.prevs \subseteq Known,
         e.sender \in Users, e.target \in Users
  PROVE  Allowed(e, m)' <=> Allowed(e, m)
<1>1. \A p \in e.prevs : ev'[p] = ev[p] BY EventsNeverChange
<1>2. \A u \in Users : Membership(m, u)' = Membership(m, u)
  BY EventsNeverChange, KnownIds DEF Membership, States, Known
<1> QED BY <1>1, <1>2 DEF Allowed

LEMMA KnownEvent ==
  ASSUME TypeInv, NEW i \in Known
  PROVE  /\ ev[i].prevs \subseteq Known
         /\ ev[i].sender \in Users /\ ev[i].target \in Users
<1>1. ev[i].prevs \subseteq Known
  BY KnownIds DEF TypeInv, TypeOK, EventsOK, RefersBack, Known
<1>2. ev[i] \in Event
  BY ElementOfSeq DEF TypeInv, TypeOK, EventsOK, Known
<1> QED BY <1>1, <1>2 DEF Event

LEMMA LegalKept ==
  ASSUME TypeInv, [Next]_vars, Legal, NEW k \in 1..Len(accepted), NEW a,
         a = accepted[k], ~a.soft
  PROVE  Allowed(ev[a.id], a.was)'
<1>1. a.id \in Known /\ a.was \in States BY AcceptedTyped DEF Accepted
<1>2. PICK e : e = ev[a.id] OBVIOUS
<1>3. Allowed(e, a.was)
  BY <1>2 DEF Legal
<1>4. Allowed(e, a.was)' BY <1>1, <1>2, <1>3, KnownEvent, AllowedStable
<1>5. ev'[a.id] = e BY <1>1, <1>2, EventsNeverChange
<1> QED BY <1>4, <1>5

LEMMA ChainSame ==
  ASSUME TypeInv, [Next]_vars, Chain, phase \in {"prepare", "step6", "store"},
         UNCHANGED <<accepted, members>>, phase' = phase \/ phase' = "store",
         phase' # "store" => auth' = auth
  PROVE  Chain'
<1> DEFINE n == Len(accepted)
<1>1. /\ n \in Nat
      /\ \A k \in 1..n : /\ accepted[k].id \in Known /\ accepted[k].was \in States
                       /\ ev'[accepted[k].id] = ev[accepted[k].id]
  <2>1. n \in Nat /\ \A k \in 1..n : accepted[k] \in Accepted BY AcceptedTyped
  <2> QED BY <2>1, EventsNeverChange DEF Accepted
<1>2. \A k \in 1..(n + 1) : StateBefore(k)' = StateBefore(k)
  BY <1>1 DEF StateBefore, Left
<1>u. \A k \in 1..(n + 1) : Unfailed(k)' <=> Unfailed(k) BY DEF Unfailed
<1>3. Linked' BY <1>2, <1>1, <1>u DEF Chain, Linked
<1>4. Legal'
  <2> SUFFICES ASSUME NEW k \in 1..n, ~accepted[k].soft
               PROVE  Allowed(ev[accepted[k].id], accepted[k].was)'
    BY DEF Legal
  <2>1. PICK a : a = accepted[k] OBVIOUS
  <2>2. Allowed(ev[a.id], a.was)' BY <2>1, LegalKept DEF Chain
  <2> QED BY <2>1, <2>2
<1>5. phase' # "store" /\ Unfailed(n)' => auth' = StateBefore(n + 1)'
  BY <1>1, <1>2 DEF Chain, Unfailed
<1> QED BY <1>3, <1>4, <1>5 DEF Chain

(* A transaction begins with the current state.                            *)
LEMMA ChainTake ==
  ASSUME NEW o, NEW p, NEW b, Take(o, p, b), UNCHANGED members
  PROVE  Chain'
<1>1. Len(accepted') = 0 /\ auth' = members' BY EmptySeq DEF Take
<1> QED BY <1>1 DEF Chain, Linked, Legal, StateBefore, Unfailed

(* One event more is kept, judged by the state the others leave.           *)
LEMMA ChainAppend ==
  ASSUME TypeInv, [Next]_vars, Grows, Chain, phase \in {"prepare", "step6"},
         UNCHANGED <<phase, members>>, NEW a, a.id \in Known', a.soft \in BOOLEAN,
         a = [id |-> a.id, soft |-> a.soft, was |-> auth],
         accepted' = Append(accepted, a),
         ~a.soft => auth' = Left(a)' /\ Allowed(ev[a.id], a.was)'
  PROVE  Chain'
<1>1. PICK n \in Nat : n = Len(accepted) BY AcceptedTyped
<1>2. /\ Len(accepted') = n + 1 /\ accepted'[n + 1] = a
      /\ \A k \in 1..n : accepted'[k] = accepted[k]
  <2>1. accepted \in Seq(Accepted') /\ auth \in States'
    BY KnownGrows DEF TypeInv, TypeOK, TransactionOK
  <2>2. a \in Accepted' BY <2>1 DEF Accepted
  <2> QED BY <1>1, <2>1, <2>2, AppendSeq
<1>3. \A k \in 1..n : accepted[k].id \in Known /\ ev'[accepted[k].id] = ev[accepted[k].id]
  BY <1>1, AcceptedTyped, EventsNeverChange DEF Accepted
<1>4. \A k \in 1..(n + 1) : StateBefore(k)' = StateBefore(k)
  <2>1. \A k \in 1..(n + 1) : k = 1 \/ k - 1 \in 1..n OBVIOUS
  <2> QED BY <1>2, <1>3, <2>1 DEF StateBefore, Left
<1>u. /\ \A k \in 1..n : Unfailed(k)' <=> Unfailed(k)
      /\ Unfailed(n + 1)' => Unfailed(n) /\ ~a.soft
  <2>1. \A k \in 1..n : \A j \in 1..k : j \in 1..n BY <1>1
  <2>2. \A j \in 1..n : j \in 1..(n + 1) BY <1>1
  <2>3. n + 1 \in 1..(n + 1) BY <1>1
  <2>4. \A k \in 1..n : Unfailed(k)' <=> Unfailed(k) BY <1>2, <2>1 DEF Unfailed
  <2>5. Unfailed(n + 1)' => Unfailed(n) /\ ~a.soft
    BY <1>2, <2>2, <2>3 DEF Unfailed
  <2> QED BY <2>4, <2>5
<1>5. Linked'
  <2>1. Unfailed(n) => a.was = StateBefore(n + 1) BY <1>1 DEF Chain
  <2>2. \A k \in 1..(n + 1) : k = n + 1 \/ k \in 1..n OBVIOUS
  <2> QED BY <1>1, <1>2, <1>4, <1>u, <2>1, <2>2 DEF Chain, Linked
<1>6. Legal'
  <2> SUFFICES ASSUME NEW k \in 1..(n + 1), ~accepted'[k].soft
               PROVE  Allowed(ev[accepted[k].id], accepted[k].was)'
    BY <1>2 DEF Legal
  <2>1. CASE k = n + 1 BY <1>2, <2>1
  <2>2. CASE k # n + 1
    <3>1. k \in 1..n /\ accepted'[k] = accepted[k] BY <1>2, <2>2
    <3>2. PICK c : c = accepted[k] OBVIOUS
    <3>3. Allowed(ev[c.id], c.was)' BY <1>1, <3>1, <3>2, LegalKept DEF Chain
    <3> QED BY <3>1, <3>2, <3>3
  <2> QED BY <2>1, <2>2
<1>7. Unfailed(n + 1)' => auth' = StateBefore(n + 2)'
  BY <1>1, <1>2, <1>u DEF StateBefore
<1> QED BY <1>1, <1>2, <1>5, <1>6, <1>7 DEF Chain

LEMMA ChainPrepareOne ==
  ASSUME TypeInv, [Next]_vars, Chain, PrepareOne
  PROVE  Chain'
<1>1. LET e == LocalEvent(Head(partials))
            id == Len(ev) + 1
        IN IF DuplicateReaction(e) \/ ~Allowed(e, auth)
           THEN UNCHANGED <<ev, accepted, auth, heads>>
           ELSE /\ ev' = Append(ev, e)
                /\ accepted' = Keep(id, FALSE)
                /\ auth' = Applied(auth, e, id)
                /\ heads' = {id}
  BY DEF PrepareOne
<1>2. phase = "prepare" /\ partials # <<>> /\ UNCHANGED <<phase, members>>
  BY DEF PrepareOne, db
<1>3. PICK e : e = LocalEvent(Head(partials)) OBVIOUS
<1>4. CASE UNCHANGED <<ev, accepted, auth, heads>> BY <1>2, <1>4, ChainSame
<1>5. CASE /\ Allowed(e, auth) /\ ev' = Append(ev, e)
           /\ accepted' = Keep(Len(ev) + 1, FALSE)
           /\ auth' = Applied(auth, e, Len(ev) + 1)
  <2>1. PICK m \in States, n \in Nat : m = auth /\ n = Len(ev) + 1
    BY KnownIds DEF TypeInv, TypeOK, TransactionOK
  <2>2. e.prevs \subseteq Known /\ e.sender \in Users /\ e.target \in Users
    BY <1>2, <1>3, HeadTailSeq
       DEF LocalEvent, PartialEvent, TypeInv, TypeOK, TransactionOK
  <2>3. Allowed(e, m)' BY <1>5, <2>1, <2>2, AllowedStable
  <2>4. Len(ev') = n /\ ev'[n] = e /\ Grows /\ n \in Known'
    <3>1. \A x : Len(Append(ev, x)) = n /\ Append(ev, x)[n] = x
      BY <2>1, AppendProperties, KnownIds DEF TypeInv, TypeOK, EventsOK
    <3> QED BY <1>5, <2>1, <3>1, KnownIds DEF Grows, Known
  <2>5. PICK a : a = [id |-> n, soft |-> FALSE, was |-> m] OBVIOUS
  <2>6. accepted' = Append(accepted, a) BY <1>5, <2>1, <2>5 DEF Keep
  <2>7. auth' = Left(a)' BY <1>5, <2>1, <2>4, <2>5 DEF Left
  <2>8. Allowed(ev[a.id], a.was)' BY <2>3, <2>4, <2>5
  <2> QED BY <1>2, <2>1, <2>4, <2>5, <2>6, <2>7, <2>8, ChainAppend
<1> QED BY <1>1, <1>3, <1>4, <1>5

LEMMA ChainStep6One ==
  ASSUME TypeInv, [Next]_vars, Chain, Step6One
  PROVE  Chain'
<1>1. PICK id : id = Head(todo) OBVIOUS
<1>2. PICK m \in States : m = auth BY DEF TypeInv, TypeOK, TransactionOK
<1>3. PICK ok : ok = Allowed(ev[id], m) OBVIOUS
<1>4. /\ phase = "step6" /\ todo # <<>> /\ UNCHANGED <<ev, phase, members>>
      /\ accepted' = Keep(id, SoftFailed(Index, ok))
      /\ auth' = IF ok THEN Applied(m, ev[id], id) ELSE m
  BY <1>1, <1>2, <1>3 DEF Step6One, db
<1>5. id \in Known
  BY <1>1, <1>4, HeadTailSeq DEF TypeInv, TypeOK, TransactionOK
<1>6. PICK sf \in BOOLEAN : sf = SoftFailed(Index, ok) BY DEF SoftFailed
<1>7. ~sf => ok BY <1>6 DEF SoftFailed
<1>8. PICK a : a = [id |-> id, soft |-> sf, was |-> m] OBVIOUS
<1>9. accepted' = Append(accepted, a) BY <1>2, <1>4, <1>6, <1>8 DEF Keep
<1>10. ~a.soft => auth' = Left(a)' BY <1>4, <1>7, <1>8 DEF Left
<1>11. ~a.soft => Allowed(ev[a.id], a.was)'
  <2> SUFFICES ASSUME ok PROVE Allowed(ev[id], m)'
    BY <1>7, <1>8
  <2>1. PICK e : e = ev[id] OBVIOUS
  <2>2. Allowed(e, m) BY <1>3, <2>1
  <2>3. Allowed(e, m)' BY <1>5, <2>1, <2>2, KnownEvent, AllowedStable
  <2> QED BY <1>4, <2>1, <2>3
<1>12. Grows /\ id \in Known' BY <1>4, <1>5, KnownIds, SameEvents DEF Grows
<1> QED BY <1>2, <1>4, <1>6, <1>8, <1>9, <1>10, <1>11, <1>12, ChainAppend

(* The next event of the batch is stored: the state is the one it leaves.  *)
LEMMA ChainStored ==
  ASSUME TypeInv, [Next]_vars, Chain, StoreEvent
  PROVE  Chain'
<1>1. /\ phase = "store" /\ phase' = "store" /\ UNCHANGED ev
      /\ accepted # <<>> /\ accepted' = Tail(accepted)
  BY DEF StoreEvent
<1>2. PICK n \in Nat : Len(accepted) = n + 1
  BY <1>1, HeadTailSeq, LenProperties DEF TypeInv, TypeOK, TransactionOK
<1>3. Len(accepted') = n /\ \A k \in 1..n : accepted'[k] = accepted[k + 1]
  BY <1>1, <1>2, HeadTailSeq, LenProperties DEF TypeInv, TypeOK, TransactionOK
<1>4. Head(accepted) = accepted[1] BY <1>1, NextToStore
<1>u. \A k \in 1..(n + 1) : Unfailed(k)
  <2>1. \A j \in 1..(n + 1) : ~accepted[j].soft BY <1>1, <1>2 DEF TypeInv, StoreReady
  <2>2. \A k \in 1..(n + 1) : \A j \in 1..k : j \in 1..(n + 1) BY <1>2
  <2> QED BY <2>1, <2>2 DEF Unfailed
<1>5. members' = Left(accepted[1])
  <2>1. accepted[1].was = members BY <1>1, <1>2, <1>u DEF Chain, Linked, StateBefore
  <2> QED BY <1>4, <2>1, MembersStored DEF StoreEvent, Left
<1>6. \A k \in 1..n : StateBefore(k)' = StateBefore(k + 1)
  <2>1. \A k \in 1..n : (k + 1) - 1 = k /\ k + 1 # 1 /\ (k = 1 \/ k - 1 \in 1..n) /\ (k - 1) + 1 = k
    OBVIOUS
  <2>2. ASSUME NEW k \in 1..n PROVE StateBefore(k)' = StateBefore(k + 1)
    <3>1. CASE k = 1 BY <1>5, <2>1, <3>1 DEF StateBefore
    <3>2. CASE k # 1
      <4>1. accepted'[k - 1] = accepted[k] BY <1>3, <2>1, <3>2
      <4> QED BY <1>1, <2>1, <3>2, <4>1 DEF StateBefore, Left
    <3> QED BY <3>1, <3>2
  <2> QED BY <2>2
<1>7. Linked'
  <2>1. \A k \in 1..n : k + 1 \in 1..(n + 1) OBVIOUS
  <2> QED BY <1>1, <1>2, <1>3, <1>6, <1>u, <2>1 DEF Chain, Linked
<1>8. Legal'
  <2> SUFFICES ASSUME NEW k \in 1..n, ~accepted'[k].soft
               PROVE  Allowed(ev[accepted[k].id], accepted[k].was)'
    BY <1>3 DEF Legal
  <2>1. PICK a : a = accepted[k + 1] OBVIOUS
  <2>2. k + 1 \in 1..Len(accepted) /\ accepted'[k] = a BY <1>2, <1>3, <2>1
  <2>3. Allowed(ev[a.id], a.was)' BY <1>1, <2>1, <2>2, LegalKept DEF Chain
  <2> QED BY <2>2, <2>3
<1> QED BY <1>1, <1>7, <1>8 DEF Chain

LEMMA ChainNext ==
  ASSUME TypeInv, Chain, [Next]_vars
  PROVE  Chain'
<1>1. CASE CreateRoom \/ SendLocal \/ \E f \in Flights : BeginStep6(f)
  <2>1. UNCHANGED members /\ \E o, p, b : Take(o, p, b)
    BY <1>1 DEF CreateRoom, SendLocal, BeginLocal, BeginStep6, db
  <2> QED BY <2>1, ChainTake
<1>2. CASE PrepareOne BY <1>2, ChainPrepareOne
<1>3. CASE Step6One BY <1>3, ChainStep6One
<1>4. CASE StoreEvent BY <1>4, ChainStored
<1>5. CASE BeginStore
  BY <1>5, ChainSame DEF BeginStore, Authorised, db
<1>6. CASE UNCHANGED vars
  <2>1. UNCHANGED <<accepted, members, phase, auth>> BY <1>6 DEF vars, work, db
  <2> QED BY <2>1, ChainSame DEF Chain
<1>7. CASE phase' \in {"idle", "step4", "step5"} BY <1>7 DEF Chain
<1>8. CASE \E f \in Flights : BeginStep4(f) \/ BeginStep5(f)
  BY <1>7, <1>8 DEF BeginStep4, BeginStep5, Take
<1>9. CASE Step4One \/ Step5One BY <1>7, <1>9 DEF Step4One, Step5One
<1>10. CASE \/ MissingAuthEvent \/ EndStep4 \/ EndStep5 \/ Retry
           \/ AbortStore \/ Commit \/ Crash
  BY <1>7, <1>10
     DEF MissingAuthEvent, EndStep4, EndStep5, EndRead, Retry, AbortStore, Commit, Crash,
         Release
<1>11. CASE \/ RemoteSend \/ SignInvite
            \/ \E f \in Flights : \/ ReceivePDUs(f) \/ JoinRemote(f)
                                  \/ PrepareInvite(f) \/ RefuseBatch(f)
  BY <1>7, <1>11
     DEF RemoteSend, SignInvite, ReceivePDUs, JoinRemote, PrepareInvite, RefuseBatch, work
<1> QED BY <1>1, <1>2, <1>3, <1>4, <1>5, <1>6, <1>7, <1>8, <1>9, <1>10, <1>11 DEF Next

-----------------------------------------------------------------------------
(* The timeline.                                                           *)

LEMMA TimelineInit == Init => TimelineInv
<1> SUFFICES ASSUME Init PROVE Chain
  BY TypeInit, LatestInit DEF TimelineInv
<1> QED BY DEF Init, Chain

LEMMA TimelineNext ==
  ASSUME TimelineInv, [Next]_vars
  PROVE  TimelineInv'
  BY TypeNext, LatestNext, ChainNext DEF TimelineInv

LEMMA TimelineAlways == Spec => []TimelineInv
<1>1. Init => TimelineInv BY TimelineInit
<1>2. TimelineInv /\ [Next]_vars => TimelineInv' BY TimelineNext
<1> QED BY <1>1, <1>2, PTL DEF Spec

(* The event stored now is allowed by the current state.                   *)
LEMMA StoredAllowed ==
  ASSUME TimelineInv, StoreEvent
  PROVE  Allowed(ev[Head(accepted).id], members)
<1>1. /\ phase = "store" /\ accepted # <<>> /\ ~Head(accepted).soft
      /\ Head(accepted) = accepted[1] /\ 1 \in 1..Len(accepted)
  BY NextToStore DEF StoreEvent, TimelineInv
<1>u. Unfailed(1) BY <1>1 DEF Unfailed
<1>2. members = accepted[1].was
  BY <1>1, <1>u DEF TimelineInv, Chain, Linked, StateBefore
<1> QED BY <1>1, <1>2 DEF TimelineInv, Chain, Legal

LEMMA PastAllowed ==
  ASSUME TypeInv, [Next]_vars, TimelineAuthorised, Kept, NEW v \in 1..Len(log),
         log'[v].shown
  PROVE  Allowed(ev[log[v].id], StateAt(v - 1))'
<1>1. PICK i \in Known, x \in 0..Len(log) : i = log[v].id /\ x = v - 1
  BY LogTyped DEF TypeInv, TypeOK
<1>2. PICK m \in States : m = StateAt(x) BY <1>1, StateTyped DEF TypeInv, TypeOK
<1>3. PICK e : e = ev[i] OBVIOUS
<1>4. log'[v] = log[v] /\ v \in DOMAIN log BY LogTyped DEF Kept, TypeInv, TypeOK
<1>5. Allowed(e, m) BY <1>1, <1>2, <1>4, <1>3 DEF TimelineAuthorised
<1>6. Allowed(e, m)' BY <1>1, <1>2, <1>5, <1>3, KnownEvent, AllowedStable
<1>7. StateAt(x)' = m BY <1>1, <1>2, StateKept DEF TypeInv, TypeOK
<1>8. ev'[i] = e BY <1>1, <1>3, EventsNeverChange
<1> QED BY <1>1, <1>4, <1>6, <1>7, <1>8

LEMMA AuthorisedNext ==
  ASSUME TimelineInv, TimelineAuthorised, [Next]_vars
  PROVE  TimelineAuthorised'
<1>1. PICK n \in Nat : n = Len(log) BY LogTyped DEF TimelineInv, TypeInv, TypeOK
<1>2. TypeInv /\ DatabaseOK' /\ members = StateAt(n)
  BY <1>1, TypeNext DEF TimelineInv, CurrentStateIsLatest, TypeInv, TypeOK
<1>3. DOMAIN log' = 1..Len(log') BY <1>2, LenProperties DEF DatabaseOK
<1>4. CASE Quiet
  <2>1. Kept /\ log' = log BY <1>1, <1>4, EventsNeverChange, <1>2 DEF Kept, Quiet, db
  <2> QED BY <1>2, <1>3, <2>1, PastAllowed DEF TimelineAuthorised
<1>5. CASE Hidden
  <2>1. PICK id \in Known : log' = Append(log, [id |-> id, shown |-> FALSE])
    BY <1>5 DEF Hidden
  <2>2. Kept /\ Len(log') = n + 1 /\ ~log'[n + 1].shown
    <3>1. DatabaseOK /\ UNCHANGED ev BY <1>2, <1>5 DEF Hidden, TypeInv, TypeOK
    <3>2. /\ Kept /\ Len(log') = Len(log) + 1
          /\ log'[Len(log) + 1] = [id |-> id, shown |-> FALSE]
      BY <2>1, <3>1, LogGrows
    <3> QED BY <1>1, <3>2
  <2>3. \A v \in 1..(n + 1) : v = n + 1 \/ v \in 1..n OBVIOUS
  <2> QED BY <1>1, <1>2, <1>3, <2>2, <2>3, PastAllowed DEF TimelineAuthorised
<1>6. CASE StoreEvent
  <2>1. PICK id \in Known : id = Head(accepted).id BY <1>2, <1>6, NextToStore DEF StoreEvent
  <2>2. UNCHANGED ev /\ log' = Append(log, [id |-> id, shown |-> TRUE])
    BY <1>6, <2>1 DEF StoreEvent
  <2>3. Kept /\ Len(log') = n + 1 /\ log'[n + 1].id = id
    <3>1. DatabaseOK BY <1>2 DEF TypeInv, TypeOK
    <3>2. /\ Kept /\ Len(log') = Len(log) + 1
          /\ log'[Len(log) + 1] = [id |-> id, shown |-> TRUE]
      BY <2>2, <3>1, LogGrows
    <3> QED BY <1>1, <3>2
  <2>4. PICK m \in States : m = members
    BY DEF TimelineInv, TypeInv, TypeOK, DatabaseOK
  <2>5. PICK e : e = ev[id] OBVIOUS
  <2>6. Allowed(e, m) BY <1>6, <2>1, <2>4, <2>5, StoredAllowed
  <2>7. Allowed(e, m)' BY <1>2, <2>4, <2>6, <2>5, KnownEvent, AllowedStable
  <2>8. StateAt(n)' = m BY <1>1, <1>2, <2>3, <2>4, StateKept DEF TypeInv, TypeOK
  <2>9. Allowed(ev[log[n + 1].id], StateAt((n + 1) - 1))'
    <3>1. (n + 1) - 1 = n OBVIOUS
    <3> QED BY <2>2, <2>3, <2>4, <2>7, <2>8, <2>5, <3>1
  <2>10. \A v \in 1..(n + 1) : v = n + 1 \/ v \in 1..n OBVIOUS
  <2> QED BY <1>1, <1>2, <1>3, <2>3, <2>9, <2>10, PastAllowed DEF TimelineAuthorised
<1> QED BY <1>2, <1>4, <1>5, <1>6, DatabaseStep

(* Every event of the timeline was allowed by the state just before it,     *)
(* however the three transactions of federated batches interleave with each *)
(* other, with local sends, with retries and with crashes: what step 6      *)
(* authorised is still true when its batch is stored.                      *)
THEOREM TimelineCorrect == Spec => []TimelineAuthorised
<1>1. Init => TimelineAuthorised BY DEF Init, TimelineAuthorised
<1>2. TimelineInv /\ TimelineAuthorised /\ [Next]_vars => TimelineAuthorised'
  BY AuthorisedNext
<1> QED BY <1>1, <1>2, TimelineAlways, PTL DEF Spec

-----------------------------------------------------------------------------
(* The member count.                                                       *)

LEMMA CountStored ==
  ASSUME TimelineInv, CountMatchesMembers, StoreEvent
  PROVE  CountMatchesMembers'
<1> DEFINE id == Head(accepted).id
           e  == ev[id]
           t  == e.target
           was == Membership(members, t) = "join"
<1>1. TypeInv /\ e \in Event /\ t \in Users
  BY NextToStore DEF TimelineInv, StoreEvent, Event
<1>2. Joined' = IF e.kind = "join" THEN Joined \cup {t}
                ELSE IF e.kind \in MemberKinds THEN Joined \ {t} ELSE Joined
  BY <1>1, JoinedStored
<1>3. was <=> t \in Joined BY <1>1 DEF Joined
<1>4. IsFiniteSet(Joined) /\ Cardinality(Joined) \in Nat
  <2>1. IsFiniteSet(Joined) BY UsersAssumption, FS_Subset DEF Joined
  <2> QED BY <2>1, FS_CardinalityType
<1>5. room' = RoomAfter(e) /\ room \in [exists : BOOLEAN, count : Int]
  BY <1>1 DEF StoreEvent, TypeInv, TypeOK, DatabaseOK
<1>6. CASE e.kind = "join"
  <2>1. Joined' = Joined \cup {t} BY <1>2, <1>6
  <2>2. room'.count = IF was THEN room.count ELSE room.count + 1
    BY <1>5, <1>6 DEF RoomAfter
  <2>3. Cardinality(Joined') = IF was THEN Cardinality(Joined) ELSE Cardinality(Joined) + 1
    BY <1>3, <1>4, <2>1, FS_AddElement
  <2> QED BY <2>2, <2>3 DEF CountMatchesMembers
<1>7. CASE e.kind \in {"leave", "ban"}
  <2>1. Joined' = Joined \ {t} BY <1>2, <1>7 DEF MemberKinds
  <2>2. room'.count = IF was THEN room.count - 1 ELSE room.count
    BY <1>5, <1>7 DEF RoomAfter
  <2>3. Cardinality(Joined') = IF was THEN Cardinality(Joined) - 1 ELSE Cardinality(Joined)
    BY <1>3, <1>4, <2>1, FS_RemoveElement
  <2> QED BY <2>2, <2>3 DEF CountMatchesMembers
<1>8. CASE e.kind \notin {"join", "leave", "ban"}
  <2>1. room'.count = room.count BY <1>5, <1>8 DEF RoomAfter
  <2>2. e.kind = "invite" => ~was
    <3>1. Allowed(e, members) BY StoredAllowed
    <3> QED BY <3>1 DEF Allowed
  <2>3. Joined' = Joined BY <1>2, <1>3, <1>8, <2>2 DEF MemberKinds
  <2> QED BY <2>1, <2>3 DEF CountMatchesMembers
<1> QED BY <1>6, <1>7, <1>8

LEMMA CountNext ==
  ASSUME TimelineInv, CountMatchesMembers, [Next]_vars
  PROVE  CountMatchesMembers'
<1>1. CASE Quiet \/ Hidden
  <2>1. UNCHANGED <<members, room>> BY <1>1 DEF Quiet, Hidden, db
  <2>2. Joined' = Joined BY <2>1, JoinedKept DEF TimelineInv
  <2> QED BY <2>1, <2>2 DEF CountMatchesMembers
<1>2. CASE StoreEvent BY <1>2, CountStored
<1> QED BY <1>1, <1>2, DatabaseStep DEF TimelineInv

LEMMA CountInit == Init => CountMatchesMembers
<1> SUFFICES ASSUME Init PROVE CountMatchesMembers
  OBVIOUS
<1>1. Joined = {} BY DEF Init, Joined, Membership, Nobody
<1> QED BY <1>1, FS_EmptySet DEF Init, CountMatchesMembers

(* The room's member count is the number of joined members.  It rests on    *)
(* TimelineCorrect's invariant: an invite of a joined member would make the *)
(* count too high, and only that every stored event is allowed by the       *)
(* current state keeps one away.                                            *)
THEOREM CountCorrect == Spec => []CountMatchesMembers
<1>1. TimelineInv /\ CountMatchesMembers /\ [Next]_vars => CountMatchesMembers'
  BY CountNext
<1> QED BY <1>1, CountInit, TimelineAlways, PTL DEF Spec

-----------------------------------------------------------------------------
(* The engine implements the timeline.                                     *)

LEMMA OrderHidden ==
  ASSUME TypeInv, Hidden
  PROVE  ShownOrder' = ShownOrder
<1>1. PICK id \in Known : log' = Append(log, [id |-> id, shown |-> FALSE])
  BY DEF Hidden
<1>2. PICK n \in Nat : Len(log) = n BY LogTyped DEF TypeInv, TypeOK
<1>3. /\ \A v \in 1..n : log'[v] = log[v]
      /\ log'[n + 1] = [id |-> id, shown |-> FALSE]
      /\ DOMAIN log = 1..n /\ DOMAIN log' = 1..(n + 1)
  BY <1>1, <1>2, LogGrows, LogTyped, LenProperties DEF Hidden, Kept, TypeInv, TypeOK
<1>4. \A v \in 1..(n + 1) : v = n + 1 \/ v \in 1..n OBVIOUS
<1>5. ShownVersions' = ShownVersions BY <1>3, <1>4 DEF ShownVersions
<1>6. \A v \in ShownVersions : log'[v].id = log[v].id BY <1>3 DEF ShownVersions
<1> QED BY <1>5, <1>6 DEF ShownOrder

LEMMA OrderStored ==
  ASSUME TypeInv, StoreEvent
  PROVE  \E v \in DOMAIN ShownOrder' :
           /\ \A w \in DOMAIN ShownOrder : w < v
           /\ ShownOrder' = [w \in DOMAIN ShownOrder \cup {v} |->
                               IF w = v THEN Head(accepted).id ELSE ShownOrder[w]]
<1>1. PICK id \in Known : id = Head(accepted).id BY NextToStore DEF StoreEvent
<1>2. log' = Append(log, [id |-> id, shown |-> TRUE]) /\ UNCHANGED ev
  BY <1>1 DEF StoreEvent
<1>3. PICK n \in Nat : Len(log) = n BY LogTyped DEF TypeInv, TypeOK
<1>4. /\ \A v \in 1..n : log'[v] = log[v]
      /\ log'[n + 1] = [id |-> id, shown |-> TRUE]
      /\ DOMAIN log = 1..n /\ DOMAIN log' = 1..(n + 1)
  BY <1>2, <1>3, LogGrows, LogTyped, LenProperties DEF Kept, TypeInv, TypeOK
<1>5. \A v \in 1..(n + 1) : v = n + 1 \/ v \in 1..n OBVIOUS
<1>6. ShownVersions' = ShownVersions \cup {n + 1} BY <1>4, <1>5 DEF ShownVersions
<1>7. \A w \in ShownVersions : w < n + 1 /\ w # n + 1 /\ log'[w].id = log[w].id
  BY <1>4 DEF ShownVersions
<1>8. DOMAIN ShownOrder = ShownVersions /\ DOMAIN ShownOrder' = ShownVersions'
  BY DEF ShownOrder
<1>9. ShownOrder' = [w \in ShownVersions \cup {n + 1} |->
                       IF w = n + 1 THEN id ELSE ShownOrder[w]]
  BY <1>4, <1>6, <1>7 DEF ShownOrder
<1> QED BY <1>1, <1>6, <1>7, <1>8, <1>9

LEMMA OrderNext ==
  ASSUME TimelineInv, [Next]_vars,
         ServersMatchMembers', CountMatchesMembers'
  PROVE  [Order!Next]_<<ev, Order!room>>
<1>1. ASSUME UNCHANGED <<ShownOrder, members, servers, room.count>>
      PROVE  [Order!Next]_<<ev, Order!room>>
  <2>1. UNCHANGED Order!room BY <1>1 DEF Order!room
  <2>2. PICK x : ev' = ev \/ ev' = Append(ev, x) BY EventsAppended
  <2>3. CASE ev' = ev BY <2>1, <2>3
  <2>4. CASE ev' = Append(ev, x)
    <3>1. Len(ev') = Len(ev) + 1
      BY <2>4, AppendProperties DEF TimelineInv, TypeInv, TypeOK, EventsOK
    <3>2. \A i \in 1..Len(ev) : ev'[i] = ev[i]
      BY EventsNeverChange DEF TimelineInv, Known
    <3>3. Order!Make BY <2>1, <3>1, <3>2 DEF Order!Make
    <3> QED BY <3>3 DEF Order!Next
  <2> QED BY <2>2, <2>3, <2>4
<1>2. CASE Quiet
  <2>1. UNCHANGED <<log, members, servers, room>> BY <1>2 DEF Quiet, db
  <2>2. ShownOrder' = ShownOrder BY <2>1 DEF ShownOrder, ShownVersions
  <2> QED BY <1>1, <2>1, <2>2
<1>3. CASE Hidden
  <2>1. UNCHANGED <<members, servers, room>> BY <1>3 DEF Hidden
  <2> QED BY <1>1, <1>3, <2>1, OrderHidden DEF TimelineInv
<1>4. CASE StoreEvent
  <2>1. PICK id : id = Head(accepted).id OBVIOUS
  <2>2. id \in 1..Len(ev) BY <1>4, <2>1, NextToStore DEF StoreEvent, TimelineInv, Known
  <2>3. ev' = ev BY <1>4 DEF StoreEvent
  <2>4. Allowed(ev[id], members) BY <1>4, <2>1, StoredAllowed
  <2>5. members' = Applied(members, ev[id], id)
    BY <1>4, <2>1, MembersStored DEF TimelineInv
  <2>6. Joined' = Order!JoinedBy(members')
    BY <2>3 DEF Joined, Order!JoinedBy, Membership, Order!Membership
  <2>7. /\ servers' = {Home[u] : u \in Order!JoinedBy(members')}
        /\ room.count' = Cardinality(Order!JoinedBy(members'))
    BY <2>6 DEF ServersMatchMembers, CountMatchesMembers
  <2>8. Order!Allowed(ev[id], members)
    BY <2>4 DEF Order!Allowed, Allowed, Order!Membership, Membership
  <2>9. members' = Order!Applied(members, ev[id], id)
    BY <2>5 DEF Order!Applied, Applied, Order!MemberKinds, MemberKinds
  <2>10. \E v \in DOMAIN ShownOrder' :
           /\ \A w \in DOMAIN ShownOrder : w < v
           /\ ShownOrder' = [w \in DOMAIN ShownOrder \cup {v} |->
                               IF w = v THEN id ELSE ShownOrder[w]]
    BY <1>4, <2>1, OrderStored DEF TimelineInv
  <2>11. Order!Add(id)
    <3>1. servers' = {Home[u] : u \in Order!JoinedBy(members')} BY <2>7
    <3>2. (room.count)' = Cardinality(Order!JoinedBy(members')) BY <2>7
    <3>3. UNCHANGED ev BY <2>3
    <3>4. \A S : Order!Cardinality(S) = Cardinality(S) BY DEF Order!Cardinality, Cardinality
    <3> QED BY ONLY <2>8, <2>9, <2>10, <3>1, <3>2, <3>3, <3>4 DEF Order!Add
  <2> QED BY <2>2, <2>11 DEF Order!Next
<1> QED BY <1>2, <1>3, <1>4, DatabaseStep DEF TimelineInv

(* Every step of the send engine adds one event to the end of the room's    *)
(* timeline, allowed by the members there and with the servers and the      *)
(* member count that follow from it, or leaves them as they are, whatever   *)
(* requests interleave and whatever the soft failures, retries, refusals    *)
(* and crashes.                                                             *)
THEOREM TimelineImplemented == Spec => ImplementsTimeline
<1>1. Init => Order!Init
  <2> SUFFICES ASSUME Init PROVE Order!Init
    OBVIOUS
  <2>1. ShownVersions = {} BY DEF Init, ShownVersions
  <2> QED BY <2>1 DEF Init, Nobody, ShownOrder, Order!Init
<1>2. TimelineInv /\ ServersMatchMembers' /\ CountMatchesMembers' /\ [Next]_vars
        => [Order!Next]_<<ev, Order!room>>
  BY OrderNext
<1> QED BY <1>1, <1>2, TimelineAlways, ServersCorrect, CountCorrect, PTL
       DEF Spec, ImplementsTimeline, Order!Spec
=============================================================================
