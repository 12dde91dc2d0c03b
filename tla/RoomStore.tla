------------------------------ MODULE RoomStore ------------------------------
(***************************************************************************)
(* The send engine of the rooms database for one room: how local and       *)
(* federated events are authorised, versioned, and written into the        *)
(* indices of internal/databases/rooms/events_send.go.                     *)
(*                                                                         *)
(* FoundationDB transactions are strictly serialisable, so at most one     *)
(* transaction of the model runs at a time: Begin... takes it (phase       *)
(* leaves "idle"), one step handles one event of its batch, and its end    *)
(* gives it back.  Nothing else reads or writes the database meanwhile,    *)
(* so a transaction is atomic; what interleaves are the transactions of    *)
(* different requests, and SendFederatedEvents runs three of them.         *)
(***************************************************************************)
EXTENDS Authorisation, Integers, FiniteSets, Sequences

CONSTANTS
  Servers,
  Home,        \* the server of each user
  Me,          \* the server this database belongs to
  Flights,     \* SendFederatedEvents calls that may be in progress at once
  LocalSend,   \* owner of a SendLocalEvents transaction
  Kinds,       \* the kinds of event clients and remote servers send
  MaxEvents,   \* bound: events ever created
  MaxLog,      \* bound: versions ever written
  MaxBatch,    \* bound: events in a federated batch
  MaxPrevs     \* bound: prev events of a remote event

StateKinds  == MemberKinds \cup {"create"}
EventKinds  == StateKinds \cup {"message", "react"}

ASSUME UsersAssumption  == IsFiniteSet(Users) /\ Creator \in Users
ASSUME HomeAssumption   == Me \in Servers /\ Home \in [Users -> Servers]
ASSUME FlagAssumption   == Public \in BOOLEAN
ASSUME KindsAssumption  == Kinds \subseteq EventKinds
ASSUME OwnerAssumption  == LocalSend \notin Flights
ASSUME BoundsAssumption == /\ MaxEvents \in Nat /\ MaxEvents > 1
                           /\ MaxLog \in Nat /\ MaxBatch \in Nat
                           /\ MaxPrevs \in Nat

VARIABLES
  log,         \* version -> event, shown if it is in the room's own indices
  idToVersion, \* event ID -> version, 0 if unset
  room,        \* the room object
  members,     \* current member event of each user, 0 if none
  joined,      \* joined members by server
  servers,     \* servers currently in the room
  outliers,    \* users with an outlier membership
  reactions,   \* (event, sender) pairs that have a reaction
  extrem,      \* forward extremities
  flights,     \* SendFederatedEvents calls
  phase, owner, todo, partials, accepted, auth, heads, shares, view

db      == <<log, idToVersion, room, members, joined, servers, outliers,
             reactions, extrem>>
work    == <<phase, owner, todo, partials, accepted, auth, heads, shares, view>>
vars    == <<ev, db, flights, work>>

Ids      == 1..MaxEvents
StateMap == [Users -> 0..MaxEvents]      \* member part of a types.StateMap
Nobody   == [u \in Users |-> 0]
IsLocal(u) == Home[u] = Me

AuthIDs(e) == {e.auth[e.sender], e.auth[e.target]} \ {0}

-----------------------------------------------------------------------------
(* What the database answers.                                              *)

Shown     == {log[v].id : v \in {w \in DOMAIN log : log[w].shown}}
Stored    == {log[v].id : v \in DOMAIN log}
InRoom    == Me \in servers
IsMember(v, u) == /\ log[v].shown
                  /\ ev[log[v].id].kind \in MemberKinds
                  /\ ev[log[v].id].target = u
Changes(v, u)  == {w \in 1..v : IsMember(w, u)}
Newest(S)      == CHOOSE v \in S : \A w \in S : w <= v

(* Latest member state in the versioned state index, up to a version.      *)
StateAt(v) ==
  [u \in Users |-> IF Changes(v, u) = {} THEN 0 ELSE log[Newest(Changes(v, u))].id]

(* txnCheckEventBeforeStore: no second reaction by a user to an event.     *)
NoReactionCheck(e)   == FALSE
DuplicateReaction(e) == e.kind = "react" /\ <<e.rel, e.sender>> \in reactions

-----------------------------------------------------------------------------
(* Transactions.                                                           *)

Idle == [pc |-> "idle", batch |-> <<>>, skip |-> FALSE, soft |-> {}]

Take(o, p, batch) ==
  /\ phase = "idle"
  /\ phase' = p /\ owner' = o /\ todo' = batch
  /\ accepted' = <<>> /\ auth' = members /\ heads' = extrem
  /\ shares' = [id \in Ids |-> 0] /\ view' = <<>>

(* The transaction is over; its working state is garbage.                  *)
Release ==
  /\ phase' = "idle"
  /\ owner' = LocalSend /\ todo' = <<>> /\ partials' = <<>> /\ accepted' = <<>>
  /\ auth' = Nobody /\ heads' = {}
  /\ shares' = [id \in Ids |-> 0] /\ view' = <<>>

Goto(f, pc, batch) == [flights EXCEPT ![f].pc = pc, ![f].batch = batch]
Keep(id, soft) == Append(accepted, [id |-> id, soft |-> soft, was |-> auth])

-----------------------------------------------------------------------------
(* Local events: SendLocalEvents.                                          *)

Partial(k, s, t, r) == [kind |-> k, sender |-> s, target |-> t, rel |-> r]

CreateBatch == <<Partial("create", Creator, Creator, 0),
                 Partial("join", Creator, Creator, 0)>>

(* What a local user may ask for: a remote user is invited elsewhere.      *)
ClientPartials ==
  {p \in [kind : Kinds \ {"create"}, sender : Users, target : Users, rel : 0..MaxEvents] :
     /\ IsLocal(p.sender)
     /\ p.kind \in {"join", "message", "react"} => p.target = p.sender
     /\ p.kind \in {"invite", "ban"} => p.target # p.sender
     /\ p.kind = "invite" => IsLocal(p.target)
     /\ IF p.kind = "react" THEN p.rel \in Shown /\ ev[p.rel].kind = "message"
                            ELSE p.rel = 0}

BeginLocal(ps) ==
  /\ ps[1].kind # "create" => InRoom
  /\ Len(ev) + Len(ps) <= MaxEvents /\ Len(log) + Len(ps) <= MaxLog
  /\ Take(LocalSend, "prepare", <<>>)
  /\ partials' = ps
  /\ UNCHANGED <<ev, db, flights>>

(* CreateRoom generates a fresh room ID, so the room does not exist.       *)
CreateRoom == /\ IsLocal(Creator) /\ ~room.exists
              /\ BeginLocal(CreateBatch)
SendLocal  == \E p \in ClientPartials : BeginLocal(<<p>>)

LocalEvent(p) ==
  [kind |-> p.kind, sender |-> p.sender, target |-> p.target, rel |-> p.rel,
   prevs |-> heads, auth |-> auth, given |-> FALSE]

(* One round of the loop of txnPrepareLocalEvents.                         *)
PrepareOne ==
  /\ phase = "prepare" /\ partials # <<>>
  /\ LET e  == LocalEvent(Head(partials))
         id == Len(ev) + 1
     IN IF DuplicateReaction(e) \/ ~Allowed(e, auth)
        THEN UNCHANGED <<ev, accepted, auth, heads>>
        ELSE /\ ev' = Append(ev, e)
             /\ accepted' = Keep(id, FALSE)
             /\ auth' = Applied(auth, e, id)
             /\ heads' = {id}
  /\ partials' = Tail(partials)
  /\ UNCHANGED <<db, flights, phase, owner, todo, shares, view>>

-----------------------------------------------------------------------------
(* Events from elsewhere.                                                  *)

After(id) == Applied(ev[id].auth, ev[id], id)

(* The events another server may have: those it made, was sent by a        *)
(* handshake, or can read here.                                            *)
Abroad == {id \in 1..Len(ev) : ev[id].given \/ id \in Shown}

(* The event a remote server makes on top of events it knows; it resolves  *)
(* their states to one of them.                                            *)
RemoteEvent(k, s, t, r, prevs, p) ==
  [kind |-> k, sender |-> s, target |-> t, rel |-> r,
   prevs |-> prevs, auth |-> After(p), given |-> TRUE]

PrevSets == {P \in SUBSET Abroad : P # {} /\ Cardinality(P) <= MaxPrevs}

RemoteSend ==
  /\ phase = "idle" /\ Len(ev) < MaxEvents
  /\ \E k \in Kinds \ {"create"}, s, t \in Users, P \in PrevSets :
     \E p \in P, r \in Abroad \cup {0} :
       LET e == RemoteEvent(k, s, t, r, P, p)
       IN /\ ~IsLocal(s)
          /\ k \in {"join", "message", "react"} => t = s
          /\ k \in {"invite", "ban"} => t # s
          /\ IF k = "react" THEN r # 0 /\ ev[r].kind = "message" ELSE r = 0
          /\ Allowed(e, e.auth)
          /\ ev' = Append(ev, e)
  /\ UNCHANGED <<db, flights, work>>

Batches == UNION {[1..n -> Abroad] : n \in 1..MaxBatch}
Start(batch, skip) == [Idle EXCEPT !.pc = "step4", !.batch = batch, !.skip = skip]

(* SendTransaction, after it fetched missing events and sorted the batch:  *)
(* whoever made an event, it may come in any number of transactions, twice *)
(* in one if two others refer to it, and before its prev events.           *)
ReceivePDUs(f) ==
  /\ phase = "idle" /\ flights[f].pc = "idle"
  /\ \E b \in Batches : flights' = [flights EXCEPT ![f] = Start(b, FALSE)]
  /\ UNCHANGED <<ev, db, work>>

(* State and auth events of a send_join response, with our join.           *)
JoinState(e) == {1} \cup ({e.auth[u] : u \in Users} \ {0})
AuthClosed(S) == \A id \in S : AuthIDs(ev[id]) \subseteq S
JoinResponse(e, S) ==
  /\ JoinState(e) \subseteq S /\ AuthClosed(S)
  /\ \A T \in SUBSET S : JoinState(e) \subseteq T /\ AuthClosed(T) => T = S

(* SendRoomJoin when this server is not in the room: the join dance.       *)
JoinRemote(f) ==
  /\ phase = "idle" /\ flights[f].pc = "idle"
  /\ ~IsLocal(Creator) /\ ~InRoom /\ Len(ev) < MaxEvents /\ "join" \in Kinds
  /\ \E u \in Users, p \in Abroad :
       LET e == RemoteEvent("join", u, u, 0, {p}, p)
       IN /\ IsLocal(u) /\ Allowed(e, e.auth)
          /\ ev' = Append(ev, e)
          /\ \E S \in SUBSET (1..Len(ev)) :
               /\ JoinResponse(e, S)
               /\ \E b \in [1..Cardinality(S) -> S] :
                    /\ \A i, j \in DOMAIN b : i < j => b[i] < b[j]
                    /\ flights' = [flights EXCEPT ![f] = Start(Append(b, Len(ev) + 1), TRUE)]
  /\ UNCHANGED <<db, work>>

(* prepareAndSendInviteForRemoteUser: prepared in a read transaction, then *)
(* signed by the other server, then sent like a federated event.           *)
PrepareInvite(f) ==
  /\ phase = "idle" /\ flights[f].pc = "idle"
  /\ InRoom /\ Len(ev) < MaxEvents /\ "invite" \in Kinds
  /\ \E s, t \in Users :
       LET e == [kind |-> "invite", sender |-> s, target |-> t, rel |-> 0,
                 prevs |-> extrem, auth |-> members, given |-> TRUE]
       IN /\ IsLocal(s) /\ ~IsLocal(t) /\ Allowed(e, members)
          /\ ev' = Append(ev, e)
  /\ flights' = [flights EXCEPT ![f] = Start(<<Len(ev) + 1>>, FALSE)]
  /\ UNCHANGED <<db, work>>

(* SignInvite: an invite of a local user, stored outside the room.         *)
SignInvite ==
  /\ phase = "idle" /\ Len(log) < MaxLog
  /\ \E id \in DOMAIN ev :
       /\ ev[id].kind = "invite" /\ ~IsLocal(ev[id].sender) /\ IsLocal(ev[id].target)
       /\ log' = Append(log, [id |-> id, shown |-> FALSE])
       /\ outliers' = outliers \cup {ev[id].target}
  /\ UNCHANGED <<ev, idToVersion, room, members, joined, servers, reactions,
                 extrem, flights, work>>

-----------------------------------------------------------------------------
(* SendFederatedEvents, first transaction: duplicates and step 4.          *)

BeginStep4(f) ==
  /\ flights[f].pc = "step4"
  /\ room.exists \/ ev[flights[f].batch[1]].kind = "create"
  /\ Take(f, "step4", flights[f].batch)
  /\ UNCHANGED <<ev, db, flights, partials>>

(* The room is unknown and the batch does not create it.                   *)
RefuseBatch(f) ==
  /\ phase = "idle" /\ flights[f].pc = "step4"
  /\ ~room.exists /\ ev[flights[f].batch[1]].kind # "create"
  /\ flights' = [flights EXCEPT ![f] = Idle]
  /\ UNCHANGED <<ev, db, work>>

(* An event stored before, unless it may be an outlier membership.         *)
NoDuplicateCheck(id) == FALSE
IsDuplicate(id) ==
  /\ idToVersion[id] # 0
  /\ ev[id].kind \in MemberKinds => ev[id].target \notin outliers

HaveAuthEvents(id) ==
  AuthIDs(ev[id]) \subseteq
    Stored \cup {flights[owner].batch[i] : i \in DOMAIN flights[owner].batch}

PassesStep4(id) == /\ ~IsDuplicate(id) /\ ~DuplicateReaction(ev[id])
                   /\ Allowed(ev[id], ev[id].auth)

Decide(id, ok) == /\ todo' = Tail(todo)
                  /\ accepted' = IF ok THEN Keep(id, FALSE) ELSE accepted

Step4One ==
  /\ phase = "step4" /\ todo # <<>>
  /\ LET id == Head(todo)
     IN /\ IsDuplicate(id) \/ DuplicateReaction(ev[id]) \/ HaveAuthEvents(id)
        /\ Decide(id, PassesStep4(id))
  /\ UNCHANGED <<ev, db, flights, phase, owner, partials, auth, heads, shares, view>>

(* A missing auth event fails the whole batch.                             *)
MissingAuthEvent ==
  /\ phase = "step4" /\ todo # <<>>
  /\ LET id == Head(todo)
     IN ~(IsDuplicate(id) \/ DuplicateReaction(ev[id]) \/ HaveAuthEvents(id))
  /\ flights' = [flights EXCEPT ![owner] = Idle]
  /\ Release
  /\ UNCHANGED <<ev, db>>

(* End of a read transaction; a flight with nothing left has no effect.    *)
EndRead(p, next) ==
  /\ phase = p /\ todo = <<>>
  /\ flights' =
       IF accepted = <<>> THEN [flights EXCEPT ![owner] = Idle]
       ELSE Goto(owner, next, [i \in 1..Len(accepted) |-> accepted[i].id])
  /\ Release
  /\ UNCHANGED <<ev, db>>

EndStep4 == EndRead("step4", IF flights[owner].skip THEN "step6" ELSE "step5")

-----------------------------------------------------------------------------
(* Second transaction: step 5, the state before the event.                 *)

BeginStep5(f) ==
  /\ flights[f].pc = "step5"
  /\ Take(f, "step5", flights[f].batch)
  /\ UNCHANGED <<ev, db, flights, partials>>

(* getStateAtEventID: the map kept for an event of the batch, which may be *)
(* shared with its prev event's, or the versioned state index.             *)
Found(p)     == shares[p] # 0 \/ idToVersion[p] # 0
StateOf(p)   == IF shares[p] # 0 THEN view[shares[p]] ELSE StateAt(idToVersion[p])
HolderOf(id) == LET kept == {shares[p] : p \in ev[id].prevs}
                IN IF Cardinality(ev[id].prevs) = 1 /\ kept # {0}
                   THEN CHOOSE h \in kept : TRUE
                   ELSE Len(view) + 1

(* One prev event: its state; several: gomatrixserverlib resolves the      *)
(* states of those found, taking each member from one of them.             *)
StatesBefore(id) ==
  LET found == {p \in ev[id].prevs : Found(p)}
  IN IF found = {} THEN {Nobody}
     ELSE {m \in [Users -> UNION {{StateOf(p)[u] : u \in Users} : p \in found}] :
             \A u \in Users : \E p \in found : m[u] = StateOf(p)[u]}

(* The state of any stored event has the create event, without which only  *)
(* the create event itself is allowed.                                     *)
HasCreate(e) == e.kind = "create" \/ \E p \in e.prevs : Found(p)

Judge(id, m, ok) ==
  /\ Decide(id, ok)
  /\ shares' = [shares EXCEPT ![id] = HolderOf(id)]
  /\ view' = [h \in DOMAIN view \cup {HolderOf(id)} |->
                IF h # HolderOf(id) THEN view[h]
                ELSE IF ok THEN Applied(m, ev[id], id) ELSE m]

(* An event with one prev event is rejected if that has no state; with     *)
(* several it is reported as rejected and judged by the others' states all *)
(* the same.                                                               *)
Step5One ==
  /\ phase = "step5" /\ todo # <<>>
  /\ LET id == Head(todo)
         e  == ev[id]
     IN IF Cardinality(e.prevs) = 1 /\ ~(\A p \in e.prevs : Found(p))
        THEN Decide(id, FALSE) /\ UNCHANGED <<shares, view>>
        ELSE \E m \in StatesBefore(id) : Judge(id, m, Allowed(e, m) /\ HasCreate(e))
  /\ UNCHANGED <<ev, db, flights, phase, owner, partials, auth, heads>>

EndStep5 == EndRead("step5", "step6")

-----------------------------------------------------------------------------
(* Third transaction: step 6, the current state, and the writes.           *)

BeginStep6(f) ==
  /\ flights[f].pc = "step6" /\ Len(log) + Len(flights[f].batch) <= MaxLog
  /\ Take(f, "step6", flights[f].batch)
  /\ UNCHANGED <<ev, db, flights, partials>>

(* SoftFailed is a field of the event the flight holds, the i-th: it stays *)
(* set when the transaction is tried again.                                *)
NoSoftFail(i, ok) == FALSE
SoftFailed(i, ok) == ~ok \/ i \in flights[owner].soft

Index == Len(flights[owner].batch) - Len(todo) + 1

Step6One ==
  /\ phase = "step6" /\ todo # <<>>
  /\ LET id == Head(todo)
         ok == Allowed(ev[id], auth)
     IN /\ accepted' = Keep(id, SoftFailed(Index, ok))
        /\ auth' = IF ok THEN Applied(auth, ev[id], id) ELSE auth
        /\ flights' = IF ok THEN flights
                      ELSE [flights EXCEPT ![owner].soft = @ \cup {Index}]
  /\ todo' = Tail(todo)
  /\ UNCHANGED <<ev, db, phase, owner, partials, heads, shares, view>>

(* The transaction runs again: a read or the commit of this attempt failed, *)
(* or the commit's answer was lost, and the batch is stored already.  (For  *)
(* a local send the latter is another SendLocal.)                           *)
Retry ==
  /\ phase = "step6" \/ (phase = "store" /\ accepted = <<>>)
  /\ Release
  /\ UNCHANGED <<ev, db, flights>>

-----------------------------------------------------------------------------
(* txnStoreEvents.                                                         *)

Authorised == \/ phase = "prepare" /\ partials = <<>>
              \/ phase = "step6" /\ todo = <<>>

Creates(i) == ~accepted[i].soft /\ ev[accepted[i].id].kind = "create"

(* The bytes of a packed version: one of type, ten of stamp, two of order, *)
(* and, if the stamp is still to be filled in, four of its offset, which   *)
(* SetVersionstampedValue takes off the end before it looks for the stamp. *)
ValueForVersionstamp(complete) == IF complete THEN 13 ELSE 17
HoldsStamp(bytes) == bytes - 4 >= 10

(* Storing the i-th event panics or fails, which undoes the transaction: a *)
(* soft failed event is given the complete version of its first prev event *)
(* (if that is there); a second create event; state before the create      *)
(* event.                                                                  *)
AnyCreate(i) == accepted[i].soft
StoreFailsAt(i) ==
  LET e == ev[accepted[i].id]
      roomExists == room.exists \/ \E j \in 1..(i - 1) : Creates(j)
  IN IF accepted[i].soft THEN ~HoldsStamp(ValueForVersionstamp(TRUE))
     ELSE e.kind \in StateKinds /\ (e.kind = "create" <=> roomExists)

StoreFails == \E i \in DOMAIN accepted : StoreFailsAt(i)

AbortStore ==
  /\ Authorised /\ StoreFails
  /\ Release
  /\ flights' = IF owner = LocalSend THEN flights
                ELSE [flights EXCEPT ![owner] = Idle]
  /\ UNCHANGED <<ev, db>>

BeginStore ==
  /\ Authorised /\ ~StoreFails /\ accepted # <<>>
  /\ phase' = "store"
  /\ UNCHANGED <<ev, db, flights, owner, todo, partials, accepted, auth, heads,
                 shares, view>>

(* updateRoomForStateEvent: joined_member_count follows joins and leaves.  *)
CountRejoins(e) ==
  CASE e.kind = "create"           -> [room EXCEPT !.exists = TRUE]
    [] e.kind = "join"             -> [room EXCEPT !.count = @ + 1]
    [] e.kind \in {"leave", "ban"} -> [room EXCEPT !.count = @ - 1]
    [] OTHER                       -> room
RoomAfter(e) ==
  LET was == Membership(members, e.target) = "join"
  IN CASE e.kind = "create"                     -> [room EXCEPT !.exists = TRUE]
       [] e.kind = "join" /\ ~was               -> [room EXCEPT !.count = @ + 1]
       [] e.kind \in {"leave", "ban"} /\ was    -> [room EXCEPT !.count = @ - 1]
       [] OTHER                                 -> room

(* The current member index, the joined-member keys of the target's server *)
(* and, from them, the room's servers.                                     *)
ForgetLeft(e, id)   == [members EXCEPT ![e.target] = IF e.kind = "leave" THEN 0 ELSE id]
MembersAfter(e, id) == Applied(members, e, id)

JoinedKeysStay(e) ==
  IF e.kind = "join" THEN [joined EXCEPT ![Home[e.target]] = @ \cup {e.target}] ELSE joined
JoinedAfter(e) ==
  [joined EXCEPT ![Home[e.target]] =
     IF e.kind = "join" THEN @ \cup {e.target} ELSE @ \ {e.target}]

ServerLeaves(e) ==
  IF e.kind = "join" THEN servers \cup {Home[e.target]} ELSE servers \ {Home[e.target]}
ServersAfter(e) ==
  IF e.kind = "join" THEN servers \cup {Home[e.target]}
  ELSE IF JoinedAfter(e)[Home[e.target]] = {} THEN servers \ {Home[e.target]} ELSE servers

StoreMember(e, id) ==
  /\ members' = MembersAfter(e, id)
  /\ outliers' = outliers \ {e.target}
  /\ joined' = JoinedAfter(e) /\ servers' = ServersAfter(e)

AnyRelation(e)    == reactions \cup {<<e.rel, e.sender>>}
ReactionsAfter(e) ==
  IF e.kind = "react" THEN reactions \cup {<<e.rel, e.sender>>} ELSE reactions

ForksStay(e, id)      == extrem \cup {id}
OnePrevOnly(e, id)    == (extrem \ {Newest(e.prevs \cup {0})}) \cup {id}
NoLastEvent(e, id)    == extrem \ e.prevs
ExtremAfter(e, id)    == (extrem \ e.prevs) \cup {id}

StoreEvent ==
  /\ phase = "store" /\ accepted # <<>>
  /\ LET id == Head(accepted).id
         e  == ev[id]
     IN /\ log' = Append(log, [id |-> id, shown |-> TRUE])
        /\ idToVersion' = [idToVersion EXCEPT ![id] = Len(log) + 1]
        /\ room' = RoomAfter(e)
        /\ IF e.kind \in MemberKinds THEN StoreMember(e, id)
           ELSE UNCHANGED <<members, joined, servers, outliers>>
        /\ reactions' = ReactionsAfter(e)
        /\ extrem' = ExtremAfter(e, id)
  /\ accepted' = Tail(accepted)
  /\ UNCHANGED <<ev, flights, phase, owner, todo, partials, auth, heads, shares, view>>

Commit ==
  /\ phase = "store" \/ Authorised
  /\ accepted = <<>>
  /\ Release
  /\ flights' = IF owner = LocalSend THEN flights
                ELSE [flights EXCEPT ![owner] = Idle]
  /\ UNCHANGED <<ev, db>>

(* The process dies: requests and an uncommitted transaction are lost.     *)
Crash ==
  /\ phase # "store"
  /\ flights' = [f \in Flights |-> Idle]
  /\ Release
  /\ UNCHANGED <<ev, db>>

-----------------------------------------------------------------------------
(* A remote room has been created and joined by its creator elsewhere.     *)
RemoteRoom ==
  <<[kind |-> "create", sender |-> Creator, target |-> Creator, rel |-> 0,
     prevs |-> {}, auth |-> Nobody, given |-> TRUE],
    [kind |-> "join", sender |-> Creator, target |-> Creator, rel |-> 0,
     prevs |-> {1}, auth |-> Nobody, given |-> TRUE]>>

Init ==
  /\ ev = IF IsLocal(Creator) THEN <<>> ELSE RemoteRoom
  /\ log = <<>> /\ idToVersion = [id \in Ids |-> 0]
  /\ room = [exists |-> FALSE, count |-> 0]
  /\ members = Nobody /\ joined = [s \in Servers |-> {}] /\ servers = {}
  /\ outliers = {} /\ reactions = {} /\ extrem = {}
  /\ flights = [f \in Flights |-> Idle]
  /\ phase = "idle" /\ owner = LocalSend
  /\ todo = <<>> /\ partials = <<>> /\ accepted = <<>>
  /\ auth = Nobody /\ heads = {}
  /\ shares = [id \in Ids |-> 0] /\ view = <<>>

Next ==
  \/ CreateRoom \/ SendLocal \/ PrepareOne
  \/ RemoteSend \/ SignInvite
  \/ \E f \in Flights : \/ ReceivePDUs(f) \/ JoinRemote(f) \/ PrepareInvite(f)
                        \/ BeginStep4(f) \/ RefuseBatch(f)
                        \/ BeginStep5(f) \/ BeginStep6(f)
  \/ Step4One \/ MissingAuthEvent \/ EndStep4
  \/ Step5One \/ EndStep5
  \/ Step6One \/ Retry
  \/ AbortStore \/ BeginStore \/ StoreEvent \/ Commit
  \/ Crash

Spec == Init /\ [][Next]_vars

-----------------------------------------------------------------------------
(* Properties.                                                             *)

Relates(e) == e.kind = "react" => e.rel # 0
PartialEvent ==
  {p \in [kind : EventKinds, sender : Users, target : Users, rel : 0..MaxEvents] :
     Relates(p)}
Event ==
  {e \in [kind : EventKinds, sender : Users, target : Users, rel : 0..MaxEvents,
          prevs : SUBSET Ids, auth : StateMap, given : BOOLEAN] :
     Relates(e)}

Known  == 1..Len(ev)
States == [Users -> 0..Len(ev)]
RefersBack(e, i) ==
  e.prevs \subseteq 1..(i - 1) /\ e.auth \in [Users -> 0..(i - 1)]
Flight   == [pc : {"idle", "step4", "step5", "step6"}, batch : Seq(Known),
             skip : BOOLEAN, soft : SUBSET Int]
Accepted == [id : Known, soft : BOOLEAN, was : States]

EventsOK ==
  /\ ev \in Seq(Event) /\ Len(ev) <= MaxEvents
  /\ \A i \in Known : RefersBack(ev[i], i)
DatabaseOK ==
  /\ log \in Seq([id : Known, shown : BOOLEAN])
  /\ idToVersion \in [Ids -> 0..Len(log)]
  /\ room \in [exists : BOOLEAN, count : Int]
  /\ members \in States
  /\ joined \in [Servers -> SUBSET Users] /\ servers \subseteq Servers
  /\ outliers \subseteq Users
  /\ reactions \subseteq (Ids \X Users)
  /\ extrem \subseteq Known
TransactionOK ==
  /\ phase \in {"idle", "prepare", "step4", "step5", "step6", "store"}
  /\ owner \in Flights \cup {LocalSend}
  /\ todo \in Seq(Known) /\ partials \in Seq(PartialEvent)
  /\ accepted \in Seq(Accepted)
  /\ auth \in States /\ heads \subseteq Known
  /\ view \in Seq(States) /\ shares \in [Ids -> 0..Len(view)]

(* Type correctness: no event refers to a later one (prev and auth events   *)
(* form a DAG), and nothing in the database, in a request or in the running *)
(* transaction refers to an event or a version that does not exist.         *)
TypeOK == EventsOK /\ DatabaseOK /\ flights \in [Flights -> Flight] /\ TransactionOK

Joined == {u \in Users : Membership(members, u) = "join"}

(* The server keys (room/server and server/room) are kept by counting      *)
(* joined-member keys as events are stored; at every point a server is in  *)
(* the room exactly when one of its users is, and the keys are its users.  *)
ServersMatchMembers ==
  /\ servers = {Home[u] : u \in Joined}
  /\ \A s \in Servers : joined[s] = {u \in Joined : Home[u] = s}

(* The room object's member count, changed only by joins, leaves and bans, *)
(* is the number of joined members: no allowed event makes a joined member *)
(* anything else, whatever mix of requests stores them.                    *)
CountMatchesMembers == room.count = Cardinality(Joined)

(* The current member index and the versioned state index, written         *)
(* separately, agree on the latest member event of each user.              *)
CurrentStateIsLatest == members = StateAt(Len(log))

(* Every event shown in the room was allowed by the state that the room's  *)
(* order of versions has just before it, though federated events are       *)
(* authorised in three transactions and stored in a batch of their own.    *)
TimelineAuthorised ==
  \A v \in DOMAIN log :
    log[v].shown => Allowed(ev[log[v].id], StateAt(v - 1))

(* Once a room has events it has forward extremities, all of them shown,   *)
(* so a next local event always has prev events to refer to.               *)
LastEventKept ==
  /\ extrem \subseteq Shown
  /\ Shown # {} => extrem # {}

(* A local send joins all forks: after it, its last event is the only      *)
(* forward extremity.                                                      *)
LocalSendHealsForks ==
  phase = "store" /\ owner = LocalSend /\ accepted = <<>> =>
    extrem = {log[Len(log)].id}

(* The forward extremities are the shown events that no event stored after *)
(* them refers to, whether events come before, after or on top of their    *)
(* prev events, and whether they come once or again.                       *)
ShownVersions == {v \in DOMAIN log : log[v].shown}
Unreferenced(v) ==
  \A w \in ShownVersions : w > v => log[v].id \notin ev[log[w].id].prevs
ExtremitiesExact == extrem = {log[v].id : v \in {w \in ShownVersions : Unreferenced(w)}}

(* An event made here for a client, other than a membership, has one place *)
(* in the timeline, however often other servers send it back, although the *)
(* check for duplicates and the write are in different transactions.       *)
SentHereStoredOnce ==
  \A v, w \in ShownVersions :
    LET id == log[v].id
    IN id = log[w].id /\ v # w => ev[id].given \/ ev[id].kind \in MemberKinds

(* The timeline has one create event, its first event, whatever requests   *)
(* create or join the room at once: the check that the room is known is    *)
(* made in one transaction and the create event written in another.        *)
CreateFirst ==
  \A v \in ShownVersions :
    ev[log[v].id].kind = "create" <=> \A w \in ShownVersions : v <= w

(* A soft failed event is stored, as its sender is told.                   *)
SoftFailedStored ==
  Authorised => \A i \in DOMAIN accepted : accepted[i].soft => ~StoreFailsAt(i)

(* A local user reacts to an event at most once: their reactions are       *)
(* checked and stored in one transaction.  Other users' reactions are      *)
(* checked in the first transaction and stored in the third.               *)
OneReactionOf(users) ==
  \A a, b \in Shown :
    /\ ev[a].kind = "react" /\ ev[b].kind = "react" /\ a # b
    /\ ev[a].sender \in users
    => <<ev[a].rel, ev[a].sender>> # <<ev[b].rel, ev[b].sender>>
LocalsReactOnce == OneReactionOf({u \in Users : IsLocal(u)})
OneReaction     == OneReactionOf(Users)

(* The engine implements the timeline: in whatever way requests, the three  *)
(* transactions of each batch and soft failures interleave, the shown       *)
(* events are added at the end, one by one, each allowed by the members and *)
(* servers the ones before it leave, and nothing else changes those.        *)
ShownOrder    == [v \in ShownVersions |-> log[v].id]
Order == INSTANCE Timeline WITH timeline <- ShownOrder, count <- room.count
ImplementsTimeline == Order!Spec

=============================================================================
