--------------------------- MODULE MissingEvents ---------------------------
(***************************************************************************)
(* What a transaction of another server becomes before it is stored        *)
(* (getMissingEventsForSendBatch in internal/routes/federation/            *)
(* events_send.go): every event its PDUs refer to that is neither stored   *)
(* nor among them is fetched, with what it refers to, and the batch is     *)
(* sorted (SortEventList in internal/util/events.go).  The fetches take    *)
(* time, and other requests store events meanwhile.                        *)
(***************************************************************************)
EXTENDS Naturals, FiniteSets, Functions, Sequences

CONSTANTS
  N,         \* events of the room's graph
  MaxPDUs,   \* bound: PDUs of the transaction that passed verification
  MaxRefs,   \* bound: prev events of an event
  MaxFetch,  \* MaxFetchMissingEvents of the configuration
  Insertion, \* the longest batch that is sorted by insertion: 12 in Go's library
  Growth     \* what each event's server added to the depth of its prev events:
             \* 1 in the Matrix specification, 0 for most events of this server,
             \* whose depth grows with state events only

ASSUME SizesAssumption     == {N, MaxPDUs, MaxRefs} \subseteq Nat \ {0} /\ MaxFetch \in Nat
ASSUME InsertionAssumption == Insertion \in Nat
ASSUME GrowthAssumption    == Growth \in [1..N -> Nat]

VARIABLES
  prevs,    \* prev events of each event
  auths,    \* auth events of each event
  depth,    \* the depth each event's server gave it
  pdus,     \* the transaction
  stored,   \* events in the database
  stack,    \* events to look at, the next one first
  current,  \* the event looked at, or 0
  refs,     \* its references not handled yet
  have,     \* events known to be stored or in the transaction
  fetched,  \* events fetched
  holes,    \* events that could not be fetched: logged, and left out
  batch,    \* the result
  sorted    \* how many elements of it, from the first, the sort went over

graph == <<prevs, auths, depth, pdus>>
vars  == <<graph, stored, stack, current, refs, have, fetched, holes, batch, sorted>>

Ids == 1..N

(* The graph of the room: event 1 is the last one of the room's creation,  *)
(* an event refers to earlier ones, and the auth events of an event are    *)
(* among the events it comes after.                                        *)
Few(n)    == {T \in SUBSET Ids : Cardinality(T) <= n}
Closed(C) == \A e \in C : prevs[e] \subseteq C
Behind(P) == {x \in Ids : \A C \in SUBSET Ids : P \subseteq C /\ Closed(C) => x \in C}
Deepest(p, P) == p \in P /\ \A q \in P : depth[q] <= depth[p]
Graph ==
  /\ prevs \in {f \in [Ids -> Few(MaxRefs)] :
                 \A e \in Ids : f[e] \subseteq 1..(e - 1) /\ (f[e] = {} <=> e = 1)}
  /\ auths \in [Ids -> Few(1)] /\ \A e \in Ids : auths[e] \subseteq Behind(prevs[e])
  /\ depth \in [Ids -> 0..N] /\ depth[1] = 0
  /\ \A e \in Ids \ {1} :
       \E p \in prevs[e] : Deepest(p, prevs[e]) /\ depth[e] = depth[p] + Growth[e]

RefsOf(e) == prevs[e] \cup auths[e]
Done == current = 0 /\ stack = <<>> /\ sorted = Len(batch)

(* handleEventID; prev events come before auth events.                     *)
Missing(id) == id \notin have /\ id \notin stored
NextRefs == IF \E r \in refs : r[1] = "prev" THEN {r \in refs : r[1] = "prev"} ELSE refs

AlreadyThere ==
  /\ \E r \in NextRefs :
       /\ ~Missing(r[2]) /\ refs' = refs \ {r} /\ have' = have \cup {r[2]}
  /\ UNCHANGED <<graph, stored, stack, current, fetched, holes, batch, sorted>>

(* A fetched event is looked at next; nothing notes that it was fetched.   *)
MayFetchOneMore == fetched <= MaxFetch
MayFetch == fetched < MaxFetch
FetchEvent ==
  /\ \E r \in NextRefs :
       /\ Missing(r[2]) /\ MayFetch /\ refs' = refs \ {r}
       /\ stack' = <<r[2]>> \o stack
  /\ fetched' = fetched + 1
  /\ UNCHANGED <<graph, stored, current, have, holes, batch, sorted>>

(* Too many, no answer, or (counted as fetched) not to be verified.        *)
LeaveHole ==
  /\ \E r \in NextRefs :
       /\ Missing(r[2]) /\ refs' = refs \ {r} /\ holes' = holes \cup {r[2]}
  /\ fetched' \in {fetched} \cup (IF MayFetch THEN {fetched + 1} ELSE {})
  /\ UNCHANGED <<graph, stored, stack, current, have, batch, sorted>>

(* The loop: each event goes to the batch once its references are handled. *)
AllRefs(e) == ({"prev"} \X prevs[e]) \cup ({"auth"} \X auths[e])
PrevRefs(e) == {"prev"} \X prevs[e]
RefsToHandle(e) == AllRefs(e)
Pop ==
  /\ current = 0 /\ stack # <<>>
  /\ current' = Head(stack) /\ stack' = Tail(stack) /\ refs' = RefsToHandle(Head(stack))
  /\ UNCHANGED <<graph, stored, have, fetched, holes, batch, sorted>>
Complete ==
  /\ current # 0 /\ refs = {}
  /\ batch' = Append(batch, current) /\ current' = 0
  /\ UNCHANGED <<graph, stored, stack, refs, have, fetched, holes, sorted>>

(* SortEventList.  The comparison never answers that two events are equal. *)
After(a, b) ==
  \/ depth[a] > depth[b]
  \/ depth[a] = depth[b] /\ Cardinality(auths[a]) > Cardinality(auths[b])

(* slices.SortFunc sorts up to Insertion elements by insertion: it moves an *)
(* element before all those the comparison does not put before it, so of   *)
(* two that tie the later one goes first.                                  *)
StaysAt(k, p) == p = k
StopsAt(k, p) ==
  /\ p > 1 => After(batch[k], batch[p - 1])
  /\ \A i \in p..(k - 1) : ~After(batch[k], batch[i])
Moved(k, p) ==
  [i \in DOMAIN batch |-> IF i < p \/ i > k THEN batch[i]
                          ELSE IF i = p THEN batch[k] ELSE batch[i - 1]]
InsertOne ==
  /\ current = 0 /\ stack = <<>> /\ sorted < Len(batch) /\ Len(batch) <= Insertion
  /\ sorted' = sorted + 1
  /\ \E p \in 1..(sorted + 1) : StopsAt(sorted + 1, p) /\ batch' = Moved(sorted + 1, p)
  /\ UNCHANGED <<graph, stored, stack, current, refs, have, fetched, holes>>

(* A longer batch it sorts if none of the events tie; otherwise it may     *)
(* leave them in any order.                                                *)
Tie(b) == \E i, j \in DOMAIN b : i # j /\ ~After(b[i], b[j]) /\ ~After(b[j], b[i])
SortLong ==
  /\ current = 0 /\ stack = <<>> /\ sorted = 0 /\ Len(batch) > Insertion
  /\ sorted' = Len(batch)
  /\ \E f \in Bijection(DOMAIN batch, DOMAIN batch) :
       batch' = [i \in DOMAIN batch |-> batch[f[i]]]
  /\ Tie(batch') \/ \A i, j \in DOMAIN batch : i < j => ~After(batch'[i], batch'[j])
  /\ UNCHANGED <<graph, stored, stack, current, refs, have, fetched, holes>>

(* Another request stores an event; the sort reads nothing any more.       *)
StoreElsewhere ==
  /\ \E e \in Ids \ stored : RefsOf(e) \subseteq stored /\ stored' = stored \cup {e}
  /\ current # 0 \/ stack # <<>>
  /\ UNCHANGED <<graph, stack, current, refs, have, fetched, holes, batch, sorted>>

Init ==
  /\ Graph
  /\ stored \in {S \in SUBSET Ids : \A e \in S : RefsOf(e) \subseteq S}
  /\ \E n \in 1..MaxPDUs : pdus \in {s \in [1..n -> Ids] : IsInjective(s)}
  /\ stack = pdus /\ have = {pdus[i] : i \in DOMAIN pdus}
  /\ current = 0 /\ refs = {} /\ fetched = 0 /\ holes = {}
  /\ batch = <<>> /\ sorted = 0

Next == AlreadyThere \/ FetchEvent \/ LeaveHole \/ Pop \/ Complete \/ InsertOne
        \/ SortLong \/ StoreElsewhere

Spec == Init /\ [][Next]_vars

-----------------------------------------------------------------------------
(* Type correctness: what is fetched stays within the limit, whatever the  *)
(* references are and however many of the answers are of no use.           *)
TypeOK ==
  /\ {prevs, auths} \subseteq [Ids -> SUBSET Ids] /\ depth \in [Ids -> 0..N]
  /\ pdus \in Seq(Ids) /\ stored \subseteq Ids /\ have \subseteq Ids
  /\ stack \in Seq(Ids) /\ batch \in Seq(Ids) /\ current \in Ids \cup {0}
  /\ refs \subseteq {"prev", "auth"} \X Ids /\ holes \subseteq Ids
  /\ fetched \in 0..MaxFetch /\ sorted \in 0..Len(batch)

InBatch == {batch[i] : i \in DOMAIN batch}

(* The batch keeps every PDU, and whatever it refers to is stored, in it,  *)
(* or known to be missing, although events are fetched from the middle of  *)
(* the loop and other requests store some of them meanwhile.               *)
NothingForgotten ==
  Done => /\ {pdus[i] : i \in DOMAIN pdus} \subseteq InBatch
          /\ \A e \in InBatch : RefsOf(e) \subseteq stored \cup InBatch \cup holes

(* A batch without ties, or short enough to be sorted by insertion, ends   *)
(* in the order of the depths, although the comparison is no order: an     *)
(* event comes after all those it refers to that are less deep.            *)
DepthOrder ==
  Done /\ (Len(batch) <= Insertion \/ ~Tie(batch)) =>
    \A i, j \in DOMAIN batch : i < j => depth[batch[i]] <= depth[batch[j]]

(* An event comes after all it refers to, so that the checks of the room   *)
(* can be made one event after the other.                                  *)
RefsFirst ==
  Done => \A i, j \in DOMAIN batch : batch[i] \in RefsOf(batch[j]) => i < j

=============================================================================
