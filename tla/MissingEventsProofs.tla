------------------------ MODULE MissingEventsProofs ------------------------
(***************************************************************************)
(* Proofs about MissingEvents, for every graph, transaction and limit:     *)
(* types, with the limit on what is fetched; that the loop forgets no      *)
(* event; and that the sort puts the batch in the order of the depths.     *)
(***************************************************************************)
EXTENDS MissingEvents, SequenceTheorems, TLAPS

Elements(s) == {s[i] : i \in DOMAIN s}

LEMMA ElementsAppended ==
  ASSUME NEW S, NEW s \in Seq(S), NEW x \in S
  PROVE  Elements(Append(s, x)) = Elements(s) \cup {x}
<1>1. PICK n \in Nat : n = Len(s) /\ DOMAIN s = 1..n BY LenProperties
<1>2. /\ DOMAIN Append(s, x) = 1..(n + 1) /\ Append(s, x)[n + 1] = x
      /\ \A i \in 1..n : Append(s, x)[i] = s[i]
  BY <1>1, AppendProperties
<1> QED BY <1>1, <1>2 DEF Elements

LEMMA ElementsPrepended ==
  ASSUME NEW S, NEW s \in Seq(S), NEW x \in S
  PROVE  Elements(<<x>> \o s) = Elements(s) \cup {x}
<1>1. PICK n \in Nat : n = Len(s) /\ DOMAIN s = 1..n BY LenProperties
<1>2. PICK c \in Seq(S) : c = <<x>> \o s
  <2>1. <<x>> \in Seq(S) OBVIOUS
  <2> QED BY <2>1, ConcatProperties
<1>3. DOMAIN c = 1..(n + 1) /\ c[1] = x /\ \A i \in 2..(n + 1) : c[i] = s[i - 1]
  <2>1. <<x>> \in Seq(S) /\ Len(<<x>>) = 1 /\ <<x>>[1] = x OBVIOUS
  <2> QED BY <1>1, <1>2, <2>1, ConcatProperties
<1>4. \A y : y \in Elements(c) <=> y \in Elements(s) \cup {x}
  <2>1. ASSUME NEW i \in 1..(n + 1) PROVE c[i] \in Elements(s) \cup {x}
    <3>1. i = 1 \/ (i \in 2..(n + 1) /\ i - 1 \in 1..n) BY <1>1
    <3> QED BY <1>1, <1>3, <3>1 DEF Elements
  <2>2. ASSUME NEW i \in 1..n PROVE s[i] \in Elements(c)
    <3>1. i + 1 \in 2..(n + 1) /\ i + 1 \in 1..(n + 1) /\ (i + 1) - 1 = i BY <1>1
    <3> QED BY <1>3, <3>1 DEF Elements
  <2>3. x \in Elements(c)
    <3>1. 1 \in 1..(n + 1) BY <1>1
    <3> QED BY <1>3, <3>1 DEF Elements
  <2> QED BY <1>1, <1>3, <2>1, <2>2, <2>3 DEF Elements
<1> QED BY <1>2, <1>4

LEMMA ElementsRest ==
  ASSUME NEW S, NEW s \in Seq(S), s # <<>>
  PROVE  /\ Head(s) \in S /\ Tail(s) \in Seq(S) /\ Len(Tail(s)) = Len(s) - 1
         /\ Elements(s) = Elements(Tail(s)) \cup {Head(s)}
<1>1. PICK n \in Nat : n = Len(s) /\ DOMAIN s = 1..n /\ n > 0
  BY LenProperties, EmptySeq
<1>2. /\ Head(s) \in S /\ Tail(s) \in Seq(S) /\ Len(Tail(s)) = n - 1
      /\ Head(s) = s[1] /\ \A i \in 1..(n - 1) : Tail(s)[i] = s[i + 1]
  BY <1>1, HeadTailProperties
<1>3. DOMAIN Tail(s) = 1..(n - 1) BY <1>2, LenProperties
<1>4. \A y : y \in Elements(s) <=> y \in Elements(Tail(s)) \cup {Head(s)}
  <2>1. ASSUME NEW i \in 1..n PROVE s[i] \in Elements(Tail(s)) \cup {Head(s)}
    <3>1. i = 1 \/ (i - 1 \in 1..(n - 1) /\ (i - 1) + 1 = i) BY <1>1
    <3> QED BY <1>2, <1>3, <3>1 DEF Elements
  <2>2. ASSUME NEW i \in 1..(n - 1) PROVE Tail(s)[i] \in Elements(s)
    <3>1. i + 1 \in 1..n BY <1>1
    <3> QED BY <1>1, <1>2, <3>1 DEF Elements
  <2>3. Head(s) \in Elements(s)
    <3>1. 1 \in 1..n BY <1>1
    <3> QED BY <1>1, <1>2, <3>1 DEF Elements
  <2> QED BY <1>1, <1>3, <2>1, <2>2, <2>3 DEF Elements
<1> QED BY <1>1, <1>2, <1>4

-----------------------------------------------------------------------------
(* Types.                                                                  *)

LEMMA RefsTyped ==
  ASSUME TypeOK, NEW e \in Ids
  PROVE  /\ RefsOf(e) \subseteq Ids
         /\ RefsToHandle(e) \subseteq {"prev", "auth"} \X Ids
         /\ RefsOf(e) = {r[2] : r \in RefsToHandle(e)}
<1>1. prevs[e] \subseteq Ids /\ auths[e] \subseteq Ids BY DEF TypeOK
<1>2. RefsToHandle(e) = ({"prev"} \X prevs[e]) \cup ({"auth"} \X auths[e])
  BY DEF RefsToHandle, AllRefs
<1>3. \A x \in prevs[e] : <<"prev", x>> \in RefsToHandle(e) /\ <<"prev", x>>[2] = x BY <1>2
<1>4. \A x \in auths[e] : <<"auth", x>> \in RefsToHandle(e) /\ <<"auth", x>>[2] = x BY <1>2
<1>5. \A r \in RefsToHandle(e) : r[2] \in RefsOf(e) BY <1>2 DEF RefsOf
<1>6. \A x : x \in RefsOf(e) <=> x \in {r[2] : r \in RefsToHandle(e)}
  BY <1>3, <1>4, <1>5 DEF RefsOf
<1> QED BY <1>1, <1>2, <1>6 DEF RefsOf

(* A move of the sort rearranges the batch.                                *)
LEMMA MovedBatch ==
  ASSUME TypeOK, sorted < Len(batch), NEW p \in 1..(sorted + 1)
  PROVE  LET b == Moved(sorted + 1, p)
         IN b \in Seq(Ids) /\ Len(b) = Len(batch) /\ Elements(b) = Elements(batch)
<1> DEFINE k == sorted + 1
           b == Moved(k, p)
<1>1. PICK n \in Nat : n = Len(batch) /\ DOMAIN batch = 1..n /\ k \in 1..n /\ p \in 1..k
  BY LenProperties DEF TypeOK
<1>2. \A i \in 1..n : batch[i] \in Ids BY <1>1, ElementOfSeq DEF TypeOK
<1>3. /\ DOMAIN b = 1..n
      /\ \A i \in 1..n : b[i] = IF i < p \/ i > k THEN batch[i]
                                ELSE IF i = p THEN batch[k] ELSE batch[i - 1]
  BY <1>1 DEF Moved
<1>4. \A i \in 1..n : b[i] \in Elements(batch)
  <2>1. \A i \in 1..n : i < p \/ i > k \/ i = p \/ i - 1 \in 1..n BY <1>1
  <2> QED BY <1>1, <1>3, <2>1 DEF Elements
<1>5. \A i \in 1..n : batch[i] \in Elements(b)
  <2> TAKE i \in 1..n
  <2>1. CASE i < p \/ i > k BY <1>3, <2>1 DEF Elements
  <2>2. CASE i = k BY <1>1, <1>3, <2>2 DEF Elements
  <2>3. CASE p <= i /\ i < k
    <3>1. i + 1 \in 1..n /\ ~(i + 1 < p \/ i + 1 > k) /\ i + 1 # p /\ (i + 1) - 1 = i
      BY <1>1, <2>3
    <3> QED BY <1>3, <3>1 DEF Elements
  <2> QED BY <1>1, <2>1, <2>2, <2>3
<1>6. Elements(batch) \subseteq Ids BY <1>1, <1>2 DEF Elements
<1>7. b \in [1..n -> Ids]
  <2>1. b = [i \in 1..n |-> b[i]] BY <1>1 DEF Moved
  <2> QED BY <1>3, <1>4, <1>6, <2>1
<1>8. b \in Seq(Ids) /\ Len(b) = n BY <1>7, SeqDef, LenProperties
<1>9. Elements(b) = Elements(batch) BY <1>1, <1>3, <1>4, <1>5 DEF Elements
<1> QED BY <1>1, <1>8, <1>9

LEMMA PermutedBatch ==
  ASSUME TypeOK, NEW f \in Bijection(DOMAIN batch, DOMAIN batch),
         NEW b, b = [i \in DOMAIN batch |-> batch[f[i]]]
  PROVE  b \in Seq(Ids) /\ Len(b) = Len(batch) /\ Elements(b) = Elements(batch)
<1>1. PICK n \in Nat : n = Len(batch) /\ DOMAIN batch = 1..n
  BY LenProperties DEF TypeOK
<1>2. /\ \A i \in 1..n : f[i] \in 1..n
      /\ \A t \in 1..n : \E i \in 1..n : f[i] = t
  BY <1>1 DEF Bijection, Injection, Surjection
<1>3. \A i \in 1..n : batch[i] \in Ids BY <1>1, ElementOfSeq DEF TypeOK
<1>4. b \in [1..n -> Ids] BY <1>1, <1>2, <1>3
<1>5. b \in Seq(Ids) /\ Len(b) = n BY <1>4, SeqDef, LenProperties
<1>6. DOMAIN b = 1..n /\ \A i \in 1..n : b[i] = batch[f[i]] BY <1>1
<1>7. Elements(b) = Elements(batch)
  <2>1. \A i \in 1..n : b[i] \in Elements(batch) BY <1>1, <1>2, <1>6 DEF Elements
  <2>2. \A t \in 1..n : batch[t] \in Elements(b) BY <1>2, <1>6 DEF Elements
  <2> QED BY <1>1, <1>6, <2>1, <2>2 DEF Elements
<1> QED BY <1>1, <1>5, <1>7

(* Either way of sorting rearranges the batch.                             *)
LEMMA SortedBatch ==
  ASSUME TypeOK, InsertOne \/ SortLong
  PROVE  /\ batch' \in Seq(Ids) /\ Len(batch') = Len(batch)
         /\ Elements(batch') = Elements(batch) /\ sorted' \in 0..Len(batch)
<1>1. Len(batch) \in Nat /\ sorted \in 0..Len(batch) BY LenProperties DEF TypeOK
<1>2. CASE InsertOne
  <2>1. PICK p \in 1..(sorted + 1) : batch' = Moved(sorted + 1, p) BY <1>2 DEF InsertOne
  <2>2. sorted' = sorted + 1 /\ sorted < Len(batch) BY <1>2 DEF InsertOne
  <2> QED BY <1>1, <2>1, <2>2, MovedBatch
<1>3. CASE SortLong
  <2>1. PICK f \in Bijection(DOMAIN batch, DOMAIN batch) :
          batch' = [i \in DOMAIN batch |-> batch[f[i]]]
    BY <1>3 DEF SortLong
  <2>2. sorted' = Len(batch) BY <1>3 DEF SortLong
  <2> QED BY <1>1, <2>1, <2>2, PermutedBatch
<1> QED BY <1>2, <1>3

LEMMA TypeInit == Init => TypeOK
<1> SUFFICES ASSUME Init PROVE TypeOK
  OBVIOUS
<1>1. {prevs, auths} \subseteq [Ids -> SUBSET Ids] /\ depth \in [Ids -> 0..N]
  BY DEF Init, Graph, Few
<1>2. PICK n \in 1..MaxPDUs : pdus \in [1..n -> Ids] BY DEF Init
<1>3. pdus \in Seq(Ids)
  <2>1. n \in Nat BY <1>2, SizesAssumption
  <2> QED BY <1>2, <2>1, SeqDef
<1>4. have \subseteq Ids BY <1>2 DEF Init
<1>5. batch \in Seq(Ids) /\ sorted \in 0..Len(batch) BY DEF Init
<1>6. fetched \in 0..MaxFetch BY SizesAssumption DEF Init
<1> QED BY <1>1, <1>3, <1>4, <1>5, <1>6 DEF Init, TypeOK

LEMMA TypeNext == TypeOK /\ [Next]_vars => TypeOK'
<1> SUFFICES ASSUME TypeOK, [Next]_vars PROVE TypeOK'
  OBVIOUS
<1> USE DEF TypeOK, graph
<1>1. CASE AlreadyThere
  <2>1. PICK r \in refs : refs' = refs \ {r} /\ have' = have \cup {r[2]}
    BY <1>1 DEF AlreadyThere, NextRefs
  <2> QED BY <1>1, <2>1 DEF AlreadyThere
<1>2. CASE FetchEvent
  <2>1. PICK r \in refs : /\ MayFetch /\ refs' = refs \ {r}
                         /\ stack' = <<r[2]>> \o stack /\ fetched' = fetched + 1
    BY <1>2 DEF FetchEvent, NextRefs
  <2>2. stack' \in Seq(Ids)
    <3>1. r[2] \in Ids BY <2>1
    <3>2. <<r[2]>> \in Seq(Ids) BY <3>1
    <3> QED BY <2>1, <3>2, ConcatProperties
  <2>3. fetched' \in 0..MaxFetch BY <2>1, SizesAssumption DEF MayFetch
  <2> QED BY <1>2, <2>1, <2>2, <2>3 DEF FetchEvent
<1>3. CASE LeaveHole
  <2>1. PICK r \in refs : refs' = refs \ {r} /\ holes' = holes \cup {r[2]}
    BY <1>3 DEF LeaveHole, NextRefs
  <2>2. fetched' \in 0..MaxFetch BY <1>3, SizesAssumption DEF LeaveHole, MayFetch
  <2> QED BY <1>3, <2>1, <2>2 DEF LeaveHole
<1>4. CASE Pop
  <2>1. Head(stack) \in Ids /\ Tail(stack) \in Seq(Ids) BY <1>4, ElementsRest DEF Pop
  <2>2. RefsToHandle(Head(stack)) \subseteq {"prev", "auth"} \X Ids BY <2>1, RefsTyped
  <2> QED BY <1>4, <2>1, <2>2 DEF Pop
<1>5. CASE Complete
  <2>1. batch' \in Seq(Ids) /\ Len(batch') = Len(batch) + 1
    BY <1>5, AppendProperties DEF Complete
  <2>2. sorted' \in 0..Len(batch') BY <1>5, <2>1, LenProperties DEF Complete
  <2> QED BY <1>5, <2>1, <2>2 DEF Complete
<1>6. CASE InsertOne \/ SortLong BY <1>6, SortedBatch DEF InsertOne, SortLong
<1>7. CASE StoreElsewhere BY <1>7 DEF StoreElsewhere
<1>8. CASE UNCHANGED vars BY <1>8 DEF vars
<1> QED BY <1>1, <1>2, <1>3, <1>4, <1>5, <1>6, <1>7, <1>8 DEF Next

(* getMissingEventsForSendBatch fetches no more than its limit, whatever   *)
(* the references and the answers, and what it keeps are events.           *)
THEOREM TypeCorrect == Spec => []TypeOK
<1> QED BY TypeInit, TypeNext, PTL DEF Spec

-----------------------------------------------------------------------------
(* Nothing forgotten: what an event of the batch, or the event looked at,  *)
(* refers to is somewhere, if not in the batch yet then to be looked at.   *)

Working   == Elements(stack) \cup ({current} \ {0}) \cup Elements(batch)
Somewhere == stored \cup Working \cup holes

PDUsKept     == Elements(pdus) \subseteq Working
HaveKept     == have \subseteq stored \cup Working
BatchKept    == \A e \in Elements(batch) : RefsOf(e) \subseteq Somewhere
CurrentKept  == current # 0 => RefsOf(current) \subseteq {r[2] : r \in refs} \cup Somewhere
KeptInv      == TypeOK /\ PDUsKept /\ HaveKept /\ BatchKept /\ CurrentKept

LEMMA KeptInit == Init => KeptInv
<1> SUFFICES ASSUME Init PROVE KeptInv
  OBVIOUS
<1>1. Elements(pdus) \subseteq Working BY DEF Init, Working
<1>2. Elements(batch) = {} BY EmptySeq DEF Init, Elements
<1>3. have = Elements(pdus) BY DEF Init, Elements
<1> QED
  BY <1>1, <1>2, <1>3, TypeInit
     DEF Init, KeptInv, PDUsKept, HaveKept, BatchKept, CurrentKept

(* A step that forgets nothing, but for the references of the event looked *)
(* at, and may note more of what is there.                                 *)
LEMMA KeptStep ==
  ASSUME KeptInv, [Next]_vars, Working \subseteq Working', UNCHANGED graph,
         stored \subseteq stored', holes \subseteq holes',
         have' \subseteq have \cup stored \cup Working,
         \A e \in Elements(batch') \ Elements(batch) : RefsOf(e) \subseteq Somewhere,
         CurrentKept'
  PROVE  KeptInv'
<1>1. \A e : RefsOf(e)' = RefsOf(e) BY DEF graph, RefsOf
<1>2. Somewhere \subseteq Somewhere' BY DEF Somewhere
<1>3. PDUsKept' BY DEF KeptInv, PDUsKept, graph
<1>4. HaveKept' BY DEF KeptInv, HaveKept
<1>5. BatchKept'
  <2>1. \A e \in Elements(batch') : RefsOf(e) \subseteq Somewhere BY DEF KeptInv, BatchKept
  <2>2. \A e \in Elements(batch') : RefsOf(e)' \subseteq Somewhere' BY <1>1, <1>2, <2>1
  <2> QED BY <2>2 DEF BatchKept
<1> QED BY <1>3, <1>4, <1>5, TypeNext DEF KeptInv

LEMMA KeptNext == KeptInv /\ [Next]_vars => KeptInv'
<1> SUFFICES ASSUME KeptInv, [Next]_vars PROVE KeptInv'
  OBVIOUS
<1>1. TypeOK /\ CurrentKept BY DEF KeptInv
<1>2. CASE AlreadyThere
  <2>1. PICK r \in refs : /\ ~Missing(r[2]) /\ refs' = refs \ {r}
                         /\ have' = have \cup {r[2]}
    BY <1>2 DEF AlreadyThere, NextRefs
  <2>2. r[2] \in stored \cup Working BY <2>1 DEF Missing, KeptInv, HaveKept
  <2>3. Working' = Working /\ Somewhere' = Somewhere
    BY <1>2 DEF AlreadyThere, Working, Somewhere
  <2>4. CurrentKept'
    <3>1. {q[2] : q \in refs} \subseteq {q[2] : q \in refs'} \cup Somewhere
      BY <2>1, <2>2 DEF Somewhere
    <3>2. current' = current /\ RefsOf(current)' = RefsOf(current)
      BY <1>2 DEF AlreadyThere, graph, RefsOf
    <3> QED BY <1>1, <2>3, <3>1, <3>2 DEF CurrentKept
  <2> QED BY <1>2, <2>1, <2>2, <2>3, <2>4, KeptStep DEF AlreadyThere
<1>3. CASE FetchEvent
  <2>1. PICK r \in refs : refs' = refs \ {r} /\ stack' = <<r[2]>> \o stack
    BY <1>3 DEF FetchEvent, NextRefs
  <2>2. Elements(stack') = Elements(stack) \cup {r[2]}
    <3>1. r[2] \in Ids /\ stack \in Seq(Ids) BY <1>1, <2>1 DEF TypeOK
    <3> QED BY <2>1, <3>1, ElementsPrepended
  <2>3. Working' = Working \cup {r[2]} BY <1>3, <2>2 DEF FetchEvent, Working
  <2>4. Somewhere' = Somewhere \cup {r[2]} BY <1>3, <2>3 DEF FetchEvent, Somewhere
  <2>5. CurrentKept'
    <3>1. {q[2] : q \in refs} \subseteq {q[2] : q \in refs'} \cup {r[2]} BY <2>1
    <3>2. current' = current /\ RefsOf(current)' = RefsOf(current)
      BY <1>3 DEF FetchEvent, graph, RefsOf
    <3> QED BY <1>1, <2>4, <3>1, <3>2 DEF CurrentKept
  <2> QED BY <1>3, <2>3, <2>5, KeptStep DEF FetchEvent
<1>4. CASE LeaveHole
  <2>1. PICK r \in refs : refs' = refs \ {r} /\ holes' = holes \cup {r[2]}
    BY <1>4 DEF LeaveHole, NextRefs
  <2>2. Working' = Working BY <1>4 DEF LeaveHole, Working
  <2>3. Somewhere' = Somewhere \cup {r[2]} BY <1>4, <2>1, <2>2 DEF LeaveHole, Somewhere
  <2>4. CurrentKept'
    <3>1. {q[2] : q \in refs} \subseteq {q[2] : q \in refs'} \cup {r[2]} BY <2>1
    <3>2. current' = current /\ RefsOf(current)' = RefsOf(current)
      BY <1>4 DEF LeaveHole, graph, RefsOf
    <3> QED BY <1>1, <2>3, <3>1, <3>2 DEF CurrentKept
  <2> QED BY <1>4, <2>1, <2>2, <2>4, KeptStep DEF LeaveHole
<1>5. CASE Pop
  <2>1. /\ Head(stack) \in Ids /\ Elements(stack) = Elements(Tail(stack)) \cup {Head(stack)}
    BY <1>1, <1>5, ElementsRest DEF Pop, TypeOK
  <2>2. Working' = Working BY <1>5, <2>1 DEF Pop, Working, Ids
  <2>3. CurrentKept'
    <3>1. RefsOf(Head(stack)) = {r[2] : r \in refs'}
      BY <1>1, <1>5, <2>1, RefsTyped DEF Pop
    <3>2. current' = Head(stack) /\ RefsOf(current)' = RefsOf(Head(stack))
      BY <1>5 DEF Pop, graph, RefsOf
    <3> QED BY <3>1, <3>2 DEF CurrentKept
  <2> QED BY <1>5, <2>2, <2>3, KeptStep DEF Pop
<1>6. CASE Complete
  <2>1. current \in Ids /\ Elements(batch') = Elements(batch) \cup {current}
    <3>1. current \in Ids /\ batch \in Seq(Ids) BY <1>1, <1>6 DEF Complete, TypeOK
    <3>2. batch' = Append(batch, current) BY <1>6 DEF Complete
    <3> QED BY <3>1, <3>2, ElementsAppended
  <2>2. Working' = Working BY <1>6, <2>1 DEF Complete, Working, Ids
  <2>3. RefsOf(current) \subseteq Somewhere BY <1>1, <1>6 DEF Complete, CurrentKept
  <2>4. CurrentKept' BY <1>6 DEF Complete, CurrentKept
  <2> QED BY <1>6, <2>1, <2>2, <2>3, <2>4, KeptStep DEF Complete
<1>7. CASE InsertOne \/ SortLong
  <2>1. Elements(batch') = Elements(batch) BY <1>1, <1>7, SortedBatch
  <2>2. Working' = Working BY <1>7, <2>1 DEF InsertOne, SortLong, Working
  <2>3. CurrentKept' BY <1>7 DEF InsertOne, SortLong, CurrentKept
  <2> QED BY <1>7, <2>1, <2>2, <2>3, KeptStep DEF InsertOne, SortLong
<1>8. CASE StoreElsewhere
  <2>1. Working' = Working /\ stored \subseteq stored' BY <1>8 DEF StoreElsewhere, Working
  <2>2. Somewhere \subseteq Somewhere' BY <1>8, <2>1 DEF StoreElsewhere, Somewhere
  <2>3. CurrentKept'
    <3>1. current' = current /\ refs' = refs /\ RefsOf(current)' = RefsOf(current)
      BY <1>8 DEF StoreElsewhere, graph, RefsOf
    <3> QED BY <1>1, <2>2, <3>1 DEF CurrentKept
  <2> QED BY <1>8, <2>1, <2>3, KeptStep DEF StoreElsewhere
<1>9. CASE UNCHANGED vars
  BY <1>9, TypeNext
     DEF vars, graph, KeptInv, PDUsKept, HaveKept, BatchKept, CurrentKept, Somewhere,
         Working, RefsOf
<1> QED BY <1>2, <1>3, <1>4, <1>5, <1>6, <1>7, <1>8, <1>9 DEF Next

(* The batch of a transaction keeps every PDU, and each event it refers to *)
(* is stored, in the batch, or known to be missing: fetching events from   *)
(* the middle of the loop over the others, and requests that store events  *)
(* meanwhile, lose none.                                                   *)
THEOREM NothingForgottenCorrect == Spec => []NothingForgotten
<1>1. KeptInv => NothingForgotten
  <2> SUFFICES ASSUME KeptInv, Done PROVE NothingForgotten
    BY DEF NothingForgotten
  <2>1. Working = Elements(batch)
    <3>1. Elements(stack) = {} BY EmptySeq DEF Done, Elements
    <3> QED BY <3>1 DEF Done, Working
  <2>2. InBatch = Elements(batch) /\ {pdus[i] : i \in DOMAIN pdus} = Elements(pdus)
    BY DEF InBatch, Elements
  <2> QED
    BY <2>1, <2>2
       DEF KeptInv, PDUsKept, BatchKept, Somewhere, NothingForgotten
<1> QED BY <1>1, KeptInit, KeptNext, PTL DEF Spec

-----------------------------------------------------------------------------
(* The order of the batch.                                                 *)

Sorting   == /\ current = 0 => refs = {}
             /\ sorted > 0 => current = 0 /\ stack = <<>>
NoTie     == Len(batch) <= Insertion \/ ~Tie(batch)
InOrder   == NoTie => \A i, j \in 1..sorted : i < j => depth[batch[i]] <= depth[batch[j]]
OrderInv  == TypeOK /\ Sorting /\ InOrder

(* An insertion keeps the part it goes over in the order of the depths.    *)
LEMMA Inserted ==
  ASSUME TypeOK, InOrder, InsertOne
  PROVE  InOrder'
<1> DEFINE k == sorted + 1
<1>1. PICK n \in Nat : n = Len(batch) /\ DOMAIN batch = 1..n /\ sorted \in Nat /\ k \in 1..n
  BY LenProperties DEF TypeOK, InsertOne
<1>2. PICK p \in 1..k : StopsAt(k, p) /\ batch' = Moved(k, p)
  BY DEF InsertOne
<1>3. \A i \in 1..n : batch[i] \in Ids /\ depth[batch[i]] \in Int
  BY <1>1, ElementOfSeq DEF TypeOK
<1>4. \A i \in 1..n : batch'[i] = IF i < p \/ i > k THEN batch[i]
                                 ELSE IF i = p THEN batch[k] ELSE batch[i - 1]
  BY <1>1, <1>2 DEF Moved
<1>5. depth' = depth /\ sorted' = k BY DEF InsertOne, graph
<1>6. p > 1 => depth[batch[p - 1]] <= depth[batch[k]]
  <2> SUFFICES ASSUME p > 1 PROVE depth[batch[p - 1]] <= depth[batch[k]]
    OBVIOUS
  <2>1. After(batch[k], batch[p - 1]) BY <1>2 DEF StopsAt
  <2>2. p - 1 \in 1..n /\ k \in 1..n BY <1>1
  <2>3. depth[batch[p - 1]] \in Int /\ depth[batch[k]] \in Int BY <1>3, <2>2
  <2> QED BY <2>1, <2>3 DEF After
<1>7. \A i \in p..(k - 1) : depth[batch[k]] <= depth[batch[i]]
  <2> TAKE i \in p..(k - 1)
  <2>1. ~After(batch[k], batch[i]) BY <1>2 DEF StopsAt
  <2>2. i \in 1..n /\ k \in 1..n BY <1>1
  <2>3. depth[batch[i]] \in Int /\ depth[batch[k]] \in Int BY <1>3, <2>2
  <2> QED BY <2>1, <2>3 DEF After
<1>8. \A i, j \in 1..(k - 1) : i <= j => depth[batch[i]] <= depth[batch[j]]
  <2>1. \A i \in 1..(k - 1) : i \in 1..n /\ i \in 1..sorted BY <1>1
  <2>2. NoTie BY DEF InsertOne, NoTie
  <2> QED BY <1>3, <2>1, <2>2 DEF InOrder
<1>9. \A i \in 1..(p - 1) : depth[batch[i]] <= depth[batch[k]]
  <2> TAKE i \in 1..(p - 1)
  <2>1. /\ p > 1 /\ i \in 1..(k - 1) /\ p - 1 \in 1..(k - 1) /\ i <= p - 1
        /\ i \in 1..n /\ p - 1 \in 1..n /\ k \in 1..n
    BY <1>1
  <2>2. depth[batch[i]] <= depth[batch[p - 1]] BY <1>8, <2>1
  <2>3. depth[batch[i]] \in Int /\ depth[batch[p - 1]] \in Int /\ depth[batch[k]] \in Int
    BY <1>3, <2>1
  <2> QED BY <1>6, <2>1, <2>2, <2>3
<1> SUFFICES ASSUME NEW i \in 1..k, NEW j \in 1..k, i < j
             PROVE  depth[batch'[i]] <= depth[batch'[j]]
  BY <1>5 DEF InOrder
<1>10. i \in 1..n /\ j \in 1..n BY <1>1
<1>11. CASE j < p
  <2>1. i \in 1..(k - 1) /\ j \in 1..(k - 1) /\ i < p BY <1>1, <1>2, <1>11
  <2> QED BY <1>4, <1>8, <1>10, <1>11, <2>1
<1>12. CASE j = p
  <2>1. batch'[j] = batch[k] /\ batch'[i] = batch[i] /\ i \in 1..(p - 1)
    BY <1>1, <1>2, <1>4, <1>10, <1>12
  <2> QED BY <1>9, <2>1
<1>13. CASE j > p
  <2>1. batch'[j] = batch[j - 1] /\ j - 1 \in p..(k - 1) /\ j - 1 \in 1..(k - 1)
    BY <1>1, <1>2, <1>4, <1>10, <1>13
  <2>2. CASE i < p
    <3>1. batch'[i] = batch[i] /\ i \in 1..(k - 1) /\ i <= j - 1 BY <1>1, <1>2, <1>4, <1>10, <1>13, <2>2
    <3> QED BY <1>8, <2>1, <3>1
  <2>3. CASE i = p
    <3>1. batch'[i] = batch[k] BY <1>1, <1>2, <1>4, <1>10, <1>13, <2>3
    <3> QED BY <1>7, <2>1, <3>1
  <2>4. CASE i > p
    <3>1. batch'[i] = batch[i - 1] /\ i - 1 \in 1..(k - 1) /\ i - 1 <= j - 1
      BY <1>1, <1>2, <1>4, <1>10, <2>4
    <3> QED BY <1>8, <2>1, <3>1
  <2> QED BY <2>2, <2>3, <2>4
<1> QED BY <1>11, <1>12, <1>13

LEMMA SortedLong ==
  ASSUME TypeOK, SortLong
  PROVE  InOrder'
<1>1. PICK n \in Nat : n = Len(batch) /\ DOMAIN batch = 1..n BY LenProperties DEF TypeOK
<1>2. /\ batch' \in Seq(Ids) /\ Len(batch') = n /\ sorted' = n
      /\ graph' = graph /\ n > Insertion
  BY <1>1, SortedBatch DEF SortLong
<1>3. \A i \in 1..n : batch'[i] \in Ids BY <1>2, ElementOfSeq
<1>4. Tie(batch)' = Tie(batch')
  BY <1>2 DEF Tie, After, graph
<1> SUFFICES ASSUME ~Tie(batch'), NEW i \in 1..n, NEW j \in 1..n, i < j
             PROVE  depth[batch'[i]] <= depth[batch'[j]]
  BY <1>2, <1>4, InsertionAssumption DEF InOrder, NoTie, graph
<1>5. ~After(batch'[i], batch'[j]) BY <1>1 DEF SortLong
<1>6. depth[batch'[i]] \in Int /\ depth[batch'[j]] \in Int BY <1>3 DEF TypeOK
<1> QED BY <1>5, <1>6 DEF After

LEMMA OrderNext == OrderInv /\ [Next]_vars => OrderInv'
<1> SUFFICES ASSUME OrderInv, [Next]_vars PROVE OrderInv'
  OBVIOUS
<1>1. TypeOK /\ Sorting /\ InOrder /\ TypeOK' BY TypeNext DEF OrderInv
<1>2. graph' = graph
  BY DEF Next, AlreadyThere, FetchEvent, LeaveHole, Pop, Complete, InsertOne, SortLong,
         StoreElsewhere, vars
<1>3. CASE InsertOne \/ SortLong
  <2>1. Sorting' BY <1>1, <1>3 DEF InsertOne, SortLong, Sorting
  <2> QED BY <1>1, <1>3, <2>1, Inserted, SortedLong DEF OrderInv
<1>4. CASE FetchEvent \/ Pop \/ Complete
  <2>1. sorted = 0 /\ sorted' = 0
    <3>1. sorted \in Nat BY <1>1, LenProperties DEF TypeOK
    <3>2. ~(current = 0 /\ stack = <<>>)
      <4>1. CASE FetchEvent
        <5>1. refs # {} BY <4>1 DEF FetchEvent, NextRefs
        <5> QED BY <1>1, <5>1 DEF Sorting
      <4>2. CASE Pop BY <4>2 DEF Pop
      <4>3. CASE Complete BY <4>3 DEF Complete
      <4> QED BY <1>4, <4>1, <4>2, <4>3
    <3>3. sorted' = sorted BY <1>4 DEF FetchEvent, Pop, Complete
    <3> QED BY <1>1, <3>1, <3>2, <3>3 DEF Sorting
  <2>2. current' = 0 => refs' = {}
    <3>1. CASE FetchEvent
      <4>1. refs # {} BY <3>1 DEF FetchEvent, NextRefs
      <4> QED BY <1>1, <3>1, <4>1 DEF FetchEvent, Sorting
    <3>2. CASE Pop
      <4>1. current' \in Ids BY <1>1, <3>2, ElementsRest DEF Pop, TypeOK
      <4> QED BY <4>1 DEF Ids
    <3>3. CASE Complete BY <3>3 DEF Complete
    <3> QED BY <1>4, <3>1, <3>2, <3>3
  <2> QED BY <1>1, <2>1, <2>2 DEF OrderInv, Sorting, InOrder
<1>5. CASE AlreadyThere \/ LeaveHole \/ StoreElsewhere \/ UNCHANGED vars
  <2>1. /\ sorted' = sorted /\ batch' = batch /\ current' = current /\ stack' = stack
    BY <1>5 DEF AlreadyThere, LeaveHole, StoreElsewhere, vars
  <2>2. refs = {} => refs' = {}
    BY <1>5 DEF AlreadyThere, LeaveHole, NextRefs, StoreElsewhere, vars
  <2>3. InOrder' BY <1>1, <1>2, <2>1 DEF InOrder, NoTie, Tie, After, graph
  <2> QED BY <1>1, <2>1, <2>2, <2>3 DEF OrderInv, Sorting
<1> QED BY <1>3, <1>4, <1>5 DEF Next

(* However deep the servers of a room made its events, the sort puts a     *)
(* batch in the order of the depths: always when it is short enough to be  *)
(* sorted by insertion, and when none of its events tie if it is longer.   *)
THEOREM DepthOrderCorrect == Spec => []DepthOrder
<1>1. Init => OrderInv BY TypeInit DEF Init, OrderInv, Sorting, InOrder
<1>2. OrderInv => DepthOrder
  <2> SUFFICES ASSUME OrderInv, Done, NoTie PROVE DepthOrder
    BY DEF DepthOrder, NoTie
  <2>1. DOMAIN batch = 1..sorted BY LenProperties DEF OrderInv, TypeOK, Done
  <2> QED BY <2>1 DEF OrderInv, InOrder, DepthOrder
<1> QED BY <1>1, <1>2, OrderNext, PTL DEF Spec
=============================================================================
