------------------------ MODULE LogRefinementProofs ------------------------
(***************************************************************************)
(* The proof that a log collection implements DocStore.  What the files     *)
(* hold is determined by the documents that were committed (this is what    *)
(* the inductive invariant of LogCollectionProofs gives), so every store    *)
(* into the files is a step of the abstract store or no step at all.        *)
(***************************************************************************)
EXTENDS LogCollectionProofs, SequenceTheorems, FiniteSetTheorems

\* The abstract store, and the documents it holds.
store     == [n \in 1 .. next_id |-> DocOf(n - 1)]
Gone      == [size |-> NF, words |-> "erased"]
Broken    == [size |-> NF, words |-> "damaged"]
Whole(d)  == [size |-> d.size, words |-> [w \in 1 .. d.size |-> d.val]]
Documents == {Whole(d) : d \in Doc}

\* The document of id as the history of commits has it.
View(id) ==
  IF id \in torn \cup InFlight THEN Broken
  ELSE IF committed[id].size = NF THEN Gone ELSE Whole(committed[id])

views == [n \in 1 .. next_id |-> View(n - 1)]

\* The loops of update touch documents that exist, so only these are damaged.
Known ==
  /\ ids # << >> /\ pc \notin {"fill", "fill_id"} => \A k \in 1 .. Len(ids) : ids[k] < next_id
  /\ \A id \in torn : id < next_id

RInv == IInv /\ Known

\* Reading the files of a document gives what was committed last.
LEMMA ViewOfFiles ==
  ASSUME IInv, NEW id \in Ids, id < next_id
  PROVE  DocOf(id) = View(id)
<1>1. CASE id \in torn \cup InFlight
  BY <1>1 DEF DocOf, View, Broken
<1>2. CASE id \notin torn \cup InFlight
  <2>1. Holds(id, committed[id])
    BY <1>2 DEF IInv, ContentInv, StoredDocsIntact
  <2>2. meta[id].size = committed[id].size
    BY <2>1 DEF Holds
  <2>3. CASE committed[id].size = NF
    BY <1>2, <2>2, <2>3 DEF DocOf, View, Gone
  <2>4. CASE committed[id].size # NF
    <3> DEFINE d == committed[id]
    <3>1. d.size \in 0 .. ChunkSize
      BY <2>4, ConstantsAssumption DEF IInv, TypeInv, TypeOK, Doc, Erased, ConstantsAssumption
    <3>2. meta[id].offset \in Nat
      BY ConstantsAssumption DEF IInv, TypeInv, TypeOK, Entry, ConstantsAssumption
    <3>3. ASSUME NEW w \in 1 .. d.size
          PROVE  data[meta[id].chunk][meta[id].offset + w - 1] = d.val
      <4>1. meta[id].offset + w - 1 \in meta[id].offset .. meta[id].offset + d.size - 1
        BY <3>1, <3>2
      <4>2. d.size \notin {0, NF}
        BY <2>4, <3>1
      <4> QED BY <2>1, <4>1, <4>2 DEF Holds
    <3>4. Contents(id) = [w \in 1 .. d.size |-> d.val]
      BY <2>2, <3>3 DEF Contents
    <3> QED BY <1>2, <2>2, <2>4, <3>4 DEF DocOf, View, Whole
  <2> QED BY <2>3, <2>4
<1> QED BY <1>1, <1>2

\* The abstract store in terms of the committed documents.
LEMMA StoreOfViews == IInv => store = views
<1> SUFFICES ASSUME IInv PROVE store = views
  OBVIOUS
<1>1. next_id \in 0 .. MaxDocs
  BY DEF IInv, TypeInv, TypeOK
<1>2. ASSUME NEW n \in 1 .. next_id PROVE DocOf(n - 1) = View(n - 1)
  <2>1. n - 1 \in Ids /\ n - 1 < next_id
    BY <1>1, ConstantsAssumption DEF Ids, ConstantsAssumption
  <2> QED BY <2>1, ViewOfFiles
<1> QED BY <1>2 DEF store, views

\* The same after a step.
LEMMA StoreOfViewsNext == IInv' => (store = views)'
BY StoreOfViews, PTL

\* A step that commits nothing and damages nothing is no step of the store.
LEMMA StoreKept ==
  ASSUME IInv, IInv', UNCHANGED <<next_id, committed>>,
         torn' \cup InFlight' = torn \cup InFlight
  PROVE  store' = store
<1>1. \A id : View(id)' = View(id)
  BY DEF View
<1>2. IInv' => store' = views'
  BY StoreOfViewsNext
<1> QED BY <1>1, <1>2, StoreOfViews DEF views

\* A step that touches the document of one id changes one place of the store.
LEMMA StoreChanged ==
  ASSUME IInv, IInv', UNCHANGED next_id, NEW n \in Ids, n < next_id,
         \A id \in Ids \ {n} : View(id)' = View(id)
  PROVE  /\ n + 1 \in DOMAIN store
         /\ store' = [store EXCEPT ![n + 1] = View(n)']
<1>1. next_id \in 0 .. MaxDocs
  BY DEF IInv, TypeInv, TypeOK
<1>2. n + 1 \in 1 .. next_id
  BY <1>1 DEF Ids
<1>3. IInv' => store' = views'
  BY StoreOfViewsNext
<1>4. ASSUME NEW k \in 1 .. next_id, k # n + 1 PROVE View(k - 1)' = View(k - 1)
  <2>1. k - 1 \in Ids \ {n}
    BY <1>1, <1>4, ConstantsAssumption DEF Ids, ConstantsAssumption
  <2> QED BY <2>1
<1>5. View((n + 1) - 1)' = View(n)'
  <2>1. (n + 1) - 1 = n
    BY DEF Ids
  <2> QED BY <2>1
<1> QED BY <1>2, <1>3, <1>4, <1>5, StoreOfViews DEF views

\* A function that goes on by one place is the sequence with one more element.
LEMMA LongerSeq ==
  ASSUME NEW n \in Nat, NEW S, NEW s \in [1 .. n -> S], NEW e, NEW t,
         t = [k \in 1 .. n + 1 |-> IF k = n + 1 THEN e ELSE s[k]]
  PROVE  t = Append(s, e)
<1> DEFINE T == S \cup {e}
<1>1. s \in [1 .. n -> T] /\ t \in [1 .. n + 1 -> T]
  OBVIOUS
<1>2. s \in Seq(T) /\ t \in Seq(T) /\ Len(s) = n /\ Len(t) = n + 1 /\ e \in T
  BY <1>1, SeqDef
<1> HIDE DEF T
<1>3. /\ Append(s, e) \in Seq(T) /\ Len(Append(s, e)) = n + 1
      /\ \A k \in 1 .. n : Append(s, e)[k] = s[k]
      /\ Append(s, e)[n + 1] = e
  BY <1>2, AppendProperties
<1>4. ASSUME NEW k \in 1 .. n + 1 PROVE t[k] = Append(s, e)[k]
  BY <1>3
<1> QED BY <1>2, <1>3, <1>4, SeqEqual

\* A step that gives out the next id makes the store longer by one.
LEMMA StoreGrown ==
  ASSUME IInv, IInv', NEW n \in Ids, n = next_id, next_id' = n + 1,
         \A id \in Ids : id < next_id => View(id)' = View(id)
  PROVE  store' = Append(store, View(n)')
<1>1. next_id \in Nat /\ n = next_id
  BY DEF Ids
<1>2. IInv' => store' = views'
  BY StoreOfViewsNext
<1>3. ASSUME NEW k \in 1 .. next_id PROVE View(k - 1)' = View(k - 1)
  <2>1. k - 1 \in Ids /\ k - 1 < next_id
    BY <1>1, <1>3, ConstantsAssumption DEF Ids, ConstantsAssumption
  <2> QED BY <2>1
<1>4. View((n + 1) - 1)' = View(n)'
  <2>1. (n + 1) - 1 = n
    BY DEF Ids
  <2> QED BY <2>1
<1>5. store = [k \in 1 .. next_id |-> View(k - 1)]
  BY StoreOfViews DEF views
<1>6. store' = [k \in 1 .. n + 1 |-> IF k = n + 1 THEN View(n)' ELSE store[k]]
  <2>1. store' = [k \in 1 .. n + 1 |-> View(k - 1)']
    BY <1>2 DEF views
  <2>2. ASSUME NEW k \in 1 .. n + 1
        PROVE  View(k - 1)' = IF k = n + 1 THEN View(n)' ELSE store[k]
    <3>1. CASE k = n + 1
      BY <1>4, <3>1
    <3>2. CASE k # n + 1
      <4>1. k \in 1 .. next_id
        BY <1>1, <3>2
      <4> QED BY <1>3, <1>5, <3>2, <4>1
    <3> QED BY <3>1, <3>2
  <2> QED BY <2>1, <2>2
<1>7. n \in Nat /\ store \in [1 .. n -> {View(k - 1) : k \in 1 .. n}]
  BY <1>1, <1>5
<1> QED BY ONLY <1>6, <1>7, LongerSeq, Zenon
----------------------------------------------------------------------------
(* What each step does to the store *)

\* What the abstract store may do in a step.
AbstractStep == Abstract!Next \/ UNCHANGED store

\* The abstract steps, in terms of the abstract store.
LEMMA AbstractSteps ==
  /\ store' = Append(store, Gone) => AbstractStep
  /\ \A d \in Doc : store' = Append(store, Whole(d)) => AbstractStep
  /\ \A n \in 1 .. Len(store) :
       /\ store' = [store EXCEPT ![n] = Broken] => AbstractStep
       /\ store[n] # Gone /\ store' = [store EXCEPT ![n] = Gone] => AbstractStep
       /\ \A d \in Doc : store' = [store EXCEPT ![n] = Whole(d)] => AbstractStep
<1> USE DEF AbstractStep, store, Gone, Broken, Whole
<1>1. store' = Append(store, Gone) => AbstractStep
  BY DEF Abstract!Next, Abstract!Reserve
<1>2. ASSUME NEW d \in Doc, store' = Append(store, Whole(d)) PROVE AbstractStep
  BY <1>2 DEF Abstract!Next, Abstract!Store
<1>3. ASSUME NEW n \in 1 .. Len(store), store' = [store EXCEPT ![n] = Broken]
      PROVE  AbstractStep
  BY <1>3 DEF Abstract!Next, Abstract!Damage
<1>4. ASSUME NEW n \in 1 .. Len(store), store[n] # Gone, store' = [store EXCEPT ![n] = Gone]
      PROVE  AbstractStep
  BY <1>4 DEF Abstract!Next, Abstract!Remove
<1>5. ASSUME NEW n \in 1 .. Len(store), NEW d \in Doc, store' = [store EXCEPT ![n] = Whole(d)]
      PROVE  AbstractStep
  BY <1>5, ZenonT(60) DEF Abstract!Next, Abstract!Replace
<1> QED BY <1>1, <1>2, <1>3, <1>4, <1>5


\* Steps that leave the history of commits alone.
LEMMA Stutter ==
  ASSUME RInv, RInv', UNCHANGED <<next_id, committed>>,
         torn' \cup InFlight' = torn \cup InFlight
  PROVE  AbstractStep
BY StoreKept DEF RInv, AbstractStep

\* Steps that change the document of one id.
LEMMA Change ==
  ASSUME RInv, RInv', UNCHANGED next_id, NEW n \in Ids, n < next_id,
         \A id \in Ids \ {n} : committed'[id] = committed[id],
         (torn' \cup InFlight') \ {n} = (torn \cup InFlight) \ {n},
         \/ View(n)' = Broken
         \/ View(n)' = Gone /\ View(n) # Gone
         \/ \E d \in Doc : View(n)' = Whole(d)
  PROVE  AbstractStep
<1>1. ASSUME NEW id \in Ids \ {n} PROVE View(id)' = View(id)
  BY <1>1 DEF View
<1>2. n + 1 \in DOMAIN store /\ store' = [store EXCEPT ![n + 1] = View(n)']
  BY <1>1, StoreChanged DEF RInv
<1>3. next_id \in Nat /\ DOMAIN store = 1 .. next_id /\ Len(store) = next_id
  BY DEF store, RInv, IInv, TypeInv, TypeOK
<1>4. store[n + 1] = View(n)
  <2>1. (n + 1) - 1 = n
    BY DEF Ids
  <2>2. store[n + 1] = DocOf((n + 1) - 1)
    BY <1>2 DEF store
  <2> QED BY <2>1, <2>2, ViewOfFiles DEF RInv
<1> QED BY <1>2, <1>3, <1>4, AbstractSteps

\* The document update is working on exists.
LEMMA CurrentKnown ==
  ASSUME RInv, ids # << >>, pc \notin {"fill", "fill_id"}, i <= Len(docs)
  PROVE  ids[i] \in Ids /\ ids[i] < next_id
<1>1. i \in 1 .. Len(ids)
  BY DEF RInv, IInv, TypeInv, TypeOK, Control
<1> QED BY <1>1, CurrentId DEF RInv, IInv, TypeInv, Known

\* Damaged documents exist.
LEMMA DamagedKnown ==
  ASSUME RInv PROVE \A id \in torn \cup InFlight : id < next_id
<1>1. pc = "scan_entry" => ids # << >> /\ i <= Len(docs)
  BY DEF RInv, IInv, TypeInv, Control
<1> QED BY <1>1, CurrentKnown DEF InFlight, RInv, Known

\* Steps that give out the next id.
LEMMA Growth ==
  ASSUME RInv, RInv', NEW n \in Ids, n = next_id, next_id' = n + 1,
         NEW d \in Doc \cup {Erased}, committed' = [committed EXCEPT ![n] = d],
         torn' \cup InFlight' = torn \cup InFlight
  PROVE  AbstractStep
<1>1. n \notin torn \cup InFlight
  BY DamagedKnown DEF Ids
<1>2. ASSUME NEW id \in Ids, id < next_id PROVE View(id)' = View(id)
  <2>1. id # n
    BY <1>2 DEF Ids
  <2>2. committed'[id] = committed[id]
    BY <2>1 DEF RInv, IInv, TypeInv, TypeOK
  <2> QED BY <2>2 DEF View
<1>3. store' = Append(store, View(n)')
  BY <1>2, StoreGrown DEF RInv
<1>4. View(n)' = IF d.size = NF THEN Gone ELSE Whole(d)
  BY <1>1 DEF View, RInv, IInv, TypeInv, TypeOK
<1>5. d.size = NF \/ d \in Doc
  BY DEF Erased
<1> QED BY <1>3, <1>4, <1>5, AbstractSteps


\* The steps of the thread that holds the lock.
LEMMA RefineStep ==
  ASSUME RInv, RInv', Step PROVE AbstractStep
<1> USE DEF header, files, ghost, Goto, Return
<1>1. CASE TailStep
  BY <1>1, Stutter DEF TailStep, TailData, TailFull, TailWritten, InFlight
<1>2. CASE AppendId
  <2>1. PICK n \in Ids : n = next_id
    BY <1>2, NextIdType DEF AppendId, RInv, IInv, TypeInv, Control
  <2>2. PICK d \in Doc : d = docs[i]
    BY <1>2, CurrentDoc DEF AppendId, RInv, IInv, TypeInv, Control
  <2>3. /\ next_id' = n + 1 /\ committed' = [committed EXCEPT ![n] = d]
        /\ torn' \cup InFlight' = torn \cup InFlight
    BY <1>2, <2>1, <2>2 DEF AppendId, InFlight
  <2> QED BY <2>1, <2>3, Growth
<1>3. CASE AppendStep /\ ~AppendId
  BY <1>3, Stutter DEF AppendStep, AppendNext, AppendEntry, AppendEntryFails, AppendSize,
     AppendEnd, InFlight
<1>4. CASE FillId
  <2>1. PICK n \in Ids : n = next_id
    BY <1>4, MissingId DEF FillId, RInv, IInv, TypeInv, Control
  <2>2. /\ next_id' = n + 1 /\ committed' = [committed EXCEPT ![n] = Erased]
        /\ torn' \cup InFlight' = torn \cup InFlight
    BY <1>4, <2>1 DEF FillId, InFlight
  <2> QED BY <2>1, <2>2, Growth
<1>5. CASE FillStep /\ ~FillId
  BY <1>5, Stutter DEF FillStep, FillEntry, FillEntryFails, FillEnd, InFlight
<1>6. CASE ScanOverwrite
  <2>1. /\ UNCHANGED <<next_id, committed, torn, ids, i>> /\ ids # << >> /\ i <= Len(docs)
        /\ pc = "scan" /\ pc' = "scan_entry"
    BY <1>6 DEF ScanOverwrite, Fits, Scanning, RInv, IInv, TypeInv, Control
  <2>2. PICK n \in Ids : n = ids[i]
    BY <2>1, CurrentId DEF RInv, IInv, TypeInv
  <2>3. InFlight = {} /\ InFlight' = {n}
    BY <2>1, <2>2 DEF InFlight
  <2>4. n < next_id
    BY <2>1, <2>2, CurrentKnown
  <2>5. View(n)' = Broken
    BY <2>3 DEF View
  <2> QED BY <2>1, <2>3, <2>4, <2>5, Change
<1>7. CASE ScanEntry \/ UpdateEntry
  <2>1. /\ UNCHANGED next_id /\ ids # << >> /\ i <= Len(docs)
        /\ committed' = [committed EXCEPT ![ids[i]] = docs[i]] /\ torn' = torn \ {ids[i]}
        /\ pc' \in {"scan_size", "update_size"}
        /\ pc = "scan_entry" \/ pc = "entry"
    BY <1>7 DEF ScanEntry, UpdateEntry, RInv, IInv, TypeInv, Control
  <2>2. PICK n \in Ids : n = ids[i]
    BY <2>1, CurrentId DEF RInv, IInv, TypeInv
  <2>3. PICK d \in Doc : d = docs[i]
    BY <2>1, CurrentDoc DEF RInv, IInv, TypeInv
  <2>4. InFlight \subseteq {n} /\ InFlight' = {} /\ n \notin torn'
    BY <2>1, <2>2 DEF InFlight
  <2>5. committed'[n] = d /\ \A id \in Ids \ {n} : committed'[id] = committed[id]
    BY <2>1, <2>2, <2>3 DEF RInv, IInv, TypeInv, TypeOK
  <2>6. d.size # NF
    BY ConstantsAssumption DEF Doc, ConstantsAssumption
  <2>7. View(n)' = Whole(d)
    BY <2>4, <2>5, <2>6 DEF View
  <2>8. n < next_id
    BY <2>1, <2>2, CurrentKnown
  <2> QED BY <2>1, <2>2, <2>4, <2>5, <2>7, <2>8, Change
<1>8. CASE ScanStep /\ ~ScanOverwrite /\ ~ScanEntry
  BY <1>8, Stutter DEF ScanStep, ScanUnmapped, ScanSkip, ScanFault, ScanSize, ScanEnd,
     Fits, Scanning, InFlight
<1>9. CASE UpdateStep /\ ~UpdateEntry
  BY <1>9, Stutter DEF UpdateStep, UpdateSkip, UpdateNext, UpdateSize, UpdateEnd, InFlight
<1>10. CASE EraseSize
  BY <1>10, Stutter DEF EraseSize, InFlight
<1> QED BY <1>1, <1>2, <1>3, <1>4, <1>5, <1>6, <1>7, <1>8, <1>9, <1>10
           DEF Step, AppendStep, FillStep, ScanStep, UpdateStep


\* The steps that begin an operation, erase a document, and restart.
LEMMA RefineOther ==
  ASSUME RInv, RInv', Next, ~Step PROVE AbstractStep
<1> USE DEF header, files, ghost, Goto, Return
<1>1. CASE \/ \E b \in AppendBatches : AppendBegin(b)
           \/ \E u \in UpdateBatches : UpdateBegin(u)
  BY <1>1, Stutter DEF AppendBegin, UpdateBegin, InFlight
<1>2. ASSUME NEW n \in Ids, EraseEntry(n) PROVE AbstractStep
  <2>1. /\ UNCHANGED next_id /\ n < next_id /\ meta[n].size # NF
        /\ committed' = [committed EXCEPT ![n] = Erased] /\ torn' = torn \ {n}
        /\ InFlight = {} /\ InFlight' = {}
    BY <1>2 DEF EraseEntry, InFlight
  <2>2. committed'[n] = Erased /\ \A id \in Ids \ {n} : committed'[id] = committed[id]
    BY <2>1 DEF RInv, IInv, TypeInv, TypeOK
  <2>3. View(n)' = Gone
    BY <2>1, <2>2 DEF View, Erased
  <2>4. View(n) # Gone
    <3>1. DocOf(n) # Gone
      BY <2>1 DEF DocOf, Gone
    <3> QED BY <2>1, <3>1, ViewOfFiles DEF RInv
  <2> QED BY <2>1, <2>2, <2>3, <2>4, Change
<1>3. CASE Close \/ Crash \/ Open
  BY <1>3, Stutter DEF Close, Crash, Open, InFlight
<1> QED BY <1>1, <1>2, <1>3 DEF Next

\* The invariant of the refinement is inductive.
LEMMA KnownNext ==
  ASSUME RInv, [Next]_vars, IInv' PROVE Known'
<1> USE DEF header, files, ghost, Goto, Return
<1>0. next_id \in Nat
  BY DEF RInv, IInv, TypeInv, TypeOK
<1>1. CASE FillEnd
  <2>1. \A k \in 1 .. Len(ids) : ids[k] < next_id
    <3>1. \A k \in 1 .. Len(ids) : ids[k] \in Ids
      <4>1. ids \in Seq(Ids)
        BY DEF RInv, IInv, TypeInv, TypeOK
      <4> QED BY <4>1
    <3> QED BY <1>0, <1>1, <3>1 DEF FillEnd, Missing, Ids
  <2>2. UNCHANGED <<next_id, ids, torn>>
    BY <1>1 DEF FillEnd
  <2>3. \A k \in 1 .. Len(ids') : ids'[k] < next_id'
    BY <2>1, <2>2
  <2>4. \A id \in torn' : id < next_id'
    BY <2>2 DEF RInv, Known
  <2> QED BY <2>3, <2>4 DEF Known
<1>2. CASE AppendId \/ FillId
  <2>1. next_id' = next_id + 1 /\ UNCHANGED <<torn, ids>> /\ (ids = << >> \/ pc' = "fill")
    BY <1>2 DEF AppendId, FillId, RInv, IInv, TypeInv, Control
  <2>2. torn \subseteq Ids
    BY DEF RInv, IInv, TypeInv, TypeOK
  <2>3. \A id \in Ids : id < next_id => id < next_id'
    BY <1>0, <2>1 DEF Ids
  <2>4. \A id \in torn' : id < next_id'
    BY <2>1, <2>2, <2>3 DEF RInv, Known
  <2> QED BY <2>1, <2>4 DEF Known
<1>3. CASE TailStep \/ (AppendStep /\ ~AppendId) \/ FillEntry \/ FillEntryFails
  <2>1. CASE TailStep
    <3>1. UNCHANGED <<next_id, torn>> /\ pc \notin {"fill", "fill_id"} /\ ids' \in {ids, << >>}
      BY <2>1 DEF TailStep, TailData, TailFull, TailWritten
    <3> QED BY <3>1 DEF RInv, Known
  <2>2. CASE AppendStep /\ ~AppendId
    <3>1. UNCHANGED <<next_id, torn>> /\ pc \notin {"fill", "fill_id"} /\ ids' \in {ids, << >>}
      BY <2>2 DEF AppendStep, AppendNext, AppendEntry, AppendEntryFails, AppendSize, AppendEnd
    <3> QED BY <3>1 DEF RInv, Known
  <2>3. CASE FillEntry \/ FillEntryFails
    <3>1. UNCHANGED <<next_id, torn>> /\ (pc' = "fill_id" \/ ids' = << >>)
      BY <2>3 DEF FillEntry, FillEntryFails
    <3> QED BY <3>1 DEF RInv, Known
  <2> QED BY <1>3, <2>1, <2>2, <2>3
<1>4. CASE ScanStep
  <2>1. /\ UNCHANGED next_id /\ torn' \subseteq torn /\ pc \notin {"fill", "fill_id"}
        /\ ids' = << >> \/ ids' = ids
    BY <1>4 DEF ScanStep, ScanUnmapped, ScanSkip, ScanOverwrite, ScanFault, ScanEntry, ScanSize,
       ScanEnd, Fits, Scanning
  <2> QED BY <2>1 DEF RInv, Known
<1>5. CASE UpdateStep \/ EraseSize \/ \E n \in Ids : EraseEntry(n)
  <2>1. /\ UNCHANGED next_id /\ torn' \subseteq torn /\ pc \notin {"fill", "fill_id"}
        /\ ids' = << >> \/ ids' = ids
    BY <1>5 DEF UpdateStep, UpdateSkip, UpdateNext, UpdateEntry, UpdateSize, UpdateEnd,
       EraseSize, EraseEntry
  <2> QED BY <2>1 DEF RInv, Known
<1>6. CASE \/ \E b \in AppendBatches : AppendBegin(b)
           \/ \E u \in UpdateBatches : UpdateBegin(u)
  <2>1. UNCHANGED <<next_id, torn>> /\ (ids' = << >> \/ pc' = "fill")
    BY <1>6 DEF AppendBegin, UpdateBegin, RInv, IInv, TypeInv, Control
  <2> QED BY <2>1 DEF RInv, Known
<1>7. CASE Close \/ Crash \/ Open
  <2>1. UNCHANGED next_id /\ torn' \subseteq torn \cup InFlight /\ ids' = << >>
    BY <1>7 DEF Close, Crash, Open, RInv, IInv, TypeInv, Control
  <2> QED BY <2>1, DamagedKnown DEF RInv, Known
<1>8. CASE UNCHANGED vars
  BY <1>8 DEF vars, RInv, Known
<1> QED BY <1>1, <1>2, <1>3, <1>4, <1>5, <1>6, <1>7, <1>8 DEF Next, Step, FillStep, AppendStep

\* The inductive invariant, with the ids that update and crashes refer to.
LEMMA RefinementInvariant == Spec => []RInv
<1>1. RInv /\ [Next]_vars /\ IInv' => RInv'
  BY KnownNext DEF RInv
<1>2. Init /\ IInv => RInv
  BY DEF Init, RInv, Known
<1> QED BY <1>1, <1>2, InductiveInvariant, PTL DEF Spec

\* The files of a collection are a store of documents: whatever append, update
\* and erase do to the metadata, the offsets and the chunks, and wherever the
\* process dies, a client that reads sees documents that get consecutive ids,
\* change one at a time and in one step, and are damaged only by a crash
\* within their own overwriting (DocStore, the promise of collection.h).
THEOREM LogImplementsDocStore == Spec => ImplementsDocStore
<1>1. Init => Abstract!Init
  BY DEF Init, Abstract!Init
<1>2. RInv /\ RInv' /\ [Next]_vars => AbstractStep
  <2> SUFFICES ASSUME RInv, RInv', [Next]_vars PROVE AbstractStep
    OBVIOUS
  <2>1. CASE UNCHANGED vars
    BY <2>1, Stutter DEF vars, InFlight
  <2> QED BY <2>1, RefineStep, RefineOther
<1>3. AbstractStep => [Abstract!Next]_store
  BY DEF AbstractStep
<1> QED BY <1>1, <1>2, <1>3, RefinementInvariant, PTL
        DEF Spec, ImplementsDocStore, Abstract!Spec, store
-----------------------------------------------------------------------------
(***************************************************************************)
(* The two loops of Collection::update, which decide by copies of the       *)
(* entries they took earlier: what an update that reports success has       *)
(* stored, and what the count of documents in the header is worth.          *)
(***************************************************************************)
USE DEF Hdr, InPlace

\* The two conditions on the requests without which the code does not keep
\* the properties (README): a document fits a chunk together with its
\* header; a request names an id once.
DocsFitChunks ==
  \A u \in UpdateBatches : \A k \in 1 .. Len(u.docs) : u.docs[k].size <= ChunkSize - Hdr
IdsNamedOnce ==
  \A u \in UpdateBatches : \A j, k \in 1 .. Len(u.ids) : u.ids[j] = u.ids[k] => j = k

\* Document k was, or will be, overwritten in place by the first loop.
Small(k) == docs[k].size <= entries[k].allocated

\* The documents of the batch that belong to the same id as document k.
Given(k) == {docs[j] : j \in {j \in DOMAIN ids : ids[j] = ids[k]}}
Done(k)  == committed[ids[k]] \in Given(k)

InUpdate == pc \in {"update", "update_size"} \/ (ids # << >> /\ pc \in {"data", "tail", "entry"})

\* The first loop copies one entry per document, the second reads them all.
Copies ==
  /\ pc \in {"idle", "down", "fault", "fill", "fill_id"} => i = 1 /\ entries = << >>
  /\ pc = "scan" => Len(entries) = i - 1
  /\ pc \in {"scan_entry", "scan_size"} => Len(entries) = i
  /\ InUpdate => Len(entries) = Len(docs)

\* How far the batch is stored.
Progress ==
  /\ pc \in {"scan", "scan_entry"} => \A k \in 1 .. i - 1 : Small(k) => Done(k)
  /\ pc = "scan_size" => \A k \in 1 .. i : Small(k) => Done(k)
  /\ InUpdate => \A k \in 1 .. Len(docs) : Small(k) \/ k < i => Done(k)
  /\ pc = "update_size" => Done(i)

\* No document of the batch makes the loop stop early.
NeverTooLong ==
  /\ ids # << >> => \A k \in 1 .. Len(docs) : docs[k].size <= ChunkSize - Hdr
  /\ ids # << >> /\ pc = "data" => next_offset + docs[i].size <= ChunkSize

UInv == RInv /\ Copies /\ Progress /\ NeverTooLong

\* The batch names an id once, and the copies that are yet to be used say
\* what the entries say.
Current ==
  /\ \A j, k \in 1 .. Len(ids) : ids[j] = ids[k] => j = k
  /\ pc = "scan" => \A k \in 1 .. i - 1 : ~Small(k) => entries[k] = meta[ids[k]]
  /\ pc = "scan_entry" => /\ \A k \in 1 .. i - 1 : ~Small(k) => entries[k] = meta[ids[k]]
                          /\ entries[i] = meta[ids[i]] /\ Small(i)
  /\ pc = "scan_size" => /\ \A k \in 1 .. i - 1 : ~Small(k) => entries[k] = meta[ids[k]]
                         /\ Small(i)
  /\ InUpdate => \A k \in 1 .. Len(docs) : k > i /\ ~Small(k) => entries[k] = meta[ids[k]]
  /\ pc = "update" /\ i <= Len(docs) => (~Small(i) => entries[i] = meta[ids[i]])
  /\ ids # << >> /\ pc \in {"data", "tail", "entry"}
       => ~Small(i) /\ entries[i] = meta[ids[i]]

\* What the count owes to the entries between the two stores.
Owed ==
  CASE pc = "append_size"                                         -> 1
    [] pc \in {"scan_size", "update_size"} /\ entries[i].size = NF -> 1
    [] pc = "erase_size"                                          -> -1
    [] OTHER                                                      -> 0

CountInv ==
  \E d \in -crashes .. crashes : coll_size = (Cardinality(Live) - Owed + d) % (NF + 1)

CInv == RInv /\ Copies /\ Current /\ CountInv

----------------------------------------------------------------------------
(* The loops and their copies *)

\* The types of the arguments and locals of update.
LEMMA UpdateTypes ==
  ASSUME RInv
  PROVE  /\ docs \in Seq(Doc) /\ ids \in Seq(Ids) /\ entries \in Seq(Entry)
         /\ i \in 1 .. Len(docs) + 1 /\ Len(docs) \in Nat
         /\ committed \in [Ids -> Doc \cup {Erased}] /\ meta \in [Ids -> Entry]
         /\ next_id \in 0 .. MaxDocs /\ next_offset \in Hdr .. ChunkSize
         /\ ids # << >> => Len(ids) = Len(docs)
BY DEF RInv, IInv, TypeInv, TypeOK, Control

\* The first loop goes on copying entries.
LEMMA CopyEntry ==
  ASSUME RInv, NEW e \in Entry, entries' = Append(entries, e)
  PROVE  /\ Len(entries') = Len(entries) + 1 /\ entries'[Len(entries) + 1] = e
         /\ \A k \in 1 .. Len(entries) : entries'[k] = entries[k]
BY UpdateTypes, AppendProperties

\* The loops and the copies stay in step.
LEMMA CopiesNext ==
  ASSUME RInv, Copies, [Next]_vars PROVE Copies'
<1> USE DEF header, files, ghost, Goto, Return
<1>1. CASE TailStep
  BY <1>1 DEF TailStep, TailData, TailFull, TailWritten, Copies, InUpdate
<1>2. CASE AppendStep
  <2>1. ids = << >> /\ pc \notin {"update", "update_size"}
    BY <1>2 DEF AppendStep, AppendNext, AppendEntry, AppendEntryFails, AppendId, AppendSize,
       AppendEnd, RInv, IInv, TypeInv, Control
  <2> QED BY <1>2, <2>1 DEF AppendStep, AppendNext, AppendEntry, AppendEntryFails, AppendId,
          AppendSize, AppendEnd, Copies, InUpdate
<1>3. CASE FillStep
  <2>1. CASE FillEnd
    <3>1. i' = 1 /\ entries' = << >> /\ pc' = "scan"
      BY <2>1 DEF FillEnd, Copies
    <3> QED BY <3>1 DEF Copies, InUpdate
  <2>2. CASE FillStep /\ ~FillEnd
    BY <2>2 DEF FillStep, FillEntry, FillEntryFails, FillId, Copies, InUpdate
  <2> QED BY <1>3, <2>1, <2>2
<1>4. CASE ScanSkip \/ ScanOverwrite
  <2>1. /\ pc = "scan" /\ i <= Len(docs) /\ ids # << >>
        /\ entries' = Append(entries, meta[ids[i]])
        /\ (pc' = "scan" /\ i' = i + 1) \/ (pc' = "scan_entry" /\ i' = i)
    <3>1. CASE ScanSkip
      BY <3>1 DEF ScanSkip, Scanning, RInv, IInv, TypeInv, Control
    <3>2. CASE ScanOverwrite
      BY <3>2 DEF ScanOverwrite, Fits, Scanning, RInv, IInv, TypeInv, Control
    <3> QED BY <1>4, <3>1, <3>2
  <2>2. meta[ids[i]] \in Entry
    BY <2>1, CurrentId DEF RInv, IInv, TypeInv
  <2>3. Len(entries') = Len(entries) + 1
    BY <2>1, <2>2, CopyEntry
  <2>4. Len(entries) = i - 1 /\ i \in Nat
    BY <2>1, UpdateTypes DEF Copies
  <2> QED BY <2>1, <2>3, <2>4 DEF Copies, InUpdate
<1>5. CASE ScanEnd
  <2>1. pc' = "update" /\ i > Len(docs) /\ Len(entries) = i - 1 /\ UNCHANGED <<docs, entries>>
    BY <1>5 DEF ScanEnd, Copies
  <2> QED BY <2>1, UpdateTypes DEF Copies, InUpdate
<1>6. CASE ScanUnmapped \/ ScanFault \/ ScanEntry \/ ScanSize
  BY <1>6, UpdateTypes DEF ScanUnmapped, ScanFault, ScanEntry, ScanSize, Copies, InUpdate
<1>7. CASE UpdateStep
  BY <1>7 DEF UpdateStep, UpdateSkip, UpdateNext, UpdateEntry, UpdateSize, UpdateEnd,
     Copies, InUpdate
<1>8. CASE EraseSize \/ \E id \in Ids : EraseEntry(id)
  BY <1>8 DEF EraseSize, EraseEntry, Copies, InUpdate
<1>9. CASE \/ \E b \in AppendBatches : AppendBegin(b)
           \/ \E u \in UpdateBatches : UpdateBegin(u)
  BY <1>9 DEF AppendBegin, UpdateBegin, Copies, InUpdate
<1>10. CASE Close \/ Crash \/ Open
  BY <1>10 DEF Close, Crash, Open, Copies, InUpdate
<1>11. CASE UNCHANGED vars
  BY <1>11 DEF vars, Copies, InUpdate
<1> QED BY <1>1, <1>2, <1>3, <1>4, <1>5, <1>6, <1>7, <1>8, <1>9, <1>10, <1>11
           DEF Next, Step, ScanStep

----------------------------------------------------------------------------
(* What an update has stored *)

\* A document of the batch that is stored can only be replaced by another
\* one the batch gives for the same id.
LEMMA DoneKept ==
  ASSUME RInv, ids # << >>, UNCHANGED <<ids, docs>>, NEW k \in 1 .. Len(docs), Done(k),
         \/ UNCHANGED committed
         \/ i <= Len(docs) /\ committed' = [committed EXCEPT ![ids[i]] = docs[i]]
  PROVE  Done(k)'
<1>1. CASE UNCHANGED committed
  BY <1>1 DEF Done, Given
<1>2. CASE i <= Len(docs) /\ committed' = [committed EXCEPT ![ids[i]] = docs[i]]
  <2>1. /\ i \in DOMAIN ids /\ k \in DOMAIN ids /\ ids[i] \in Ids /\ ids[k] \in Ids
        /\ committed \in [Ids -> Doc \cup {Erased}]
    BY <1>2, UpdateTypes
  <2>2. Given(k)' = Given(k)
    BY DEF Given
  <2>3. CASE ids[i] = ids[k]
    BY <1>2, <2>1, <2>2, <2>3 DEF Done, Given
  <2>4. CASE ids[i] # ids[k]
    BY <1>2, <2>1, <2>2, <2>4 DEF Done
  <2> QED BY <2>3, <2>4
<1> QED BY <1>1, <1>2

\* The document just stored is one of the batch.
LEMMA DoneNow ==
  ASSUME RInv, ids # << >>, UNCHANGED <<ids, docs>>, i <= Len(docs),
         committed' = [committed EXCEPT ![ids[i]] = docs[i]]
  PROVE  \A k \in 1 .. Len(docs) : k = i => Done(k)'
<1>1. i \in DOMAIN ids /\ ids[i] \in Ids /\ committed \in [Ids -> Doc \cup {Erased}]
  BY UpdateTypes
<1> QED BY <1>1 DEF Done, Given


\* Steps between the commits.
LEMMA ProgressFrame ==
  ASSUME Progress, UNCHANGED <<ids, docs, entries, i, committed>>, InUpdate' => InUpdate,
         pc' \notin {"scan", "scan_entry", "scan_size", "update_size"}
  PROVE  Progress'
<1>1. \A k : Small(k)' = Small(k) /\ Done(k)' = Done(k)
  BY DEF Small, Done, Given
<1> QED BY <1>1 DEF Progress

\* Every step of the loops keeps what is stored.
LEMMA ProgressNext ==
  ASSUME RInv, Copies, Progress, [Next]_vars PROVE Progress'
<1> USE DEF header, files, ghost, Goto, Return
<1>1. CASE TailStep
  <2>1. CASE TailData \/ TailWritten
    BY <2>1, ProgressFrame DEF TailData, TailWritten, InUpdate
  <2>2. CASE TailFull
    BY <2>2 DEF TailFull, Progress, InUpdate
  <2> QED BY <1>1, <2>1, <2>2 DEF TailStep
<1>2. CASE AppendStep
  <2>1. ids = << >> /\ pc \notin {"update", "update_size"}
    BY <1>2 DEF AppendStep, AppendNext, AppendEntry, AppendEntryFails, AppendId, AppendSize,
       AppendEnd, RInv, IInv, TypeInv, Control
  <2> QED BY <1>2, <2>1 DEF AppendStep, AppendNext, AppendEntry, AppendEntryFails, AppendId,
          AppendSize, AppendEnd, Progress, InUpdate
<1>3. CASE FillStep
  <2>1. i = 1 /\ pc' \in {"fill", "fill_id", "idle", "scan"} /\ i' = 1
    BY <1>3 DEF FillStep, FillEntry, FillEntryFails, FillId, FillEnd, Copies
  <2> QED BY <2>1 DEF Progress, InUpdate
<1>4. CASE ScanSkip \/ ScanOverwrite
  <2>1. /\ pc = "scan" /\ i <= Len(docs) /\ ids # << >> /\ Len(entries) = i - 1
        /\ entries' = Append(entries, meta[ids[i]]) /\ UNCHANGED <<docs, ids, committed>>
    BY <1>4 DEF ScanSkip, ScanOverwrite, Fits, Scanning, RInv, IInv, TypeInv, Control, Copies
  <2>2. meta[ids[i]] \in Entry /\ i \in Nat
    BY <2>1, CurrentId, UpdateTypes DEF RInv, IInv, TypeInv
  <2>3. entries'[i] = meta[ids[i]] /\ \A k \in 1 .. i - 1 : entries'[k] = entries[k]
    BY <2>1, <2>2, CopyEntry
  <2>4. \A k \in 1 .. i - 1 : Small(k)' => Done(k)'
    BY <2>1, <2>3 DEF Small, Done, Given, Progress
  <2>5. CASE ScanSkip
    <3>0. ~(docs[i].size <= meta[ids[i]].allocated) /\ pc' = "scan" /\ i' = i + 1
      BY <2>5 DEF ScanSkip
    <3>1. pc' = "scan" /\ i' = i + 1 /\ \A k : k = i => ~Small(k)'
      BY <2>1, <2>3, <3>0 DEF Small
    <3>2. \A k \in 1 .. i' - 1 : Small(k)' => Done(k)'
      BY <2>2, <2>4, <3>1
    <3> QED BY <3>1, <3>2 DEF Progress, InUpdate
  <2>6. CASE ScanOverwrite
    <3>1. pc' = "scan_entry" /\ i' = i
      BY <2>6 DEF ScanOverwrite
    <3> QED BY <2>4, <3>1 DEF Progress, InUpdate
  <2> QED BY <1>4, <2>5, <2>6
<1>5. CASE ScanEntry \/ UpdateEntry
  <2>1. /\ UNCHANGED <<ids, docs, entries, i>> /\ ids # << >> /\ i <= Len(docs)
        /\ committed' = [committed EXCEPT ![ids[i]] = docs[i]]
    BY <1>5 DEF ScanEntry, UpdateEntry, RInv, IInv, TypeInv, Control
  <2>2. \A k \in 1 .. Len(docs) : Done(k) \/ k = i => Done(k)'
    BY <2>1, DoneKept, DoneNow
  <2>3. i \in 1 .. Len(docs) /\ \A k : Small(k)' = Small(k)
    BY <2>1, UpdateTypes DEF Small
  <2>4. CASE ScanEntry
    <3>1. pc = "scan_entry" /\ pc' = "scan_size"
      BY <2>4 DEF ScanEntry
    <3>2. \A k \in 1 .. i : Small(k)' => Done(k)'
      BY <2>2, <2>3, <3>1 DEF Progress
    <3> QED BY <2>1, <3>1, <3>2 DEF Progress, InUpdate
  <2>5. CASE UpdateEntry
    <3>1. InUpdate /\ pc' = "update_size"
      BY <2>1, <2>5 DEF UpdateEntry, InUpdate
    <3> QED BY <2>1, <2>2, <2>3, <3>1 DEF Progress
  <2> QED BY <1>5, <2>4, <2>5
<1>6. CASE ScanSize \/ UpdateSize \/ UpdateSkip
  <2>1. /\ UNCHANGED <<ids, docs, entries, committed>> /\ i' = i + 1 /\ i <= Len(docs)
        /\ i \in Nat
    BY <1>6, UpdateTypes DEF ScanSize, UpdateSize, UpdateSkip, RInv, IInv, TypeInv, Control
  <2>2. \A k : Small(k)' = Small(k) /\ Done(k)' = Done(k)
    BY <2>1 DEF Small, Done, Given
  <2>3. CASE ScanSize
    BY <2>1, <2>2, <2>3 DEF ScanSize, Progress, InUpdate
  <2>4. CASE UpdateSize
    BY <2>1, <2>2, <2>4 DEF UpdateSize, Progress, InUpdate
  <2>5. CASE UpdateSkip
    <3>1. Small(i) /\ pc = "update" /\ pc' = "update"
      BY <2>5 DEF UpdateSkip, Small
    <3> QED BY <2>1, <2>2, <3>1 DEF Progress, InUpdate
  <2> QED BY <1>6, <2>3, <2>4, <2>5
<1>7. CASE ScanEnd
  <2>1. /\ UNCHANGED <<ids, docs, entries, committed>> /\ i' = 1 /\ i > Len(docs)
        /\ pc = "scan" /\ pc' = "update" /\ i \in 1 .. Len(docs) + 1 /\ Len(docs) \in Nat
    BY <1>7, UpdateTypes DEF ScanEnd
  <2>2. \A k : Small(k)' = Small(k) /\ Done(k)' = Done(k)
    BY <2>1 DEF Small, Done, Given
  <2> QED BY <2>1, <2>2 DEF Progress, InUpdate
<1>8. CASE UpdateNext
  BY <1>8, ProgressFrame DEF UpdateNext, InUpdate
<1>9. CASE ScanUnmapped \/ ScanFault \/ UpdateEnd \/ EraseSize \/ Close \/ Crash \/ Open
  BY <1>9 DEF ScanUnmapped, ScanFault, UpdateEnd, EraseSize, Close, Crash, Open,
     Progress, InUpdate
<1>10. CASE \/ \E b \in AppendBatches : AppendBegin(b)
            \/ \E u \in UpdateBatches : UpdateBegin(u)
            \/ \E id \in Ids : EraseEntry(id)
  BY <1>10 DEF AppendBegin, UpdateBegin, EraseEntry, Progress, InUpdate
<1>11. CASE UNCHANGED vars
  <2>1. \A k : Small(k)' = Small(k) /\ Done(k)' = Done(k)
    BY <1>11 DEF vars, Small, Done, Given
  <2> QED BY <1>11, <2>1 DEF vars, Progress, InUpdate
<1> QED BY <1>1, <1>2, <1>3, <1>4, <1>5, <1>6, <1>7, <1>8, <1>9, <1>10, <1>11
           DEF Next, Step, ScanStep, UpdateStep


\* With documents that fit a fresh chunk, the second loop never gives up.
LEMMA NeverTooLongNext ==
  ASSUME DocsFitChunks, RInv, NeverTooLong, [Next]_vars PROVE NeverTooLong'
<1> USE DEF header, files, ghost, Goto, Return
<1>1. CASE UpdateNext
  <2>1. /\ ids # << >> /\ i \in 1 .. Len(docs) /\ pc' = "data" /\ UNCHANGED <<ids, docs, i>>
        /\ MakeRoom /\ next_offset \in Hdr .. ChunkSize
    BY <1>1, UpdateTypes DEF UpdateNext, RInv, IInv, TypeInv, Control
  <2>2. docs[i].size \in 0 .. ChunkSize /\ docs[i].size <= ChunkSize - Hdr
    BY <2>1, CurrentDoc, UpdateTypes DEF RInv, IInv, TypeInv, NeverTooLong
  <2>3. next_offset' + docs[i].size <= ChunkSize
    BY <2>1, <2>2, ConstantsAssumption DEF MakeRoom, ConstantsAssumption
  <2> QED BY <2>1, <2>3 DEF NeverTooLong
<1>2. CASE AppendStep
  <2>1. ids = << >> /\ ids' = << >>
    BY <1>2 DEF AppendStep, AppendNext, AppendEntry, AppendEntryFails, AppendId, AppendSize,
       AppendEnd, RInv, IInv, TypeInv, Control
  <2> QED BY <2>1 DEF NeverTooLong
<1>3. CASE \/ \E b \in AppendBatches : AppendBegin(b)
           \/ \E id \in Ids : EraseEntry(id)
           \/ Close \/ Crash \/ Open \/ EraseSize
  <2>1. ids' = << >>
    BY <1>3 DEF AppendBegin, EraseEntry, Close, Crash, Open, EraseSize, RInv, IInv, TypeInv, Control
  <2> QED BY <2>1 DEF NeverTooLong
<1>4. ASSUME NEW u \in UpdateBatches, UpdateBegin(u) PROVE NeverTooLong'
  BY <1>4 DEF UpdateBegin, NeverTooLong, DocsFitChunks
<1>5. CASE TailStep \/ FillStep
  <2>1. ids' = << >> \/ (UNCHANGED <<ids, docs>> /\ pc' # "data")
    BY <1>5 DEF TailStep, TailData, TailFull, TailWritten, FillStep, FillEntry,
       FillEntryFails, FillId, FillEnd
  <2> QED BY <2>1 DEF NeverTooLong
<1>6. CASE ScanStep
  <2>1. ids' = << >> \/ (UNCHANGED <<ids, docs>> /\ pc' # "data")
    BY <1>6 DEF ScanStep, ScanUnmapped, ScanSkip, ScanOverwrite, ScanFault, ScanEntry,
       ScanSize, ScanEnd
  <2> QED BY <2>1 DEF NeverTooLong
<1>7. CASE UpdateStep /\ ~UpdateNext
  <2>1. ids' = << >> \/ (UNCHANGED <<ids, docs>> /\ pc' # "data")
    BY <1>7 DEF UpdateStep, UpdateSkip, UpdateEntry, UpdateSize, UpdateEnd
  <2> QED BY <2>1 DEF NeverTooLong
<1>8. CASE UNCHANGED vars
  BY <1>8 DEF vars, NeverTooLong
<1> QED BY <1>1, <1>2, <1>3, <1>4, <1>5, <1>6, <1>7, <1>8 DEF Next, Step, UpdateStep

\* The step that ends an update with success.
LEMMA SuccessMeansStored ==
  ASSUME UInv, [Next]_vars, ids # << >>, pc' = "idle", result' = "OK"
  PROVE  \A k \in DOMAIN ids : committed[ids[k]] \in Given(k)
<1> USE DEF header, files, ghost, Goto, Return
<1>0. RInv /\ pc \notin {"idle", "down", "fault", "erase_size"}
  BY DEF UInv, RInv, IInv, TypeInv, Control
<1>1. CASE UpdateEnd
  <2>1. pc = "update" /\ i > Len(docs) /\ DOMAIN ids = 1 .. Len(docs)
    BY <1>0, <1>1, UpdateTypes DEF UpdateEnd
  <2>2. \A k \in 1 .. Len(docs) : k < i
    BY <1>0, <2>1, UpdateTypes
  <2> QED BY <2>1, <2>2 DEF UInv, Progress, InUpdate, Done
<1>2. CASE TailStep
  <2>1. ~TailFull
    <3>1. (next_offset \in Int /\ docs[i].size \in Int /\ ChunkSize \in Int) \/ pc # "data"
      BY <1>0, UpdateTypes, CurrentDoc, ConstantsAssumption
         DEF RInv, IInv, TypeInv, Control, ConstantsAssumption
    <3> QED BY <3>1 DEF TailFull, UInv, NeverTooLong
  <2> QED BY <1>2, <2>1 DEF TailStep, TailData, TailWritten
<1>3. CASE AppendStep
  BY <1>0, <1>3 DEF AppendStep, AppendNext, AppendEntry, AppendEntryFails, AppendId,
     AppendSize, AppendEnd, RInv, IInv, TypeInv, Control
<1>4. CASE FillStep
  BY <1>4 DEF FillStep, FillEntry, FillEntryFails, FillId, FillEnd
<1>5. CASE ScanStep
  BY <1>5 DEF ScanStep, ScanUnmapped, ScanSkip, ScanOverwrite, ScanFault, ScanEntry,
     ScanSize, ScanEnd
<1>6. CASE UpdateStep /\ ~UpdateEnd
  BY <1>6 DEF UpdateStep, UpdateSkip, UpdateNext, UpdateEntry, UpdateSize
<1>7. CASE \/ EraseSize \/ Close \/ Crash \/ Open \/ UNCHANGED vars
           \/ \E id \in Ids : EraseEntry(id)
           \/ \E b \in AppendBatches : AppendBegin(b)
           \/ \E u \in UpdateBatches : UpdateBegin(u)
  BY <1>0, <1>7 DEF EraseSize, Close, Crash, Open, vars, EraseEntry, AppendBegin, UpdateBegin
<1> QED BY <1>1, <1>2, <1>3, <1>4, <1>5, <1>6, <1>7 DEF Next, Step, UpdateStep

\* An update that returns success has stored every document of its batch, for
\* every chunk size and every set of requests whose documents fit a chunk with
\* its header, whatever the batch overwrites in place or moves to the tail and
\* in which order it names the ids.  Without the condition the code returns
\* success from a loop it has left early (553, with the status of line 570).
THEOREM UpdateStoresItsBatch == ASSUME DocsFitChunks PROVE Spec => UpdateOKMeansStored
<1>1. UInv /\ [Next]_vars /\ RInv' => UInv'
  BY CopiesNext, ProgressNext, NeverTooLongNext DEF UInv
<1>2. Init /\ RInv => UInv
  BY DEF Init, UInv, Copies, Progress, NeverTooLong, InUpdate
<1>3. UInv /\ [Next]_vars =>
        [ids # << >> /\ pc' = "idle" /\ result' = "OK"
           => \A k \in DOMAIN ids :
                committed[ids[k]] \in {docs[j] : j \in {j \in DOMAIN ids : ids[j] = ids[k]}}]_vars
  BY SuccessMeansStored DEF Given
<1> QED BY <1>1, <1>2, <1>3, RefinementInvariant, PTL DEF Spec, UpdateOKMeansStored

----------------------------------------------------------------------------
(* What the count is worth *)

\* A copy that is yet to be used belongs to an entry that no step of this
\* update changes before.
LEMMA CurrentNext ==
  ASSUME IdsNamedOnce, RInv, Copies, Current, [Next]_vars PROVE Current'
<1> USE DEF header, files, ghost, Goto, Return
<1> DEFINE Once == \A j, k \in 1 .. Len(ids) : ids[j] = ids[k] => j = k
<1>0. /\ i \in 1 .. Len(docs) + 1 /\ Len(docs) \in Nat /\ ids \in Seq(Ids)
      /\ meta \in [Ids -> Entry] /\ (ids # << >> => Len(ids) = Len(docs)) /\ Once
  BY UpdateTypes DEF Current
<1>1. CASE TailData \/ TailWritten
  <2>1. /\ UNCHANGED <<ids, docs, entries, i, meta>> /\ pc' \in {"tail", "entry"}
        /\ pc \in {"data", "tail"}
    BY <1>1 DEF TailData, TailWritten
  <2>2. \A k : Small(k)' = Small(k)
    BY <2>1 DEF Small
  <2> QED BY <2>1, <2>2 DEF Current, InUpdate
<1>2. CASE AppendStep
  <2>1. ids = << >> /\ ids' = << >> /\ pc' \in {"data", "append_id", "idle", "append_size", "append"}
    BY <1>2 DEF AppendStep, AppendNext, AppendEntry, AppendEntryFails, AppendId, AppendSize,
       AppendEnd, RInv, IInv, TypeInv, Control
  <2> QED BY <2>1 DEF Current, InUpdate
<1>3. CASE FillStep
  <2>1. i' = 1 /\ pc' \in {"fill", "fill_id", "idle", "scan"} /\ ids' \in {ids, << >>}
    BY <1>3 DEF FillStep, FillEntry, FillEntryFails, FillId, FillEnd, Copies
  <2> QED BY <1>0, <2>1 DEF Current, InUpdate
<1>4. CASE ScanSkip \/ ScanOverwrite
  <2>1. /\ pc = "scan" /\ i <= Len(docs) /\ ids # << >> /\ Len(entries) = i - 1
        /\ entries' = Append(entries, meta[ids[i]]) /\ UNCHANGED <<docs, ids, meta>>
    BY <1>4 DEF ScanSkip, ScanOverwrite, Fits, Scanning, RInv, IInv, TypeInv, Control, Copies
  <2>2. meta[ids[i]] \in Entry
    BY <2>1, CurrentId DEF RInv, IInv, TypeInv
  <2>3. entries'[i] = meta[ids[i]] /\ \A k \in 1 .. i - 1 : entries'[k] = entries[k]
    BY <1>0, <2>1, <2>2, CopyEntry
  <2>4. \A k \in 1 .. i - 1 : ~Small(k)' => entries'[k] = meta'[ids'[k]]
    BY <2>1, <2>3 DEF Small, Current
  <2>5. CASE ScanSkip
    <3>1. pc' = "scan" /\ i' = i + 1
      BY <2>5 DEF ScanSkip
    <3>2. \A k \in 1 .. i' - 1 : ~Small(k)' => entries'[k] = meta'[ids'[k]]
      BY <1>0, <2>1, <2>3, <2>4, <3>1
    <3> QED BY <1>0, <2>1, <3>1, <3>2 DEF Current, InUpdate
  <2>6. CASE ScanOverwrite
    <3>1. pc' = "scan_entry" /\ i' = i /\ docs[i].size <= meta[ids[i]].allocated
      BY <2>6 DEF ScanOverwrite, Fits
    <3>2. Small(i)' /\ entries'[i'] = meta'[ids'[i']]
      BY <2>1, <2>3, <3>1 DEF Small
    <3> QED BY <1>0, <2>1, <2>4, <3>1, <3>2 DEF Current, InUpdate
  <2> QED BY <1>4, <2>5, <2>6
<1>5. CASE ScanEntry \/ UpdateEntry
  <2>1. /\ UNCHANGED <<ids, docs, entries, i>> /\ ids # << >> /\ i \in 1 .. Len(docs)
        /\ \A id \in Ids : id # ids[i] => meta'[id] = meta[id]
    BY <1>0, <1>5 DEF ScanEntry, UpdateEntry, RInv, IInv, TypeInv, Control
  <2>2. \A k \in 1 .. Len(docs) : k # i => meta'[ids'[k]] = meta[ids[k]]
    <3> SUFFICES ASSUME NEW k \in 1 .. Len(docs), k # i PROVE meta'[ids[k]] = meta[ids[k]]
      BY <2>1
    <3>1. ids[k] \in Ids /\ ids[k] # ids[i]
      BY <1>0, <2>1
    <3> QED BY <2>1, <3>1
  <2>3. \A k : Small(k)' = Small(k)
    BY <2>1 DEF Small
  <2>4. CASE ScanEntry
    <3>1. pc = "scan_entry" /\ pc' = "scan_size" /\ Small(i)'
      BY <2>1, <2>4 DEF ScanEntry, Current, Small
    <3>2. \A k \in 1 .. i' - 1 : ~Small(k)' => entries'[k] = meta'[ids'[k]]
      BY <1>0, <2>1, <2>2, <2>3, <3>1 DEF Current
    <3> QED BY <1>0, <2>1, <3>1, <3>2 DEF Current, InUpdate
  <2>5. CASE UpdateEntry
    <3>1. InUpdate /\ pc' = "update_size"
      BY <2>1, <2>5 DEF UpdateEntry, InUpdate
    <3> QED BY <1>0, <2>1, <2>2, <2>3, <3>1 DEF Current
  <2> QED BY <1>5, <2>4, <2>5
<1>6. CASE ScanSize \/ UpdateSize \/ UpdateSkip
  <2>1. /\ UNCHANGED <<ids, docs, entries, meta>> /\ i' = i + 1 /\ i \in 1 .. Len(docs)
    BY <1>0, <1>6 DEF ScanSize, UpdateSize, UpdateSkip, RInv, IInv, TypeInv, Control
  <2>2. \A k : Small(k)' = Small(k)
    BY <2>1 DEF Small
  <2>3. CASE ScanSize
    <3>1. pc = "scan_size" /\ pc' = "scan"
      BY <2>3 DEF ScanSize
    <3>2. \A k \in 1 .. i' - 1 : ~Small(k)' => entries'[k] = meta'[ids'[k]]
      BY <1>0, <2>1, <2>2, <3>1 DEF Current
    <3> QED BY <1>0, <2>1, <3>1, <3>2 DEF Current, InUpdate
  <2>4. CASE UpdateSize \/ UpdateSkip
    <3>1. InUpdate /\ pc' = "update"
      BY <2>4 DEF UpdateSize, UpdateSkip, InUpdate
    <3>2. \A k \in 1 .. Len(docs) : k > i /\ ~Small(k) => entries[k] = meta[ids[k]]
      BY <3>1 DEF Current
    <3> QED BY <1>0, <2>1, <2>2, <3>1, <3>2 DEF Current, InUpdate
  <2> QED BY <1>6, <2>3, <2>4
<1>7. CASE ScanEnd
  <2>1. /\ UNCHANGED <<ids, docs, entries, meta>> /\ i' = 1 /\ i > Len(docs)
        /\ pc = "scan" /\ pc' = "update"
    BY <1>7 DEF ScanEnd
  <2>2. \A k : Small(k)' = Small(k)
    BY <2>1 DEF Small
  <2>3. \A k \in 1 .. Len(docs) : ~Small(k) => entries[k] = meta[ids[k]]
    BY <1>0, <2>1 DEF Current
  <2> QED BY <1>0, <2>1, <2>2, <2>3 DEF Current, InUpdate
<1>8. CASE UpdateNext
  <2>1. /\ UNCHANGED <<ids, docs, entries, meta, i>> /\ pc = "update" /\ pc' = "data"
        /\ ~Small(i) /\ i <= Len(docs)
    BY <1>8 DEF UpdateNext, Small
  <2>2. \A k : Small(k)' = Small(k)
    BY <2>1 DEF Small
  <2> QED BY <2>1, <2>2 DEF Current, InUpdate
<1>9. CASE \/ ScanUnmapped \/ ScanFault \/ UpdateEnd \/ EraseSize \/ Close \/ Crash \/ Open
           \/ TailFull \/ (\E b \in AppendBatches : AppendBegin(b))
           \/ \E id \in Ids : EraseEntry(id)
  <2>1. ids' = << >> /\ pc' \in {"idle", "fault", "down", "append", "erase_size"}
    BY <1>9 DEF ScanUnmapped, ScanFault, UpdateEnd, EraseSize, Close, Crash, Open, TailFull,
       AppendBegin, EraseEntry, RInv, IInv, TypeInv, Control
  <2> QED BY <2>1 DEF Current, InUpdate
<1>10. ASSUME NEW u \in UpdateBatches, UpdateBegin(u) PROVE Current'
  BY <1>10 DEF UpdateBegin, IdsNamedOnce, Current, InUpdate
<1>11. CASE UNCHANGED vars
  <2>1. \A k : Small(k)' = Small(k)
    BY <1>11 DEF vars, Small
  <2> QED BY <1>11, <2>1 DEF vars, Current, InUpdate
<1> QED BY <1>1, <1>2, <1>3, <1>4, <1>5, <1>6, <1>7, <1>8, <1>9, <1>10, <1>11
           DEF Next, Step, TailStep, ScanStep, UpdateStep


\* A counter of 64 bits counts modulo NF + 1.
LEMMA IncModulo ==
  ASSUME NEW x \in Int PROVE Inc(x % (NF + 1)) = (x + 1) % (NF + 1)
BY ConstantsAssumption DEF ConstantsAssumption, Inc

LEMMA DecModulo ==
  ASSUME NEW x \in Int PROVE Dec(x % (NF + 1)) = (x - 1) % (NF + 1)
<1>1. NF \in Nat
  BY ConstantsAssumption DEF ConstantsAssumption
<1>2. PICK y \in Int : y = x - 1
  OBVIOUS
<1>3. y % (NF + 1) \in 0 .. NF
  BY <1>1
<1>4. Inc(y % (NF + 1)) = x % (NF + 1)
  <2>1. Inc(y % (NF + 1)) = (y + 1) % (NF + 1)
    BY IncModulo
  <2>2. y + 1 = x
    BY <1>2
  <2> QED BY <2>1, <2>2
<1>5. \A r \in 0 .. NF : Dec(Inc(r)) = r
  BY <1>1 DEF Inc, Dec
<1>6. Dec(Inc(y % (NF + 1))) = y % (NF + 1)
  BY <1>3, <1>5
<1> QED BY <1>2, <1>4, <1>6

\* The documents that are stored can be counted.
LEMMA LiveFinite == IsFiniteSet(Live) /\ Cardinality(Live) \in Nat
<1>1. IsFiniteSet(Ids)
  BY FS_Interval, ConstantsAssumption DEF Ids, ConstantsAssumption
<1>2. Live \subseteq Ids
  BY DEF Live
<1> QED BY <1>1, <1>2, FS_Subset, FS_CardinalityType

\* What is owed at each label.
LEMMA OwedType == Owed \in {-1, 0, 1}
BY DEF Owed

\* A step that changes the count by as much as it changes what is stored, or
\* what is owed.
LEMMA CountMoves ==
  ASSUME RInv, CountInv, UNCHANGED crashes, NEW c \in {-1, 0, 1},
         Cardinality(Live)' - Owed' = Cardinality(Live) - Owed + c,
         coll_size' = IF c = 0 THEN coll_size ELSE IF c = 1 THEN Inc(coll_size) ELSE Dec(coll_size)
  PROVE  CountInv'
<1>1. PICK d \in -crashes .. crashes : coll_size = (Cardinality(Live) - Owed + d) % (NF + 1)
  BY DEF CountInv
<1>2. Cardinality(Live) \in Nat /\ Owed \in Int /\ crashes \in Nat /\ d \in Int
  BY LiveFinite, OwedType, ConstantsAssumption DEF RInv, IInv, TypeInv, TypeOK, ConstantsAssumption
<1> DEFINE x == Cardinality(Live) - Owed + d
<1>3. x \in Int /\ coll_size = x % (NF + 1)
  BY <1>1, <1>2
<1>4. Cardinality(Live)' - Owed' + d = x + c
  BY <1>2
<1>5. coll_size' = (x + c) % (NF + 1)
  <2>1. CASE c = 0
    BY <1>3, <2>1
  <2>2. CASE c = 1
    BY <1>3, <2>2, IncModulo
  <2>3. CASE c = -1
    BY <1>3, <2>3, DecModulo
  <2> QED BY <2>1, <2>2, <2>3
<1>6. coll_size' = (Cardinality(Live)' - Owed' + d) % (NF + 1)
  BY <1>4, <1>5
<1> QED BY <1>6 DEF CountInv


\* The labels between the store of an entry and that of the count.
Counting == {"append_size", "scan_size", "update_size", "erase_size"}

\* Steps that neither store nor erase a document.
LEMMA CountKept ==
  ASSUME RInv, CountInv, UNCHANGED <<crashes, coll_size>>, Live' = Live,
         pc \notin Counting, pc' \notin Counting
  PROVE  CountInv'
<1>1. Owed = 0 /\ Owed' = 0
  BY DEF Owed, Counting
<1> QED BY <1>1, LiveFinite, CountMoves

\* Steps that make a document out of nothing, and the one that erases one.
LEMMA CountPublishes ==
  ASSUME RInv, CountInv, UNCHANGED <<crashes, coll_size>>, NEW n, pc \notin Counting,
         \/ n \notin Live /\ Live' = Live \cup {n} /\ Owed' = 1
         \/ n \in Live /\ Live' = Live /\ Owed' = 0
         \/ n \in Live /\ Live' = Live \ {n} /\ Owed' = -1
  PROVE  CountInv'
<1>1. Owed = 0
  BY DEF Owed, Counting
<1>2. /\ n \notin Live => Cardinality(Live \cup {n}) = Cardinality(Live) + 1
      /\ n \in Live => Cardinality(Live \ {n}) = Cardinality(Live) - 1
  BY LiveFinite, FS_AddElement, FS_RemoveElement
<1>3. Cardinality(Live') - Owed' = Cardinality(Live)
  BY <1>2, LiveFinite
<1> QED BY <1>1, <1>3, LiveFinite, CountMoves

\* The count stays what it is worth.
LEMMA CountNext ==
  ASSUME RInv, RInv', Copies, Current, CountInv, [Next]_vars PROVE CountInv'
<1> USE DEF header, files, ghost, Goto, Return
<1>0. meta \in [Ids -> Entry] /\ next_id \in 0 .. MaxDocs
  BY UpdateTypes
<1>1. CASE TailStep
  BY <1>1, CountKept DEF TailStep, TailData, TailFull, TailWritten, Live, Counting
<1>2. CASE AppendNext \/ AppendEntryFails \/ AppendEnd
  BY <1>2, CountKept DEF AppendNext, AppendEntryFails, AppendEnd, Live, Counting
<1>3. CASE AppendEntry \/ FillEntry
  <2>1. /\ UNCHANGED <<next_id, crashes, coll_size>> /\ pc \notin Counting /\ pc' \notin Counting
        /\ \A id \in Ids : id # next_id => meta'[id] = meta[id]
    BY <1>0, <1>3 DEF AppendEntry, FillEntry, Counting
  <2>2. Live' = Live
    BY <1>0, <2>1 DEF Live, Ids
  <2> QED BY <2>1, <2>2, CountKept
<1>4. CASE AppendId
  <2>1. PICK n \in Ids : n = next_id
    BY <1>4, NextIdType DEF AppendId, RInv, IInv, TypeInv, Control
  <2>2. /\ UNCHANGED <<meta, crashes, coll_size>> /\ next_id' = n + 1 /\ pc' = "append_size"
        /\ meta[n] = TailEntry /\ pc = "append_id" /\ i <= Len(docs)
    BY <1>4, <2>1 DEF AppendId, RInv, IInv, Layout, Pending, TypeInv, Control
  <2>3. meta[n].size # NF
    BY <2>2, CurrentDoc, ConstantsAssumption DEF TailEntry, RInv, IInv, TypeInv, ConstantsAssumption
  <2>4. n \notin Live /\ Live' = Live \cup {n}
    BY <1>0, <2>1, <2>2, <2>3 DEF Live, Ids
  <2>5. Owed' = 1
    BY <2>2 DEF Owed
  <2> QED BY <2>2, <2>4, <2>5, CountPublishes DEF Counting
<1>5. CASE AppendSize
  <2>1. /\ UNCHANGED <<meta, next_id, crashes>> /\ coll_size' = Inc(coll_size)
        /\ Owed = 1 /\ Owed' = 0
    BY <1>5 DEF AppendSize, Owed
  <2>2. Live' = Live
    BY <2>1 DEF Live
  <2> QED BY <2>1, <2>2, LiveFinite, CountMoves
<1>6. CASE FillEntryFails \/ FillEnd
  BY <1>6, CountKept DEF FillEntryFails, FillEnd, Live, Counting
<1>7. CASE FillId
  <2>1. /\ UNCHANGED <<meta, crashes, coll_size>> /\ next_id' = next_id + 1
        /\ pc = "fill_id" /\ pc' = "fill" /\ meta[next_id].size = NF
    BY <1>7 DEF FillId, RInv, IInv, Layout, Pending
  <2>2. Live' = Live
    BY <1>0, <2>1 DEF Live, Ids
  <2> QED BY <2>1, <2>2, CountKept DEF Counting
<1>8. CASE ScanUnmapped \/ ScanSkip \/ ScanOverwrite \/ ScanFault \/ ScanEnd
  BY <1>8, CountKept DEF ScanUnmapped, ScanSkip, ScanOverwrite, ScanFault, ScanEnd,
     Fits, Scanning, Live, Counting
<1>9. CASE ScanEntry \/ UpdateEntry
  <2>1. /\ UNCHANGED <<ids, docs, entries, i, next_id, crashes, coll_size>>
        /\ ids # << >> /\ i <= Len(docs)
        /\ pc \in {"scan_entry", "entry"} /\ pc' \in {"scan_size", "update_size"}
        /\ entries[i] = meta[ids[i]]
    BY <1>9 DEF ScanEntry, UpdateEntry, RInv, IInv, TypeInv, Control, Current
  <2>2. PICK n \in Ids : n = ids[i] /\ n < next_id
    BY <2>1, CurrentKnown
  <2>3. docs[i].size # NF
    BY <2>1, CurrentDoc, ConstantsAssumption DEF RInv, IInv, TypeInv, ConstantsAssumption
  <2>4. meta'[n].size = docs[i].size /\ \A id \in Ids \ {n} : meta'[id] = meta[id]
    <3>1. CASE ScanEntry
      BY <1>0, <2>2, <3>1 DEF ScanEntry, Entry
    <3>2. CASE UpdateEntry
      BY <1>0, <2>2, <3>2 DEF UpdateEntry, TailEntry
    <3> QED BY <1>9, <3>1, <3>2
  <2>5. Live' = Live \cup {n} /\ (n \in Live <=> entries[i].size # NF)
    BY <2>1, <2>2, <2>3, <2>4 DEF Live
  <2>6. Owed' = IF entries[i].size = NF THEN 1 ELSE 0
    BY <2>1 DEF Owed
  <2> QED BY <2>1, <2>5, <2>6, CountPublishes DEF Counting
<1>10. CASE ScanSize \/ UpdateSize
  <2>1. /\ UNCHANGED <<meta, next_id, crashes>> /\ pc \in {"scan_size", "update_size"}
        /\ coll_size' = IF entries[i].size = NF THEN Inc(coll_size) ELSE coll_size
        /\ Owed = (IF entries[i].size = NF THEN 1 ELSE 0) /\ Owed' = 0
    BY <1>10 DEF ScanSize, UpdateSize, Owed, Counted
  <2>2. Live' = Live
    BY <2>1 DEF Live
  <2>3. CASE entries[i].size = NF
    BY <2>1, <2>2, <2>3, LiveFinite, CountMoves
  <2>4. CASE entries[i].size # NF
    BY <2>1, <2>2, <2>4, LiveFinite, CountMoves
  <2> QED BY <2>3, <2>4
<1>11. CASE UpdateSkip \/ UpdateNext \/ UpdateEnd
  BY <1>11, CountKept DEF UpdateSkip, UpdateNext, UpdateEnd, Live, Counting
<1>12. CASE EraseSize
  <2>1. /\ UNCHANGED <<meta, next_id, crashes>> /\ coll_size' = Dec(coll_size)
        /\ Owed = -1 /\ Owed' = 0
    BY <1>12 DEF EraseSize, Owed
  <2>2. Live' = Live
    BY <2>1 DEF Live
  <2> QED BY <2>1, <2>2, LiveFinite, CountMoves
<1>13. ASSUME NEW n \in Ids, EraseEntry(n) PROVE CountInv'
  <2>1. /\ UNCHANGED <<next_id, crashes, coll_size>> /\ n \in Live
        /\ pc = "idle" /\ pc' = "erase_size"
        /\ meta'[n].size = NF /\ \A id \in Ids \ {n} : meta'[id] = meta[id]
    BY <1>0, <1>13 DEF EraseEntry, Live, ErasedEntry
  <2>2. Live' = Live \ {n}
    BY <2>1 DEF Live
  <2>3. Owed' = -1
    BY <2>1 DEF Owed
  <2> QED BY <2>1, <2>2, <2>3, CountPublishes DEF Counting
<1>14. CASE \/ \E b \in AppendBatches : AppendBegin(b)
            \/ \E u \in UpdateBatches : UpdateBegin(u)
            \/ Close \/ Open
  BY <1>14, CountKept DEF AppendBegin, UpdateBegin, Close, Open, Live, Counting
<1>15. CASE Crash
  <2>1. /\ UNCHANGED <<meta, next_id, coll_size>> /\ crashes' = crashes + 1 /\ Owed' = 0
    BY <1>15 DEF Crash, Owed
  <2>2. Live' = Live
    BY <2>1 DEF Live
  <2>3. PICK d \in -crashes .. crashes : coll_size = (Cardinality(Live) - Owed + d) % (NF + 1)
    BY DEF CountInv
  <2>4. crashes \in Nat /\ Owed \in {-1, 0, 1} /\ Cardinality(Live) \in Nat
    BY OwedType, LiveFinite, ConstantsAssumption
       DEF RInv, IInv, TypeInv, TypeOK, ConstantsAssumption
  <2>5. /\ d - Owed \in -crashes' .. crashes'
        /\ Cardinality(Live) - Owed + d = Cardinality(Live') - Owed' + (d - Owed)
    BY <2>1, <2>2, <2>4
  <2>6. coll_size' = (Cardinality(Live') - Owed' + (d - Owed)) % (NF + 1)
    BY <2>1, <2>3, <2>5
  <2> QED BY <2>5, <2>6 DEF CountInv
<1>16. CASE UNCHANGED vars
  <2>1. Live' = Live /\ Owed' = Owed /\ UNCHANGED <<coll_size, crashes>>
    BY <1>16 DEF vars, Live, Owed
  <2> QED BY <2>1 DEF CountInv
<1> QED BY <1>1, <1>2, <1>3, <1>4, <1>5, <1>6, <1>7, <1>8, <1>9, <1>10, <1>11, <1>12, <1>13,
           <1>14, <1>15, <1>16
        DEF Next, Step, AppendStep, FillStep, ScanStep, UpdateStep

\* The count in the header is the number of documents that are stored, up to
\* one for every crash, for every set of requests that name an id once; every
\* way in and out of append, update and erase counts what it does.  A request
\* that names an id twice counts a document twice: the copies of the entries
\* were taken before (495), so the second loop finds it missing again (550).
THEOREM CountExactButForCrashes ==
  ASSUME IdsNamedOnce PROVE Spec => []CollSizeExactButForCrashes
<1>1. CInv /\ [Next]_vars /\ RInv' => CInv'
  BY CopiesNext, CurrentNext, CountNext DEF CInv
<1>2. Init /\ RInv => CInv
  <2> SUFFICES ASSUME Init, RInv PROVE CInv
    OBVIOUS
  <2>1. Copies /\ Current
    BY DEF Init, Copies, Current, InUpdate
  <2>2. Live = {} /\ Owed = 0
    BY ConstantsAssumption DEF Init, Live, Owed, Ids, ConstantsAssumption
  <2>3. Cardinality(Live) - Owed + 0 = 0 /\ 0 \in -crashes .. crashes
    BY <2>2, FS_EmptySet DEF Init
  <2>4. coll_size = (Cardinality(Live) - Owed + 0) % (NF + 1)
    BY <2>3, ConstantsAssumption DEF Init, ConstantsAssumption
  <2>5. CountInv
    BY <2>3, <2>4 DEF CountInv
  <2> QED BY <2>1, <2>5 DEF CInv
<1>3. CInv => CollSizeExactButForCrashes
  <2> SUFFICES ASSUME CInv, pc = "idle"
               PROVE  \E d \in -crashes .. crashes : coll_size = (Cardinality(Live) + d) % (NF + 1)
    BY DEF CollSizeExactButForCrashes
  <2>1. PICK d \in -crashes .. crashes : coll_size = (Cardinality(Live) - Owed + d) % (NF + 1)
    BY DEF CInv, CountInv
  <2>2. Owed = 0 /\ Cardinality(Live) - 0 = Cardinality(Live)
    BY LiveFinite DEF Owed
  <2> QED BY <2>1, <2>2
<1> QED BY <1>1, <1>2, <1>3, RefinementInvariant, PTL DEF Spec
=============================================================================
