------------------------ MODULE LogCollectionProofs ------------------------
(***************************************************************************)
(* Proofs about LogCollection, for every chunk size, every set of requests  *)
(* and every number of documents, chunks and crashes.                       *)
(***************************************************************************)
EXTENDS LogCollection, TLAPS

USE DEF Hdr, NewTail, InPlace, ErasedEntry

\* Documents of the batch that come after the current one.
Left == Len(docs) - i

\* Which arguments and locals are live at which label.
Control ==
  /\ pc \in {"idle", "down", "fault", "erase_size"} => docs = << >> /\ ids = << >>
  /\ pc \in {"append", "append_id", "append_size"} => ids = << >>
  /\ pc \in {"fill", "fill_id", "scan", "scan_entry", "scan_size", "update", "update_size"}
       => ids # << >>
  /\ ids # << >> => Len(ids) = Len(docs)
  /\ pc \in {"data", "tail", "entry", "append_id", "append_size",
             "scan_entry", "scan_size", "update_size"} => i <= Len(docs)
  /\ pc = "fill_id" => Missing

\* There is an id and a chunk for every document that is yet to be stored,
\* and the current one fits where it is being written.
Room ==
  /\ ids = << >> /\ pc \in {"append", "data", "tail", "entry", "append_id"}
       => next_id + Left < MaxDocs
  /\ pc = "append_size" => next_id + Left <= MaxDocs
  /\ pc \in {"append", "update"} => last_chunk_id + Left + 1 < MaxChunks
  /\ pc \in {"data", "tail", "entry", "append_id", "append_size", "update_size"}
       => last_chunk_id + Left < MaxChunks
  /\ pc \in {"fill", "fill_id", "scan", "scan_entry", "scan_size"}
       => last_chunk_id + Len(docs) < MaxChunks
  /\ pc \in {"tail", "entry", "append_id", "append_size", "update_size"}
       => next_offset + docs[i].size <= ChunkSize

TypeInv == TypeOK /\ Control /\ Room

\* The document being handled, and what storing it makes of the files.
LEMMA CurrentDoc ==
  ASSUME TypeOK, i <= Len(docs)
  PROVE  /\ docs[i] \in Doc
         /\ docs[i].size \in 0 .. ChunkSize /\ docs[i].val \in Vals
<1>1. docs \in Seq(Doc) /\ i \in 1 .. Len(docs)
  BY DEF TypeOK
<1>2. docs[i] \in Doc
  BY <1>1
<1> QED BY <1>2 DEF Doc

\* Copying a document leaves words of documents in every chunk (write).
LEMMA StoredType ==
  ASSUME TypeOK, NEW c \in ChunkIds, NEW o, NEW d \in Doc
  PROVE  Stored(c, o, d) \in [ChunkIds -> [Words -> Vals \cup {Nothing}]]
BY DEF TypeOK, Doc, Stored

\* The offset read from the last chunk leaves room for its header.
LEMMA TailOffsetType ==
  ASSUME TypeOK, ConstantsAssumption
  PROVE  TailOffset \in Hdr .. ChunkSize
BY DEF TypeOK, TailOffset, ConstantsAssumption

\* The files of a new collection, and no operation running.
LEMMA TypeInit == Init => TypeInv
<1> SUFFICES ASSUME Init PROVE TypeInv
  OBVIOUS
<1> USE ConstantsAssumption DEF ConstantsAssumption, Init
<1>1. meta \in [Ids -> Entry]
  BY DEF Entry, NoEntry, Ids, ChunkIds
<1>2. TypeOK
  BY <1>1 DEF TypeOK, Ids, ChunkIds, Words, Doc, Erased, Labels
<1>3. Control /\ Room
  BY DEF Control, Room
<1> QED BY <1>2, <1>3 DEF TypeInv


\* Every way out of an operation leaves the same locals.
LEMMA TypeReturn ==
  ASSUME TypeInv, NEW l \in {"idle", "down", "fault"}, NEW s \in {"OK", "SizeError"},
         Return(l, s),
         coll_size' \in 0 .. NF, UNCHANGED <<next_id, last_chunk_id, meta, files, committed>>,
         mapped' \in Nat, mapped' >= InitSlots,
         crashes' \in 0 .. MaxCrashes, torn' \subseteq Ids
  PROVE  TypeInv'
<1> USE ConstantsAssumption DEF ConstantsAssumption, TypeInv, Return, files
<1>1. docs' \in Seq(Doc) /\ ids' \in Seq(Ids) /\ entries' \in Seq(Entry)
  OBVIOUS
<1>2. i' \in 1 .. Len(docs') + 1
  OBVIOUS
<1>3. TypeOK'
  BY <1>1, <1>2 DEF TypeOK, Labels
<1>4. Control' /\ Room'
  BY DEF Control, Room
<1> QED BY <1>3, <1>4

\* Opening a chunk for the current document keeps within the bounds.
LEMMA MakeRoomType ==
  ASSUME TypeOK, ConstantsAssumption, MakeRoom, i <= Len(docs),
         last_chunk_id + Left + 1 < MaxChunks
  PROVE  /\ last_chunk_id' \in ChunkIds /\ next_offset' \in Hdr .. ChunkSize
         /\ last_chunk_id' + Left < MaxChunks
<1> USE DEF ConstantsAssumption, ChunkIds, Left
<1>1. /\ last_chunk_id \in ChunkIds /\ next_offset \in Hdr .. ChunkSize
      /\ Len(docs) \in Nat /\ i \in 1 .. Len(docs)
  BY DEF TypeOK
<1>2. CASE docs[i].size > ChunkSize - next_offset
  BY <1>1, <1>2 DEF MakeRoom
<1>3. CASE ~(docs[i].size > ChunkSize - next_offset)
  BY <1>1, <1>3 DEF MakeRoom
<1> QED BY <1>2, <1>3

\* Copying the document and the new offset to the tail.
LEMMA TypeTail ==
  ASSUME TypeInv, TailStep PROVE TypeInv'
<1> USE ConstantsAssumption DEF ConstantsAssumption, TypeInv, Goto, header, files, ghost
<1>1. CASE TailData
  <2>1. i <= Len(docs) /\ last_chunk_id \in ChunkIds
    BY <1>1 DEF TailData, Control, TypeOK
  <2>2. data' \in [ChunkIds -> [Words -> Vals \cup {Nothing}]]
    BY <1>1, <2>1, CurrentDoc, StoredType DEF TailData
  <2>3. TypeOK'
    BY <1>1, <2>2 DEF TailData, TypeOK, Labels
  <2>4. Control' /\ Room'
    BY <1>1 DEF TailData, Control, Room, Left
  <2> QED BY <2>3, <2>4
<1>2. CASE TailFull
  BY <1>2, TypeReturn DEF TailFull, TypeOK
<1>3. CASE TailWritten
  <2>1. i <= Len(docs)
    BY <1>3 DEF TailWritten, Control
  <2>2. TypeOK'
    BY <1>3, <2>1, CurrentDoc, SMTT(30) DEF TailWritten, TypeOK, Labels, Room
  <2>3. Control' /\ Room'
    BY <1>3 DEF TailWritten, Control, Room, Left
  <2> QED BY <2>2, <2>3
<1> QED BY <1>1, <1>2, <1>3 DEF TailStep

\* The steps of append.
LEMMA TypeAppend ==
  ASSUME TypeInv, AppendStep PROVE TypeInv'
<1> USE ConstantsAssumption DEF ConstantsAssumption, TypeInv, Goto, header, files, ghost
<1>1. CASE AppendNext
  <2>1. last_chunk_id + Left + 1 < MaxChunks
    BY <1>1 DEF AppendNext, Room
  <2>2. /\ last_chunk_id' \in ChunkIds /\ next_offset' \in Hdr .. ChunkSize
        /\ last_chunk_id' + Left < MaxChunks
    BY <1>1, <2>1, MakeRoomType DEF AppendNext
  <2>3. TypeOK'
    BY <1>1, <2>2 DEF AppendNext, TypeOK, Labels
  <2>4. Control' /\ Room'
    BY <1>1, <2>2 DEF AppendNext, Control, Room, Left
  <2> QED BY <2>3, <2>4
<1>2. CASE AppendEntry
  <2>1. docs[i].size \in 0 .. ChunkSize
    BY <1>2, CurrentDoc DEF AppendEntry, Control
  <2>2. TailEntry \in Entry
    BY <2>1 DEF TailEntry, Entry, TypeOK
  <2>3. meta' \in [Ids -> Entry]
    BY <1>2, <2>2 DEF AppendEntry, TypeOK
  <2>4. mapped' \in Nat /\ mapped' >= InitSlots
    BY <1>2 DEF AppendEntry, Extended, TypeOK
  <2>5. TypeOK'
    BY <1>2, <2>3, <2>4 DEF AppendEntry, TypeOK, Labels
  <2>6. Control' /\ Room'
    BY <1>2 DEF AppendEntry, Control, Room, Left
  <2> QED BY <2>5, <2>6
<1>3. CASE AppendEntryFails
  BY <1>3, TypeReturn DEF AppendEntryFails, Extended, Mapped, TypeOK
<1>4. CASE AppendId
  <2>0. i <= Len(docs) /\ ids = << >> /\ Len(docs) \in Nat /\ i \in Nat
    BY <1>4 DEF AppendId, Control, TypeOK
  <2>1. docs[i] \in Doc
    BY <2>0, CurrentDoc
  <2>2. next_id < MaxDocs
    BY <1>4, <2>0 DEF AppendId, Room, Left, TypeOK
  <2>3. committed' \in [Ids -> Doc \cup {Erased}]
    BY <1>4, <2>1 DEF AppendId, TypeOK
  <2>4. TypeOK'
    BY <1>4, <2>2, <2>3 DEF AppendId, TypeOK, Labels
  <2>5. Control' /\ Room'
    BY <1>4 DEF AppendId, TypeOK, Control, Room, Left
  <2> QED BY <2>4, <2>5
<1>5. CASE AppendSize
  <2>1. docs[i].size \in 0 .. ChunkSize
    BY <1>5, CurrentDoc DEF AppendSize, Control
  <2>2. /\ coll_size' \in 0 .. NF /\ next_offset' \in Hdr .. ChunkSize
        /\ i' \in 1 .. Len(docs) + 1
    BY <1>5, <2>1, SMTT(30) DEF AppendSize, Inc, TypeOK, Control, Room
  <2>3. TypeOK'
    BY <1>5, <2>2 DEF AppendSize, TypeOK, Labels
  <2>4. Control' /\ Room'
    BY <1>5 DEF AppendSize, TypeOK, Control, Room, Left, ChunkIds
  <2> QED BY <2>3, <2>4
<1>6. CASE AppendEnd
  BY <1>6, TypeReturn DEF AppendEnd, TypeOK
<1> QED BY <1>1, <1>2, <1>3, <1>4, <1>5, <1>6 DEF AppendStep

\* The empty entries update creates for ids beyond the last one.
LEMMA TypeFill ==
  ASSUME TypeInv, FillStep PROVE TypeInv'
<1> USE ConstantsAssumption DEF ConstantsAssumption, TypeInv, Goto, header, files, ghost
<1>1. CASE FillEntry
  <2>1. [chunk |-> last_chunk_id, offset |-> NF, size |-> NF, allocated |-> 0] \in Entry
    BY DEF Entry, TypeOK
  <2>2. meta' \in [Ids -> Entry]
    BY <1>1, <2>1 DEF FillEntry, TypeOK
  <2>3. mapped' \in Nat /\ mapped' >= InitSlots
    BY <1>1 DEF FillEntry, Extended, TypeOK
  <2>4. TypeOK'
    BY <1>1, <2>2, <2>3 DEF FillEntry, TypeOK, Labels
  <2>5. Control' /\ Room'
    BY <1>1 DEF FillEntry, Control, Room, Left, Missing
  <2> QED BY <2>4, <2>5
<1>2. CASE FillEntryFails
  BY <1>2, TypeReturn DEF FillEntryFails, Extended, Mapped, TypeOK
<1>3. CASE FillId
  <2>1. next_id < MaxDocs
    BY <1>3 DEF FillId, Control, Missing, TypeOK, Ids
  <2>2. committed' \in [Ids -> Doc \cup {Erased}]
    BY <1>3 DEF FillId, TypeOK
  <2>3. TypeOK'
    BY <1>3, <2>1, <2>2 DEF FillId, TypeOK, Labels
  <2>4. Control' /\ Room'
    BY <1>3 DEF FillId, Control, Room, Left
  <2> QED BY <2>3, <2>4
<1>4. CASE FillEnd
  <2>1. TypeOK'
    BY <1>4 DEF FillEnd, TypeOK, Labels
  <2>2. Control' /\ Room'
    BY <1>4 DEF FillEnd, Control, Room, Left
  <2> QED BY <2>1, <2>2
<1> QED BY <1>1, <1>2, <1>3, <1>4 DEF FillStep

\* The id that goes with the current document.
LEMMA CurrentId ==
  ASSUME TypeOK, Control, ids # << >>, i <= Len(docs)
  PROVE  ids[i] \in Ids /\ meta[ids[i]] \in Entry
<1>1. ids \in Seq(Ids) /\ i \in 1 .. Len(ids)
  BY DEF TypeOK, Control
<1>2. ids[i] \in Ids
  BY <1>1
<1> QED BY <1>2 DEF TypeOK

\* The first loop of update: overwriting in place.
LEMMA TypeScan ==
  ASSUME TypeInv, ScanStep PROVE TypeInv'
<1> USE ConstantsAssumption DEF ConstantsAssumption, TypeInv, Goto, header, files, ghost
<1>1. ASSUME Scanning
      PROVE  /\ ids # << >> /\ i <= Len(docs) /\ docs[i] \in Doc
             /\ ids[i] \in Ids /\ meta[ids[i]] \in Entry
             /\ Append(entries, meta[ids[i]]) \in Seq(Entry)
  BY <1>1, CurrentId, CurrentDoc DEF Scanning, Control, TypeOK
<1>2. CASE ScanUnmapped
  BY <1>2, TypeReturn DEF ScanUnmapped, TypeOK
<1>3. CASE ScanSkip
  <2>1. entries' \in Seq(Entry)
    BY <1>1, <1>3 DEF ScanSkip
  <2>a. i' = i + 1 /\ i <= Len(docs) /\ i \in 1 .. Len(docs) + 1
    BY <1>3 DEF ScanSkip, Scanning, TypeOK
  <2>b. Len(docs) \in Nat
    BY DEF TypeOK
  <2>c. i' \in 1 .. Len(docs) + 1
    BY <2>a, <2>b
  <2>2. TypeOK'
    BY <1>3, <2>1, <2>c DEF ScanSkip, TypeOK, Labels
  <2>3. Control' /\ Room'
    BY <1>3 DEF ScanSkip, Scanning, Control, Room, Left
  <2> QED BY <2>2, <2>3
<1>4. CASE ScanOverwrite
  <2>1. Scanning
    BY <1>4 DEF ScanOverwrite, Fits
  <2>2. CASE docs[i].size = 0
    <3>1. data' = data /\ entries' \in Seq(Entry)
      BY <1>1, <1>4, <2>1, <2>2 DEF ScanOverwrite
    <3>2. TypeOK'
      BY <1>4, <3>1 DEF ScanOverwrite, TypeOK, Labels
    <3> QED BY <3>2, <1>4, <2>1 DEF ScanOverwrite, Scanning, Control, Room, Left
  <2>3. CASE docs[i].size # 0
    <3>0. meta[ids[i]].chunk \in ChunkIds \cup {NF} /\ ~(meta[ids[i]].chunk > last_chunk_id)
      BY <1>1, <1>4, <2>1, <2>3 DEF ScanOverwrite, NullChunk, Entry
    <3>1. meta[ids[i]].chunk \in ChunkIds
      BY <3>0, SMTT(30) DEF TypeOK, ChunkIds
    <3>2. data' \in [ChunkIds -> [Words -> Vals \cup {Nothing}]] /\ entries' \in Seq(Entry)
      BY <1>1, <1>4, <2>1, <2>3, <3>1, StoredType DEF ScanOverwrite
    <3>3. TypeOK'
      BY <1>4, <3>2 DEF ScanOverwrite, TypeOK, Labels
    <3> QED BY <3>3, <1>4, <2>1 DEF ScanOverwrite, Scanning, Control, Room, Left
  <2> QED BY <2>2, <2>3
<1>5. CASE ScanFault
  BY <1>5, TypeReturn DEF ScanFault, TypeOK
<1>6. CASE ScanEntry
  <2>1. docs[i] \in Doc /\ docs[i].size \in 0 .. ChunkSize
    BY <1>6, CurrentDoc DEF ScanEntry, Control
  <2>2. ids[i] \in Ids /\ meta[ids[i]] \in Entry
    BY <1>6, CurrentId DEF ScanEntry, Control
  <2>3. meta' \in [Ids -> Entry]
    BY <1>6, <2>1, <2>2 DEF ScanEntry, TypeOK, Entry
  <2>4. committed' \in [Ids -> Doc \cup {Erased}] /\ torn' \subseteq Ids
    BY <1>6, <2>1 DEF ScanEntry, TypeOK
  <2>5. TypeOK'
    BY <1>6, <2>3, <2>4 DEF ScanEntry, TypeOK, Labels
  <2>6. Control' /\ Room'
    BY <1>6 DEF ScanEntry, Control, Room, Left
  <2> QED BY <2>5, <2>6
<1>7. CASE ScanSize
  <2>1. coll_size' \in 0 .. NF /\ i' \in 1 .. Len(docs) + 1
    BY <1>7 DEF ScanSize, Counted, Inc, TypeOK, Control
  <2>2. TypeOK'
    BY <1>7, <2>1 DEF ScanSize, TypeOK, Labels
  <2>3. Control' /\ Room'
    BY <1>7 DEF ScanSize, Control, Room, Left
  <2> QED BY <2>2, <2>3
<1>8. CASE ScanEnd
  <2>1. next_offset' \in Hdr .. ChunkSize /\ i' \in 1 .. Len(docs) + 1
    BY <1>8, TailOffsetType DEF ScanEnd, TypeOK
  <2>2. TypeOK'
    BY <1>8, <2>1 DEF ScanEnd, TypeOK, Labels
  <2>3. Control' /\ Room'
    BY <1>8 DEF ScanEnd, TypeOK, Control, Room, Left, ChunkIds
  <2> QED BY <2>2, <2>3
<1> QED BY <1>2, <1>3, <1>4, <1>5, <1>6, <1>7, <1>8 DEF ScanStep

\* The second loop of update: appending what did not fit.
LEMMA TypeUpdate ==
  ASSUME TypeInv, UpdateStep PROVE TypeInv'
<1> USE ConstantsAssumption DEF ConstantsAssumption, TypeInv, Goto, header, files, ghost
<1>1. CASE UpdateSkip
  <2>0. /\ Len(docs) \in Nat /\ i \in 1 .. Len(docs) /\ i' = i + 1 /\ docs' = docs
        /\ last_chunk_id \in Nat /\ last_chunk_id + Left + 1 < MaxChunks
    BY <1>1 DEF UpdateSkip, TypeOK, Room, ChunkIds
  <2>1. i' \in 1 .. Len(docs) + 1 /\ last_chunk_id + Left' + 1 < MaxChunks
    BY <2>0 DEF Left
  <2>2. TypeOK'
    BY <1>1, <2>1 DEF UpdateSkip, TypeOK, Labels
  <2>3. Control' /\ Room'
    BY <1>1, <2>1 DEF UpdateSkip, Control, Room
  <2> QED BY <2>2, <2>3
<1>2. CASE UpdateNext
  <2>1. last_chunk_id + Left + 1 < MaxChunks
    BY <1>2 DEF UpdateNext, Room
  <2>2. /\ last_chunk_id' \in ChunkIds /\ next_offset' \in Hdr .. ChunkSize
        /\ last_chunk_id' + Left < MaxChunks
    BY <1>2, <2>1, MakeRoomType DEF UpdateNext
  <2>3. TypeOK'
    BY <1>2, <2>2 DEF UpdateNext, TypeOK, Labels
  <2>4. Control' /\ Room'
    BY <1>2, <2>2 DEF UpdateNext, Control, Room, Left
  <2> QED BY <2>3, <2>4
<1>3. CASE UpdateEntry
  <2>1. docs[i] \in Doc /\ docs[i].size \in 0 .. ChunkSize
    BY <1>3, CurrentDoc DEF UpdateEntry, Control
  <2>2. TailEntry \in Entry
    BY <2>1 DEF TailEntry, Entry, TypeOK
  <2>3. meta' \in [Ids -> Entry] /\ committed' \in [Ids -> Doc \cup {Erased}] /\ torn' \subseteq Ids
    BY <1>3, <2>1, <2>2 DEF UpdateEntry, TypeOK
  <2>4. TypeOK'
    BY <1>3, <2>3 DEF UpdateEntry, TypeOK, Labels
  <2>5. Control' /\ Room'
    BY <1>3 DEF UpdateEntry, Control, Room, Left
  <2> QED BY <2>4, <2>5
<1>4. CASE UpdateSize
  <2>1. docs[i].size \in 0 .. ChunkSize
    BY <1>4, CurrentDoc DEF UpdateSize, Control
  <2>2. /\ coll_size' \in 0 .. NF /\ next_offset' \in Hdr .. ChunkSize
        /\ i' \in 1 .. Len(docs) + 1
    BY <1>4, <2>1 DEF UpdateSize, Counted, Inc, TypeOK, Control, Room
  <2>3. TypeOK'
    BY <1>4, <2>2 DEF UpdateSize, TypeOK, Labels
  <2>4. Control' /\ Room'
    BY <1>4 DEF UpdateSize, TypeOK, Control, Room, Left, ChunkIds
  <2> QED BY <2>3, <2>4
<1>5. CASE UpdateEnd
  BY <1>5, TypeReturn DEF UpdateEnd, TypeOK
<1> QED BY <1>1, <1>2, <1>3, <1>4, <1>5 DEF UpdateStep

\* Entering append or update.
LEMMA TypeBegin ==
  ASSUME TypeInv, BatchesAssumption,
         \/ \E b \in AppendBatches : AppendBegin(b)
         \/ \E u \in UpdateBatches : UpdateBegin(u)
  PROVE  TypeInv'
<1> USE ConstantsAssumption DEF ConstantsAssumption, TypeInv, header, files, ghost
<1>1. ASSUME pc = "idle" PROVE ids = << >> /\ i = 1
  BY <1>1 DEF Control, TypeOK
<1>2. ASSUME NEW b \in AppendBatches, AppendBegin(b) PROVE TypeInv'
  <2>1. docs' \in Seq(Doc) /\ next_offset' \in Hdr .. ChunkSize
    BY <1>2, TailOffsetType DEF AppendBegin, BatchesAssumption
  <2>2. Len(docs') \in Nat
    BY <2>1
  <2>3. TypeOK'
    BY <1>1, <1>2, <2>1, <2>2 DEF AppendBegin, TypeOK, Labels
  <2>4. Control' /\ Room'
    BY <1>1, <1>2, <2>2 DEF AppendBegin, TypeOK, Control, Room, Left, ChunkIds
  <2> QED BY <2>3, <2>4
<1>3. ASSUME NEW u \in UpdateBatches, UpdateBegin(u) PROVE TypeInv'
  <2>1. /\ docs' \in Seq(Doc) /\ ids' \in Seq(Ids) /\ ids' # << >>
        /\ Len(ids') = Len(docs')
    BY <1>3 DEF UpdateBegin, BatchesAssumption
  <2>2. Len(docs') \in Nat
    BY <2>1
  <2>3. TypeOK'
    BY <1>1, <1>3, <2>1, <2>2 DEF UpdateBegin, TypeOK, Labels
  <2>4. Control' /\ Room'
    BY <1>3, <2>1, <2>2 DEF UpdateBegin, Control, Room, Left
  <2> QED BY <2>3, <2>4
<1> QED BY <1>2, <1>3

\* Erasing a document.
LEMMA TypeErase ==
  ASSUME TypeInv, EraseSize \/ \E id \in Ids : EraseEntry(id) PROVE TypeInv'
<1> USE ConstantsAssumption DEF ConstantsAssumption, TypeInv, header, files, ghost
<1>1. ASSUME EraseSize PROVE TypeInv'
  <2>1. coll_size' \in 0 .. NF
    BY <1>1 DEF EraseSize, Dec, TypeOK
  <2> QED BY <1>1, <2>1, TypeReturn DEF EraseSize, TypeOK
<1>2. ASSUME NEW id \in Ids, EraseEntry(id) PROVE TypeInv'
  <2>1. meta[id].allocated \in 0 .. ChunkSize
    BY DEF TypeOK, Entry
  <2>2. meta' \in [Ids -> Entry]
    BY <1>2, <2>1 DEF EraseEntry, TypeOK, Entry
  <2>3. committed' \in [Ids -> Doc \cup {Erased}] /\ torn' \subseteq Ids
    BY <1>2 DEF EraseEntry, TypeOK
  <2>4. TypeOK'
    BY <1>2, <2>2, <2>3 DEF EraseEntry, Goto, TypeOK, Labels
  <2>5. Control' /\ Room'
    BY <1>2 DEF EraseEntry, Goto, Control, Room, Left
  <2> QED BY <2>4, <2>5
<1> QED BY <1>1, <1>2

\* Closing, being killed, opening again.
LEMMA TypeRestart ==
  ASSUME TypeInv, Close \/ Crash \/ Open PROVE TypeInv'
<1> USE ConstantsAssumption DEF ConstantsAssumption, TypeInv, header, files, ghost
<1>1. CASE Close
  BY <1>1 DEF Close, TypeOK, Labels, Control, Room, Left
<1>2. CASE Crash
  <2>1. ids # << >> /\ i <= Len(docs) => ids[i] \in Ids
    BY CurrentId
  <2>2. InFlight \subseteq Ids
    BY <2>1 DEF InFlight, Control
  <2> QED BY <1>2, <2>2, TypeReturn DEF Crash, TypeOK
<1>3. CASE Open
  BY <1>3 DEF Open, TypeOK, Labels, Control, Room, Left
<1> QED BY <1>1, <1>2, <1>3

\* Every step keeps the types, the control state and the room.
LEMMA TypeNext ==
  ASSUME TypeInv, [Next]_vars PROVE TypeInv'
<1>1. CASE UNCHANGED vars
  BY <1>1 DEF vars, TypeInv, TypeOK, Control, Room, Left, Missing
<1>2. CASE Next
  BY <1>2, BatchesAssumption, TypeTail, TypeAppend, TypeFill, TypeScan, TypeUpdate,
     TypeBegin, TypeErase, TypeRestart DEF Next, Step
<1> QED BY <1>1, <1>2

\* The labels of append, update and erase, their arguments and the room they
\* were granted stay in step: what each store of an operation relies on.
THEOREM TypeInvariant == Spec => []TypeInv
<1>1. TypeInv /\ [Next]_vars => TypeInv'
  BY TypeNext
<1> QED BY TypeInit, <1>1, PTL DEF Spec

\* Whatever the requests and the crashes, the header, the entries, the chunks
\* and the locals of append, update and erase stay within their ranges: no
\* document is written outside of a chunk.
THEOREM TypeCorrect == Spec => []TypeOK
<1>1. TypeInv => TypeOK
  BY DEF TypeInv
<1> QED BY TypeInvariant, <1>1, PTL

----------------------------------------------------------------------------
(* Where the documents are *)

\* Only the last chunk and those before it have been written, and the local
\* offset follows the one in the chunk.
TailInv ==
  /\ \A c \in ChunkIds : c > last_chunk_id => tail[c] = 0
  /\ pc \in {"append", "update", "data", "tail"} => next_offset = TailOffset
  /\ pc \in {"entry", "append_id", "append_size", "update_size"}
       => tail[last_chunk_id] = next_offset + docs[i].size

\* A document lies within the space of its entry, and that space between the
\* header and the tail of a chunk that exists.
Placed(id) ==
  /\ meta[id].size # NF => meta[id].size <= meta[id].allocated
  /\ meta[id].chunk = NF => meta[id].size \in {0, NF}
  /\ Owns(id) => /\ meta[id].chunk <= last_chunk_id /\ meta[id].offset \in Words
                 /\ meta[id].offset + meta[id].allocated <= tail[meta[id].chunk]

\* Nothing lies behind the offset at which the current document was written.
Behind == \A id \in Ids : Owns(id) /\ meta[id].chunk = last_chunk_id
            => meta[id].offset + meta[id].allocated <= next_offset

\* What the steps that prepare an entry leave to those that publish it.
Pending ==
  /\ pc \in {"entry", "append_id"} => Behind
  /\ pc = "append_id" => meta[next_id] = TailEntry
  /\ pc = "fill_id" => meta[next_id] =
       [chunk |-> last_chunk_id, offset |-> NF, size |-> NF, allocated |-> 0]
  /\ pc \in {"scan", "scan_entry", "scan_size"} => \A k \in 1 .. Len(ids) : ids[k] < next_id
  /\ pc = "scan_entry" => /\ docs[i].size <= meta[ids[i]].allocated
                          /\ docs[i].size # 0 => meta[ids[i]].chunk # NF

Layout == /\ TailInv /\ Pending /\ ExtentsDisjoint
          /\ \A id \in Ids : id < next_id => Placed(id)

\* The words from offset o of chunk c hold document d.
Written(c, o, d) == \A w \in o .. o + d.size - 1 : data[c][w] = d.val

ContentInv ==
  /\ StoredDocsIntact
  /\ pc \in {"tail", "entry", "append_id"} => Written(last_chunk_id, next_offset, docs[i])
  /\ pc = "scan_entry" /\ docs[i].size # 0
       => Written(meta[ids[i]].chunk, meta[ids[i]].offset, docs[i])

IInv == TypeInv /\ Layout /\ ContentInv

\* What an id may own after a step in terms of what it owned before.
KeepsExtent(id) ==
  Owns(id)' => /\ Owns(id) /\ meta'[id].chunk = meta[id].chunk
               /\ meta'[id].offset = meta[id].offset
               /\ meta'[id].allocated = meta[id].allocated

\* Extents stay apart when every id keeps what it owned or loses it.
LEMMA ApartKept ==
  ASSUME ExtentsDisjoint, \A id \in Ids : KeepsExtent(id)
  PROVE  ExtentsDisjoint'
<1> SUFFICES ASSUME NEW x \in Ids, NEW y \in Ids, x # y, Owns(x)', Owns(y)',
                    meta'[x].chunk = meta'[y].chunk
             PROVE  Extent(x)' \cap Extent(y)' = {}
  BY DEF ExtentsDisjoint
<1>1. Owns(x) /\ Owns(y) /\ meta[x].chunk = meta[y].chunk
  BY DEF KeepsExtent
<1>2. Extent(x)' = Extent(x) /\ Extent(y)' = Extent(y)
  BY DEF KeepsExtent, Extent
<1> QED BY <1>1, <1>2 DEF ExtentsDisjoint

\* Steps that write neither entries nor offsets do not move documents.
LEMMA LayoutFrame ==
  ASSUME Layout, UNCHANGED <<next_id, last_chunk_id, meta, tail>>
  PROVE  /\ ExtentsDisjoint'
         /\ \A id \in Ids : id < next_id' => Placed(id)'
         /\ \A c \in ChunkIds : c > last_chunk_id' => tail'[c] = 0
<1>1. ExtentsDisjoint'
  BY ApartKept DEF Layout, KeepsExtent, Owns
<1>2. \A id \in Ids : id < next_id' => Placed(id)'
  BY DEF Layout, Placed, Owns
<1> QED BY <1>1, <1>2 DEF Layout, TailInv

\* Leaving an operation, and standing still.
LEMMA LayoutReturn ==
  ASSUME Layout, pc' \in {"idle", "down", "fault"},
         UNCHANGED <<next_id, last_chunk_id, meta, tail>>
  PROVE  Layout'
<1>1. TailInv' /\ Pending'
  BY LayoutFrame DEF TailInv, Pending
<1> QED BY <1>1, LayoutFrame DEF Layout

\* The offset at the tail grows over the document just copied.
LEMMA LayoutTail ==
  ASSUME TypeInv, Layout, TailStep PROVE Layout'
<1> USE DEF header, files, ghost
<1>1. CASE TailData
  <2>1. TailInv'
    BY <1>1, LayoutFrame DEF TailData, Goto, Layout, TailInv, TailOffset
  <2>2. Pending'
    BY <1>1 DEF TailData, Goto, Pending
  <2> QED BY <1>1, <2>1, <2>2, LayoutFrame DEF TailData, Layout
<1>2. CASE TailFull
  BY <1>2, LayoutReturn DEF TailFull, Return
<1>3. CASE TailWritten
  <2> DEFINE n == next_offset + docs[i].size
  <2>1. /\ last_chunk_id \in ChunkIds /\ next_offset \in Nat /\ docs[i].size \in Nat
        /\ tail \in [ChunkIds -> 0 .. ChunkSize]
    BY <1>3, CurrentDoc DEF TailWritten, TypeInv, TypeOK, Control, ConstantsAssumption
  <2>2. next_offset = TailOffset /\ pc' = "entry"
    BY <1>3 DEF TailWritten, Goto, Layout, TailInv
  <2>3. tail' = [tail EXCEPT ![last_chunk_id] = n] /\ tail[last_chunk_id] <= next_offset
    BY <1>3, <2>1, <2>2 DEF TailWritten, TailOffset
  <2>4. TailInv'
    <3>1. UNCHANGED <<last_chunk_id, next_offset, docs, i>>
      BY <1>3 DEF TailWritten, Goto
    <3>2. tail'[last_chunk_id'] = next_offset' + docs'[i'].size
      BY <2>1, <2>3, <3>1
    <3>3. ASSUME NEW c \in ChunkIds, c > last_chunk_id' PROVE tail'[c] = 0
      <4>1. tail[c] = 0 /\ c # last_chunk_id
        BY <2>1, <3>1, <3>3 DEF Layout, TailInv, ChunkIds
      <4> QED BY <2>1, <2>3, <4>1
    <3> QED BY <2>2, <3>2, <3>3 DEF TailInv
  <2>5. Behind'
    <3> SUFFICES ASSUME NEW id \in Ids, Owns(id), meta[id].chunk = last_chunk_id
                 PROVE  meta[id].offset + meta[id].allocated <= next_offset
      BY <1>3 DEF TailWritten, Behind, Owns
    <3>1. meta[id].offset + meta[id].allocated <= tail[last_chunk_id]
      BY DEF Layout, Placed, Owns
    <3>2. meta[id].offset \in Nat /\ meta[id].allocated \in Nat
      BY DEF TypeInv, TypeOK, Entry, ConstantsAssumption, Layout, Placed, Owns, Words
    <3> QED BY <2>1, <2>3, <3>1, <3>2
  <2>6. Pending'
    BY <2>2, <2>5 DEF Pending
  <2>7. ASSUME NEW id \in Ids, id < next_id' PROVE Placed(id)'
    <3>1. Placed(id) /\ next_id' = next_id /\ last_chunk_id' = last_chunk_id /\ meta' = meta
      BY <1>3, <2>7 DEF TailWritten, Layout
    <3>2. CASE Owns(id)
      <4>1. meta[id].chunk \in ChunkIds /\ meta[id].allocated \in Nat /\ meta[id].offset \in Nat
        BY <3>2 DEF TypeInv, TypeOK, Entry, Owns, Placed, Layout, Words
      <4>2. tail'[meta[id].chunk] >= tail[meta[id].chunk]
        BY <2>1, <2>3, <4>1
      <4>3. tail'[meta[id].chunk] \in Nat /\ tail[meta[id].chunk] \in Nat
        BY <2>1, <2>3, <4>1
      <4> QED BY <3>1, <3>2, <4>1, <4>2, <4>3 DEF Placed, Owns
    <3>3. CASE ~Owns(id)
      BY <3>1, <3>3 DEF Placed, Owns
    <3> QED BY <3>2, <3>3
  <2>8. ExtentsDisjoint'
    BY <1>3, ApartKept DEF TailWritten, Layout, KeepsExtent, Owns
  <2> QED BY <2>4, <2>6, <2>7, <2>8 DEF Layout
<1> QED BY <1>1, <1>2, <1>3 DEF TailStep

\* Making room keeps the offset in step with the last chunk.
LEMMA LayoutRoom ==
  ASSUME TypeInv, Layout, MakeRoom, i <= Len(docs), last_chunk_id + Left + 1 < MaxChunks,
         next_offset = TailOffset, UNCHANGED <<next_id, meta, tail>>, pc' = "data"
  PROVE  Layout'
<1> USE ConstantsAssumption DEF ConstantsAssumption
<1>1. /\ last_chunk_id' \in ChunkIds /\ last_chunk_id \in ChunkIds
      /\ last_chunk_id' >= last_chunk_id
  <2>1. last_chunk_id' \in ChunkIds /\ last_chunk_id \in ChunkIds
    BY MakeRoomType DEF TypeInv, TypeOK
  <2> QED BY <2>1 DEF MakeRoom, ChunkIds
<1>2. \A c \in ChunkIds : c > last_chunk_id' => tail'[c] = 0
  BY <1>1 DEF Layout, TailInv, ChunkIds
<1>3. next_offset' = TailOffset'
  <2>1. CASE docs[i].size > ChunkSize - next_offset
    <3>1. last_chunk_id' = last_chunk_id + 1 /\ next_offset' = Hdr
      BY <2>1 DEF MakeRoom
    <3>2. tail[last_chunk_id'] = 0
      BY <1>1, <3>1 DEF Layout, TailInv, ChunkIds
    <3> QED BY <3>1, <3>2 DEF TailOffset
  <2>2. CASE ~(docs[i].size > ChunkSize - next_offset)
    BY <2>2 DEF MakeRoom, TailOffset
  <2> QED BY <2>1, <2>2
<1>4. TailInv' /\ Pending'
  BY <1>2, <1>3 DEF TailInv, Pending
<1>5. ASSUME NEW id \in Ids, id < next_id' PROVE Placed(id)'
  <2>1. Placed(id)
    BY <1>5 DEF Layout
  <2>2. meta[id].chunk \in ChunkIds \cup {NF}
    BY DEF TypeInv, TypeOK, Entry
  <2>3. Owns(id) => meta[id].chunk <= last_chunk_id'
    BY <1>1, <2>1, <2>2 DEF Placed, Owns, ChunkIds
  <2> QED BY <2>1, <2>3 DEF Placed, Owns
<1>6. ExtentsDisjoint'
  BY ApartKept DEF Layout, KeepsExtent, Owns
<1> QED BY <1>4, <1>5, <1>6 DEF Layout

\* The document at the tail gets the entry of id n.
LEMMA LayoutPublish ==
  ASSUME TypeInv, Layout, NEW n \in Ids, i <= Len(docs), Behind,
         tail[last_chunk_id] = next_offset + docs[i].size,
         UNCHANGED <<last_chunk_id, tail>>, meta'[n] = TailEntry,
         \A id \in Ids \ {n} : id < next_id' => id < next_id /\ meta'[id] = meta[id]
  PROVE  ExtentsDisjoint' /\ \A id \in Ids : id < next_id' => Placed(id)'
<1> USE ConstantsAssumption DEF ConstantsAssumption
<1>1. /\ last_chunk_id \in ChunkIds /\ next_offset \in Hdr .. ChunkSize
      /\ docs[i].size \in 0 .. ChunkSize /\ tail[last_chunk_id] <= ChunkSize
  BY CurrentDoc DEF TypeInv, TypeOK
<1>2. /\ meta'[n].chunk = last_chunk_id /\ meta'[n].offset = next_offset
      /\ meta'[n].size = docs[i].size /\ meta'[n].allocated = docs[i].size
  BY DEF TailEntry
<1>3. \A id \in Ids \ {n} : KeepsExtent(id)
  BY DEF KeepsExtent, Owns
<1>4. ASSUME NEW x \in Ids \ {n}, Owns(x)', Owns(n)', meta'[x].chunk = meta'[n].chunk
      PROVE  Extent(x)' \cap Extent(n)' = {}
  <2>1. /\ Owns(x) /\ meta[x].chunk = last_chunk_id
        /\ meta'[x].offset = meta[x].offset /\ meta'[x].allocated = meta[x].allocated
    BY <1>2, <1>3, <1>4 DEF KeepsExtent
  <2>2. meta[x].offset + meta[x].allocated <= next_offset
    BY <2>1 DEF Behind
  <2>3. meta[x].offset \in Nat /\ meta[x].allocated \in Nat
    BY <2>1 DEF Layout, Placed, Owns, Words, TypeInv, TypeOK, Entry
  <2> QED BY <1>1, <1>2, <2>1, <2>2, <2>3, SMTT(30) DEF Extent
<1>5. ExtentsDisjoint'
  <2> SUFFICES ASSUME NEW x \in Ids, NEW y \in Ids, x # y, Owns(x)', Owns(y)',
                      meta'[x].chunk = meta'[y].chunk
               PROVE  Extent(x)' \cap Extent(y)' = {}
    BY DEF ExtentsDisjoint
  <2>1. CASE x = n
    BY <2>1, <1>4
  <2>2. CASE y = n
    BY <2>2, <1>4
  <2>3. CASE x # n /\ y # n
    <3>1. Owns(x) /\ Owns(y) /\ meta[x].chunk = meta[y].chunk
      BY <1>3, <2>3 DEF KeepsExtent
    <3>2. Extent(x)' = Extent(x) /\ Extent(y)' = Extent(y)
      BY <1>3, <2>3 DEF KeepsExtent, Extent
    <3> QED BY <3>1, <3>2 DEF Layout, ExtentsDisjoint
  <2> QED BY <2>1, <2>2, <2>3
<1>6. Placed(n)'
  BY <1>1, <1>2 DEF Placed, Owns, Words, ChunkIds
<1>7. ASSUME NEW id \in Ids \ {n}, id < next_id' PROVE Placed(id)'
  <2>1. Placed(id) /\ id < next_id /\ meta'[id] = meta[id]
    BY <1>7 DEF Layout
  <2> QED BY <1>7, <2>1 DEF Placed, Owns
<1> QED BY <1>5, <1>6, <1>7

\* append has an id left for the current document.
LEMMA NextIdType ==
  ASSUME TypeInv, ids = << >>, pc \in {"entry", "append_id"} PROVE next_id \in Ids
<1>1. Len(docs) \in Nat /\ i \in Nat /\ next_id \in Nat /\ MaxDocs \in Nat
  BY ConstantsAssumption DEF ConstantsAssumption, TypeInv, TypeOK
<1>2. i <= Len(docs) /\ next_id + Left < MaxDocs
  BY DEF TypeInv, Control, Room
<1> QED BY <1>1, <1>2 DEF Left, Ids

\* The steps of append publish the extent at the tail, and no other.
LEMMA LayoutAppend ==
  ASSUME TypeInv, Layout, AppendStep PROVE Layout'
<1> USE DEF header, files, ghost
<1>1. CASE AppendNext
  <2>1. last_chunk_id + Left + 1 < MaxChunks /\ next_offset = TailOffset
    BY <1>1 DEF AppendNext, TypeInv, Room, Layout, TailInv
  <2> QED BY <1>1, <2>1, LayoutRoom DEF AppendNext, Goto
<1>2. CASE AppendEntry
  <2>1. next_id \in Nat /\ meta' = [meta EXCEPT ![next_id] = TailEntry]
    BY <1>2 DEF AppendEntry, TypeInv, TypeOK
  <2>2. \A id \in Ids : id < next_id => meta'[id] = meta[id]
    BY <2>1 DEF TypeInv, TypeOK, Ids
  <2>3. next_id \in Ids
    BY <1>2, NextIdType DEF AppendEntry
  <2>4. meta'[next_id] = TailEntry
    BY <2>1, <2>3 DEF TypeInv, TypeOK
  <2>5. TailInv'
    BY <1>2 DEF AppendEntry, Goto, Layout, TailInv
  <2>6. Behind'
    BY <1>2, <2>2 DEF AppendEntry, Layout, Pending, Behind, Owns
  <2>7. Pending'
    BY <1>2, <2>4, <2>6 DEF AppendEntry, Goto, Pending, TailEntry
  <2>8. ExtentsDisjoint'
    BY <1>2, <2>2, ApartKept DEF AppendEntry, Layout, KeepsExtent, Owns
  <2>9. \A id \in Ids : id < next_id' => Placed(id)'
    BY <1>2, <2>2 DEF AppendEntry, Layout, Placed, Owns
  <2> QED BY <2>5, <2>7, <2>8, <2>9 DEF Layout
<1>3. CASE AppendEntryFails
  BY <1>3, LayoutReturn DEF AppendEntryFails, Return
<1>4. CASE AppendId
  <2>1. /\ i <= Len(docs) /\ Behind /\ meta[next_id] = TailEntry
        /\ tail[last_chunk_id] = next_offset + docs[i].size
    BY <1>4 DEF AppendId, TypeInv, Control, Layout, Pending, TailInv
  <2>2. next_id \in Ids /\ next_id' = next_id + 1
    BY <1>4, NextIdType DEF AppendId, TypeInv, Control
  <2>3. ExtentsDisjoint' /\ \A id \in Ids : id < next_id' => Placed(id)'
    BY <1>4, <2>1, <2>2, LayoutPublish DEF AppendId, Ids
  <2>4. TailInv' /\ Pending'
    BY <1>4 DEF AppendId, Goto, Layout, TailInv, Pending
  <2> QED BY <2>3, <2>4 DEF Layout
<1>5. CASE AppendSize
  <2>1. next_offset' = TailOffset'
    BY <1>5, CurrentDoc
    DEF AppendSize, TailOffset, Layout, TailInv, TypeInv, Control, TypeOK
  <2>2. TailInv' /\ Pending'
    BY <1>5, <2>1, LayoutFrame DEF AppendSize, Goto, TailInv, Pending
  <2> QED BY <1>5, <2>2, LayoutFrame DEF AppendSize, Layout
<1>6. CASE AppendEnd
  BY <1>6, LayoutReturn DEF AppendEnd, Return
<1> QED BY <1>1, <1>2, <1>3, <1>4, <1>5, <1>6 DEF AppendStep

\* The id update is about to create is one of those requested or below it.
LEMMA MissingId ==
  ASSUME TypeInv, Missing PROVE next_id \in Ids
<1>1. PICK k \in 1 .. Len(ids) : next_id <= ids[k]
  BY DEF Missing
<1>2. ids[k] \in Ids /\ next_id \in Nat
  BY <1>1 DEF TypeInv, TypeOK
<1> QED BY <1>1, <1>2, ConstantsAssumption DEF Ids, ConstantsAssumption

\* An empty entry owns nothing.
LEMMA LayoutFill ==
  ASSUME TypeInv, Layout, FillStep PROVE Layout'
<1> USE DEF header, files, ghost
<1> DEFINE blank == [chunk |-> last_chunk_id, offset |-> NF, size |-> NF, allocated |-> 0]
<1>1. CASE FillEntry
  <2>1. meta' = [meta EXCEPT ![next_id] = blank] /\ next_id \in Ids
    BY <1>1, MissingId DEF FillEntry
  <2>2. meta'[next_id] = blank /\ \A id \in Ids : id < next_id => meta'[id] = meta[id]
    BY <2>1 DEF TypeInv, TypeOK, Ids
  <2>3. TailInv' /\ Pending'
    BY <1>1, <2>2 DEF FillEntry, Goto, Layout, TailInv, Pending
  <2>4. ExtentsDisjoint'
    BY <1>1, <2>2, ApartKept DEF FillEntry, Layout, KeepsExtent, Owns
  <2>5. \A id \in Ids : id < next_id' => Placed(id)'
    BY <1>1, <2>2 DEF FillEntry, Layout, Placed, Owns
  <2> QED BY <2>3, <2>4, <2>5 DEF Layout
<1>2. CASE FillEntryFails
  BY <1>2, LayoutReturn DEF FillEntryFails, Return
<1>3. CASE FillId
  <2>1. PICK n \in Ids : n = next_id
    BY <1>3, MissingId DEF FillId, TypeInv, Control
  <2>2. meta'[n] = blank /\ next_id' = n + 1 /\ meta' = meta /\ last_chunk_id' = last_chunk_id
    BY <1>3, <2>1 DEF FillId, Layout, Pending
  <2>3. ~Owns(n)'
    BY <2>2 DEF Owns
  <2>4. \A id \in Ids \ {n} : id < next_id' => id < next_id
    BY <2>1, <2>2 DEF Ids
  <2>5. \A id \in Ids : KeepsExtent(id)
    BY <1>3, <2>2, <2>3, <2>4 DEF FillId, KeepsExtent, Owns
  <2>6. ExtentsDisjoint'
    BY <2>5, ApartKept DEF Layout
  <2>7. Placed(n)'
    BY <2>2, <2>3, ConstantsAssumption
    DEF Placed, ConstantsAssumption, TypeInv, TypeOK, ChunkIds
  <2>8. ASSUME NEW id \in Ids \ {n}, id < next_id' PROVE Placed(id)'
    BY <1>3, <2>4, <2>8 DEF FillId, Layout, Placed, Owns
  <2>9. TailInv' /\ Pending'
    BY <1>3 DEF FillId, Goto, Layout, TailInv, Pending
  <2> QED BY <2>6, <2>7, <2>8, <2>9 DEF Layout
<1>4. CASE FillEnd
  <2>1. \A k \in 1 .. Len(ids) : ids[k] < next_id
    <3> SUFFICES ASSUME NEW k \in 1 .. Len(ids) PROVE ids[k] < next_id
      OBVIOUS
    <3>1. ~(next_id <= ids[k])
      BY <1>4 DEF FillEnd, Missing
    <3>2. ids[k] \in Ids /\ next_id \in Nat
      BY DEF TypeInv, TypeOK
    <3> QED BY <3>1, <3>2 DEF Ids
  <2>2. TailInv' /\ Pending'
    BY <1>4, <2>1, LayoutFrame DEF FillEnd, Goto, TailInv, Pending
  <2> QED BY <1>4, <2>2, LayoutFrame DEF FillEnd, Layout
<1> QED BY <1>1, <1>2, <1>3, <1>4 DEF FillStep

\* Overwriting in place changes the size of an entry, not its extent.
LEMMA LayoutScan ==
  ASSUME TypeInv, Layout, ScanStep PROVE Layout'
<1> USE DEF header, files, ghost
<1>1. CASE ScanUnmapped
  BY <1>1, LayoutReturn DEF ScanUnmapped, Return
<1>2. CASE ScanSkip
  <2>1. TailInv' /\ Pending'
    BY <1>2, LayoutFrame DEF ScanSkip, Scanning, Goto, TailInv, Pending, Layout
  <2> QED BY <1>2, <2>1, LayoutFrame DEF ScanSkip, Layout
<1>3. CASE ScanOverwrite
  <2>1. /\ pc' = "scan_entry" /\ docs[i].size <= meta[ids[i]].allocated
        /\ UNCHANGED <<next_id, last_chunk_id, meta, tail, ids, docs, i>>
        /\ \A k \in 1 .. Len(ids) : ids[k] < next_id
    BY <1>3 DEF ScanOverwrite, Fits, Scanning, Goto, Layout, Pending
  <2>2. ASSUME docs[i].size # 0 PROVE meta[ids[i]].chunk # NF
    <3>1. ~(meta[ids[i]].chunk > last_chunk_id)
      BY <1>3, <2>2 DEF ScanOverwrite, NullChunk
    <3> QED BY <3>1, ConstantsAssumption
        DEF ConstantsAssumption, TypeInv, TypeOK, ChunkIds
  <2>3. TailInv' /\ Pending'
    BY <2>1, <2>2, LayoutFrame DEF TailInv, Pending
  <2> QED BY <2>1, <2>3, LayoutFrame DEF Layout
<1>4. CASE ScanFault
  BY <1>4, LayoutReturn DEF ScanFault, Return
<1>5. CASE ScanEntry
  <2>1. /\ pc = "scan_entry" /\ i <= Len(docs) /\ ids # << >>
        /\ docs[i].size <= meta[ids[i]].allocated
        /\ docs[i].size # 0 => meta[ids[i]].chunk # NF
    BY <1>5 DEF ScanEntry, TypeInv, Control, Layout, Pending
  <2>2. ids[i] \in Ids /\ meta[ids[i]] \in Entry
    BY <2>1, CurrentId DEF TypeInv
  <2>3. meta' = [meta EXCEPT ![ids[i]].size = docs[i].size]
    BY <1>5 DEF ScanEntry
  <2>4. /\ meta'[ids[i]].chunk = meta[ids[i]].chunk /\ meta'[ids[i]].offset = meta[ids[i]].offset
        /\ meta'[ids[i]].allocated = meta[ids[i]].allocated /\ meta'[ids[i]].size = docs[i].size
        /\ \A id \in Ids : id # ids[i] => meta'[id] = meta[id]
    BY <2>2, <2>3 DEF TypeInv, TypeOK, Entry
  <2>5. UNCHANGED <<next_id, last_chunk_id, tail>>
    BY <1>5 DEF ScanEntry
  <2>6. \A id \in Ids : Owns(id)' = Owns(id) /\ KeepsExtent(id)
    BY <2>4, <2>5 DEF KeepsExtent, Owns
  <2>7. ExtentsDisjoint'
    BY <2>6, ApartKept DEF Layout
  <2>8. ASSUME NEW id \in Ids, id < next_id' PROVE Placed(id)'
    <3>1. Placed(id)
      BY <2>5, <2>8 DEF Layout
    <3>2. CASE id = ids[i]
      BY <2>1, <2>4, <2>5, <2>6, <3>1, <3>2 DEF Placed
    <3>3. CASE id # ids[i]
      BY <2>4, <2>5, <2>6, <3>1, <3>3 DEF Placed
    <3> QED BY <3>2, <3>3
  <2>9. TailInv' /\ Pending'
    BY <1>5 DEF ScanEntry, Goto, Layout, TailInv, Pending
  <2> QED BY <2>7, <2>8, <2>9 DEF Layout
<1>6. CASE ScanSize
  <2>1. TailInv' /\ Pending'
    BY <1>6, LayoutFrame DEF ScanSize, Goto, TailInv, Pending, Layout
  <2> QED BY <1>6, <2>1, LayoutFrame DEF ScanSize, Layout
<1>7. CASE ScanEnd
  <2>1. TailInv' /\ Pending'
    BY <1>7, LayoutFrame DEF ScanEnd, Goto, TailOffset, TailInv, Pending
  <2> QED BY <1>7, <2>1, LayoutFrame DEF ScanEnd, Layout
<1> QED BY <1>1, <1>2, <1>3, <1>4, <1>5, <1>6, <1>7 DEF ScanStep

\* The last chunk is one of those within the bound.
LEMMA LastChunk ==
  ASSUME TypeInv
  PROVE  /\ last_chunk_id \in ChunkIds /\ last_chunk_id \in Nat /\ last_chunk_id < NF
         /\ \A c \in ChunkIds : tail[c] \in 0 .. ChunkSize
<1>1. last_chunk_id \in ChunkIds /\ tail \in [ChunkIds -> 0 .. ChunkSize]
  BY DEF TypeInv, TypeOK
<1> QED BY <1>1, ConstantsAssumption DEF ChunkIds, ConstantsAssumption

\* The second loop of update moves an entry to the tail.
LEMMA LayoutUpdate ==
  ASSUME TypeInv, Layout, UpdateStep PROVE Layout'
<1> USE DEF header, files, ghost
<1>1. CASE UpdateSkip
  <2>1. TailInv' /\ Pending'
    BY <1>1, LayoutFrame DEF UpdateSkip, Goto, TailOffset, TailInv, Pending, Layout
  <2> QED BY <1>1, <2>1, LayoutFrame DEF UpdateSkip, Layout
<1>2. CASE UpdateNext
  <2>1. last_chunk_id + Left + 1 < MaxChunks /\ next_offset = TailOffset
    BY <1>2 DEF UpdateNext, TypeInv, Room, Layout, TailInv
  <2> QED BY <1>2, <2>1, LayoutRoom DEF UpdateNext, Goto
<1>3. CASE UpdateEntry
  <2>1. /\ i <= Len(docs) /\ Behind /\ ids # << >>
        /\ tail[last_chunk_id] = next_offset + docs[i].size
    BY <1>3 DEF UpdateEntry, TypeInv, Control, Layout, Pending, TailInv
  <2>2. PICK n \in Ids : n = ids[i]
    BY <2>1, CurrentId DEF TypeInv
  <2>3. /\ meta'[n] = TailEntry /\ \A id \in Ids \ {n} : meta'[id] = meta[id]
        /\ UNCHANGED <<next_id, last_chunk_id, tail>>
    BY <1>3, <2>2 DEF UpdateEntry, TypeInv, TypeOK
  <2>4. ExtentsDisjoint' /\ \A id \in Ids : id < next_id' => Placed(id)'
    BY <2>1, <2>3, LayoutPublish
  <2>5. TailInv' /\ Pending'
    BY <1>3 DEF UpdateEntry, Goto, Layout, TailInv, Pending
  <2> QED BY <2>4, <2>5 DEF Layout
<1>4. CASE UpdateSize
  <2>1. next_offset' = TailOffset'
    BY <1>4, CurrentDoc
    DEF UpdateSize, TailOffset, Layout, TailInv, TypeInv, Control, TypeOK
  <2>2. TailInv' /\ Pending'
    BY <1>4, <2>1, LayoutFrame DEF UpdateSize, Goto, TailInv, Pending
  <2> QED BY <1>4, <2>2, LayoutFrame DEF UpdateSize, Layout
<1>5. CASE UpdateEnd
  BY <1>5, LayoutReturn DEF UpdateEnd, Return
<1> QED BY <1>1, <1>2, <1>3, <1>4, <1>5 DEF UpdateStep

\* Entering an operation reads the offset of the tail.
LEMMA LayoutBegin ==
  ASSUME TypeInv, Layout,
         \/ \E b \in AppendBatches : AppendBegin(b)
         \/ \E u \in UpdateBatches : UpdateBegin(u)
  PROVE  Layout'
<1> USE DEF header, files, ghost
<1>1. ASSUME NEW b \in AppendBatches, AppendBegin(b) PROVE Layout'
  <2>1. TailInv' /\ Pending'
    BY <1>1, LayoutFrame DEF AppendBegin, TailOffset, TailInv, Pending
  <2> QED BY <1>1, <2>1, LayoutFrame DEF AppendBegin, Layout
<1>2. ASSUME NEW u \in UpdateBatches, UpdateBegin(u) PROVE Layout'
  <2>1. TailInv' /\ Pending'
    BY <1>2, LayoutFrame DEF UpdateBegin, TailInv, Pending
  <2> QED BY <1>2, <2>1, LayoutFrame DEF UpdateBegin, Layout
<1> QED BY <1>1, <1>2

\* An erased entry owns nothing.
LEMMA LayoutErase ==
  ASSUME TypeInv, Layout, EraseSize \/ \E id \in Ids : EraseEntry(id) PROVE Layout'
<1> USE DEF header, files, ghost
<1>1. ASSUME EraseSize PROVE Layout'
  BY <1>1, LayoutReturn DEF EraseSize, Return
<1>2. ASSUME NEW n \in Ids, EraseEntry(n) PROVE Layout'
  <2>1. /\ meta' = [meta EXCEPT ![n] = [chunk |-> NF, offset |-> NF, size |-> NF,
                                      allocated |-> meta[n].allocated]]
        /\ UNCHANGED <<next_id, last_chunk_id, tail>> /\ pc' = "erase_size"
    BY <1>2 DEF EraseEntry, Goto
  <2>2. /\ meta'[n].chunk = NF /\ meta'[n].size = NF
        /\ \A id \in Ids \ {n} : meta'[id] = meta[id]
    BY <2>1 DEF TypeInv, TypeOK
  <2>3. \A id \in Ids : KeepsExtent(id)
    BY <2>1, <2>2 DEF KeepsExtent, Owns
  <2>4. ExtentsDisjoint'
    BY <2>3, ApartKept DEF Layout
  <2>5. \A id \in Ids : id < next_id' => Placed(id)'
    BY <2>1, <2>2 DEF Layout, Placed, Owns
  <2>6. TailInv' /\ Pending'
    BY <2>1 DEF Layout, TailInv, Pending
  <2> QED BY <2>4, <2>5, <2>6 DEF Layout
<1> QED BY <1>1, <1>2

\* Every step keeps documents apart and below the tail.
LEMMA LayoutNext ==
  ASSUME TypeInv, Layout, [Next]_vars PROVE Layout'
<1>1. CASE UNCHANGED vars
  <2>1. TailInv' /\ Pending'
    BY <1>1 DEF vars, Layout, TailInv, Pending, TailOffset, TailEntry, Behind, Owns
  <2> QED BY <1>1, <2>1, LayoutFrame DEF vars, Layout
<1>2. CASE Close \/ Crash \/ Open
  BY <1>2, LayoutReturn DEF Close, Crash, Open, Return, header, files
<1>3. CASE Next /\ ~(Close \/ Crash \/ Open)
  BY <1>3, LayoutTail, LayoutAppend, LayoutFill, LayoutScan, LayoutUpdate, LayoutBegin,
     LayoutErase DEF Next, Step
<1> QED BY <1>1, <1>2, <1>3

\* A new collection owns nothing.
LEMMA LayoutInit == Init => Layout
<1> SUFFICES ASSUME Init PROVE Layout
  OBVIOUS
<1>1. next_id = 0 /\ \A id \in Ids : ~(id < next_id)
  BY ConstantsAssumption DEF Init, Ids, ConstantsAssumption
<1>2. TailInv /\ Pending
  BY DEF Init, TailInv, Pending
<1> QED BY <1>1, <1>2 DEF Layout, ExtentsDisjoint, Owns

\* No two documents ever share a word of a chunk, so that overwriting one in
\* place cannot reach another: for every chunk size, every set of requests
\* and any number of crashes and restarts.
THEOREM ExtentsNeverShared == Spec => []ExtentsDisjoint
<1>1. TypeInv /\ Layout /\ [Next]_vars => (TypeInv /\ Layout)'
  BY TypeNext, LayoutNext
<1>2. Init => TypeInv /\ Layout
  BY TypeInit, LayoutInit
<1>3. TypeInv /\ Layout => ExtentsDisjoint
  BY DEF Layout
<1> QED BY <1>1, <1>2, <1>3, PTL DEF Spec

----------------------------------------------------------------------------
(* What the documents are *)

\* The word found at a place after a document was copied.
LEMMA StoredAt ==
  ASSUME TypeOK, NEW c \in ChunkIds, NEW o, NEW d, NEW c2 \in ChunkIds, NEW w \in Words
  PROVE  Stored(c, o, d)[c2][w] =
           IF c2 = c /\ w \in o .. o + d.size - 1 THEN d.val ELSE data[c2][w]
BY DEF Stored, TypeOK

\* A document with contents owns the words it is read from.
LEMMA HoldsOwns ==
  ASSUME TypeInv, Layout, NEW id \in Ids, id < next_id, NEW d, Holds(id, d),
         d.size \notin {0, NF}
  PROVE  /\ Owns(id) /\ d.size \in 1 .. meta[id].allocated
         /\ meta[id].chunk \in ChunkIds /\ meta[id].offset \in Words
         /\ meta[id].allocated \in 0 .. ChunkSize /\ meta[id].offset + d.size <= ChunkSize
         /\ meta[id].offset + meta[id].allocated <= tail[meta[id].chunk]
<1> USE ConstantsAssumption DEF ConstantsAssumption
<1>1. meta[id] \in Entry /\ meta[id].size = d.size /\ meta[id].offset + d.size <= ChunkSize
  BY DEF Holds, TypeInv, TypeOK
<1>2. d.size \in 1 .. ChunkSize /\ meta[id].allocated \in 0 .. ChunkSize
  BY <1>1 DEF Entry
<1>3. d.size <= meta[id].allocated /\ meta[id].chunk # NF
  BY <1>1, <1>2 DEF Layout, Placed
<1>4. Owns(id)
  BY <1>2, <1>3 DEF Owns
<1>5. meta[id].chunk \in ChunkIds
  BY <1>1, <1>3 DEF Entry
<1> QED BY <1>1, <1>2, <1>3, <1>4, <1>5 DEF Layout, Placed

\* Steps that leave the contents, and the entries of known ids, alone.
LEMMA IntactFrame ==
  ASSUME TypeInv, TypeInv', StoredDocsIntact,
         UNCHANGED <<next_id, data, committed>>, last_chunk_id' >= last_chunk_id,
         \A id \in Ids : id < next_id => meta'[id] = meta[id],
         torn \cup InFlight \subseteq torn' \cup InFlight'
  PROVE  StoredDocsIntact'
<1> SUFFICES ASSUME NEW id \in Ids, id < next_id', id \notin torn' \cup InFlight'
             PROVE  Holds(id, committed[id])'
  BY DEF StoredDocsIntact
<1>1. Holds(id, committed[id]) /\ meta'[id] = meta[id] /\ committed'[id] = committed[id]
  BY DEF StoredDocsIntact
<1>2. last_chunk_id \in ChunkIds /\ last_chunk_id' \in ChunkIds
  BY DEF TypeInv, TypeOK
<1> QED BY <1>1, <1>2 DEF Holds, ChunkIds

\* Leaving an operation, and every step that only moves on.
LEMMA ContentFrame ==
  ASSUME TypeInv, TypeInv', StoredDocsIntact,
         UNCHANGED <<next_id, last_chunk_id, meta, data, committed>>,
         torn \cup InFlight \subseteq torn' \cup InFlight',
         pc' \notin {"tail", "entry", "append_id", "scan_entry"}
  PROVE  ContentInv'
<1>1. last_chunk_id' >= last_chunk_id
  BY DEF TypeInv, TypeOK, ChunkIds
<1>2. StoredDocsIntact'
  BY <1>1, IntactFrame
<1> QED BY <1>2 DEF ContentInv

\* Copying to the tail overwrites no document that is stored.
LEMMA ContentTail ==
  ASSUME TypeInv, TypeInv', Layout, ContentInv, TailStep PROVE ContentInv'
<1> USE DEF header, files, ghost
<1>1. CASE TailData
  <2> DEFINE c == last_chunk_id
             o == next_offset
             d == docs[i]
  <2>1. /\ c \in ChunkIds /\ o \in Hdr .. ChunkSize /\ o = TailOffset
        /\ d.size \in 0 .. ChunkSize /\ o + d.size <= ChunkSize
    BY <1>1, CurrentDoc DEF TailData, TypeInv, TypeOK, Control, Layout, TailInv
  <2>2. /\ data' = Stored(c, o, d) /\ pc = "data" /\ pc' = "tail"
        /\ UNCHANGED <<next_id, last_chunk_id, meta, next_offset, docs, i, ids, committed, torn>>
    BY <1>1 DEF TailData, Goto
  <2>3. Written(c, o, d)'
    <3> SUFFICES ASSUME NEW w \in o .. o + d.size - 1 PROVE data'[c][w] = d.val
      BY <2>2 DEF Written
    <3>1. w \in Words
      BY <2>1, ConstantsAssumption DEF Words, ConstantsAssumption
    <3> QED BY <2>1, <2>2, <3>1, StoredAt DEF TypeInv
  <2>4. ASSUME NEW id \in Ids, id < next_id, Holds(id, committed[id]),
               committed[id].size \notin {0, NF},
               NEW w \in meta[id].offset .. meta[id].offset + committed[id].size - 1
        PROVE  data'[meta[id].chunk][w] = data[meta[id].chunk][w]
    <3>1. /\ committed[id].size \in 1 .. meta[id].allocated
          /\ meta[id].chunk \in ChunkIds /\ meta[id].offset \in Words
          /\ meta[id].allocated \in 0 .. ChunkSize
          /\ meta[id].offset + committed[id].size <= ChunkSize
          /\ meta[id].offset + meta[id].allocated <= tail[meta[id].chunk]
      BY <2>4, HoldsOwns
    <3>2. w \in Words /\ w < meta[id].offset + meta[id].allocated
      BY <3>1, ConstantsAssumption DEF Words, ConstantsAssumption
    <3>3. tail[c] \in Nat
      BY <2>1 DEF TypeInv, TypeOK
    <3>4. tail[c] <= o
      BY <2>1, <3>3 DEF TailOffset
    <3>5. meta[id].chunk = c => w \notin o .. o + d.size - 1
      BY <2>1, <3>1, <3>2, <3>3, <3>4 DEF Words
    <3> QED BY <2>1, <2>2, <3>1, <3>2, <3>5, StoredAt DEF TypeInv
  <2>5. StoredDocsIntact'
    <3> SUFFICES ASSUME NEW id \in Ids, id < next_id', id \notin torn' \cup InFlight'
                 PROVE  Holds(id, committed[id])'
      BY DEF StoredDocsIntact
    <3>1. id < next_id /\ Holds(id, committed[id])
      BY <2>2 DEF ContentInv, StoredDocsIntact, InFlight
    <3> QED BY <2>2, <2>4, <3>1 DEF Holds
  <2> QED BY <2>2, <2>3, <2>5 DEF ContentInv
<1>2. CASE TailFull
  BY <1>2, ContentFrame DEF TailFull, Return, ContentInv, InFlight
<1>3. CASE TailWritten
  <2>1. /\ pc = "tail" /\ pc' = "entry"
        /\ UNCHANGED <<next_id, last_chunk_id, meta, data, next_offset, docs, i, committed, torn>>
    BY <1>3 DEF TailWritten, Goto
  <2>2. last_chunk_id' >= last_chunk_id
    BY <2>1 DEF TypeInv, TypeOK, ChunkIds
  <2>3. StoredDocsIntact'
    BY <2>1, <2>2, IntactFrame DEF ContentInv, InFlight
  <2> QED BY <2>1, <2>3 DEF ContentInv, Written
<1> QED BY <1>1, <1>2, <1>3 DEF TailStep

\* An entry that was just written at the tail describes the current document.
LEMMA HoldsTail ==
  ASSUME TypeInv, i <= Len(docs), Written(last_chunk_id, next_offset, docs[i]),
         next_offset + docs[i].size <= ChunkSize, NEW n \in Ids, NEW d, d = docs[i],
         meta'[n] = TailEntry, UNCHANGED <<data, last_chunk_id>>
  PROVE  Holds(n, d)'
<1>1. last_chunk_id \in 0 .. last_chunk_id /\ next_offset >= Hdr
  BY DEF TypeInv, TypeOK, ChunkIds
<1> QED BY <1>1 DEF Holds, TailEntry, Written

\* A step that republishes the document of id n and touches no other.
LEMMA IntactPublish ==
  ASSUME TypeInv, StoredDocsIntact, NEW n \in Ids, NEW d,
         committed' = [committed EXCEPT ![n] = d], Holds(n, d)',
         UNCHANGED <<data, last_chunk_id>>,
         \A id \in Ids \ {n} : id < next_id' => id < next_id /\ meta'[id] = meta[id],
         torn \cup InFlight \subseteq torn' \cup InFlight' \cup {n}
  PROVE  StoredDocsIntact'
<1> SUFFICES ASSUME NEW id \in Ids, id < next_id', id \notin torn' \cup InFlight'
             PROVE  Holds(id, committed[id])'
  BY DEF StoredDocsIntact
<1>1. CASE id = n
  BY <1>1 DEF TypeInv, TypeOK
<1>2. CASE id # n
  <2>1. id < next_id /\ meta'[id] = meta[id] /\ committed'[id] = committed[id]
    BY <1>2 DEF TypeInv, TypeOK
  <2>2. Holds(id, committed[id])
    BY <1>2, <2>1 DEF StoredDocsIntact
  <2> QED BY <2>1, <2>2 DEF Holds
<1> QED BY <1>1, <1>2

\* append publishes what it has copied.
LEMMA ContentAppend ==
  ASSUME TypeInv, TypeInv', Layout, ContentInv, AppendStep PROVE ContentInv'
<1> USE DEF header, files, ghost
<1>1. CASE AppendNext
  <2>1. /\ UNCHANGED <<next_id, meta, data, committed, torn>> /\ pc = "append" /\ pc' = "data"
    BY <1>1 DEF AppendNext, Goto
  <2>2. last_chunk_id' >= last_chunk_id
    BY <1>1 DEF AppendNext, MakeRoom, TypeInv, TypeOK, ChunkIds
  <2> QED BY <2>1, <2>2, IntactFrame DEF ContentInv, InFlight
<1>2. CASE AppendEntry
  <2>1. /\ UNCHANGED <<next_id, last_chunk_id, data, committed, torn, docs, i, next_offset>>
        /\ pc = "entry" /\ pc' = "append_id" /\ meta' = [meta EXCEPT ![next_id] = TailEntry]
    BY <1>2 DEF AppendEntry, Goto
  <2>2. last_chunk_id' >= last_chunk_id /\ \A id \in Ids : id < next_id => meta'[id] = meta[id]
    BY <2>1 DEF TypeInv, TypeOK, ChunkIds, Ids
  <2>3. StoredDocsIntact'
    BY <2>1, <2>2, IntactFrame DEF ContentInv, InFlight
  <2> QED BY <2>1, <2>3 DEF ContentInv, Written
<1>3. CASE AppendEntryFails
  BY <1>3, ContentFrame DEF AppendEntryFails, Return, ContentInv, InFlight
<1>4. CASE AppendId
  <2>1. /\ UNCHANGED <<last_chunk_id, meta, data, torn>> /\ next_id' = next_id + 1
        /\ committed' = [committed EXCEPT ![next_id] = docs[i]]
        /\ pc = "append_id" /\ pc' = "append_size" /\ i <= Len(docs)
    BY <1>4 DEF AppendId, Goto, TypeInv, Control
  <2>2. PICK n \in Ids : n = next_id
    BY <2>1, NextIdType DEF TypeInv, Control
  <2>3. PICK d : d = docs[i]
    OBVIOUS
  <2>4. meta'[n] = TailEntry
    BY <2>1, <2>2 DEF Layout, Pending
  <2>5. Holds(n, d)'
    BY <2>1, <2>3, <2>4, HoldsTail DEF ContentInv, TypeInv, Room
  <2>6. \A id \in Ids \ {n} : id < next_id' => id < next_id
    BY <2>1, <2>2 DEF Ids
  <2>7. StoredDocsIntact'
    BY <2>1, <2>2, <2>3, <2>5, <2>6, IntactPublish DEF ContentInv, InFlight
  <2> QED BY <2>1, <2>7 DEF ContentInv
<1>5. CASE AppendSize
  BY <1>5, ContentFrame DEF AppendSize, Goto, ContentInv, InFlight
<1>6. CASE AppendEnd
  BY <1>6, ContentFrame DEF AppendEnd, Return, ContentInv, InFlight
<1> QED BY <1>1, <1>2, <1>3, <1>4, <1>5, <1>6 DEF AppendStep

\* The ids update creates hold nothing.
LEMMA ContentFill ==
  ASSUME TypeInv, TypeInv', Layout, ContentInv, FillStep PROVE ContentInv'
<1> USE DEF header, files, ghost
<1>1. CASE FillEntry
  <2>1. /\ UNCHANGED <<next_id, last_chunk_id, data, committed, torn>>
        /\ pc = "fill" /\ pc' = "fill_id"
        /\ \A id \in Ids : id # next_id => meta'[id] = meta[id]
    BY <1>1 DEF FillEntry, Goto, TypeInv, TypeOK
  <2>2. last_chunk_id' >= last_chunk_id /\ \A id \in Ids : id < next_id => meta'[id] = meta[id]
    BY <2>1 DEF TypeInv, TypeOK, ChunkIds, Ids
  <2> QED BY <2>1, <2>2, IntactFrame DEF ContentInv, InFlight
<1>2. CASE FillEntryFails
  BY <1>2, ContentFrame DEF FillEntryFails, Return, ContentInv, InFlight
<1>3. CASE FillId
  <2>1. /\ UNCHANGED <<last_chunk_id, meta, data, torn>> /\ next_id' = next_id + 1
        /\ committed' = [committed EXCEPT ![next_id] = Erased]
        /\ pc = "fill_id" /\ pc' = "fill" /\ Missing
    BY <1>3 DEF FillId, Goto, TypeInv, Control
  <2>2. PICK n \in Ids : n = next_id
    BY <2>1, MissingId
  <2>3. Holds(n, Erased)'
    BY <2>1, <2>2 DEF Layout, Pending, Holds, Erased
  <2>4. \A id \in Ids \ {n} : id < next_id' => id < next_id
    BY <2>1, <2>2 DEF Ids
  <2>5. StoredDocsIntact'
    BY <2>1, <2>2, <2>3, <2>4, IntactPublish DEF ContentInv, InFlight
  <2> QED BY <2>1, <2>5 DEF ContentInv
<1>4. CASE FillEnd
  BY <1>4, ContentFrame DEF FillEnd, Goto, ContentInv, InFlight
<1> QED BY <1>1, <1>2, <1>3, <1>4 DEF FillStep

\* Overwriting in place changes the document of one id.
LEMMA ContentScan ==
  ASSUME TypeInv, TypeInv', Layout, ContentInv, ScanStep PROVE ContentInv'
<1> USE DEF header, files, ghost
<1>1. CASE ScanUnmapped
  BY <1>1, ContentFrame DEF ScanUnmapped, Scanning, Return, ContentInv, InFlight
<1>2. CASE ScanSkip
  BY <1>2, ContentFrame DEF ScanSkip, Scanning, Goto, ContentInv, InFlight
<1>3. CASE ScanOverwrite
  <2>1. /\ UNCHANGED <<next_id, last_chunk_id, meta, committed, torn, docs, ids, i>>
        /\ pc = "scan" /\ pc' = "scan_entry" /\ i <= Len(docs) /\ ids # << >>
        /\ docs[i].size <= meta[ids[i]].allocated
    BY <1>3 DEF ScanOverwrite, Fits, Scanning, Goto, TypeInv, Control
  <2>2. PICK n \in Ids : n = ids[i]
    BY <2>1, CurrentId DEF TypeInv
  <2>3. InFlight' = {n} /\ InFlight = {}
    BY <2>1, <2>2 DEF InFlight
  <2>4. CASE docs[i].size = 0
    <3>1. data' = data
      BY <1>3, <2>4 DEF ScanOverwrite
    <3>2. last_chunk_id' >= last_chunk_id
      BY <2>1 DEF TypeInv, TypeOK, ChunkIds
    <3>3. StoredDocsIntact'
      BY <2>1, <2>3, <3>1, <3>2, IntactFrame DEF ContentInv
    <3> QED BY <2>1, <2>4, <3>3 DEF ContentInv
  <2>5. CASE docs[i].size # 0
    <3> DEFINE c == meta[n].chunk
               o == meta[n].offset
               d == docs[i]
    <3>1. data' = Stored(c, o, d) /\ ~(c > last_chunk_id)
      BY <1>3, <2>2, <2>5 DEF ScanOverwrite, NullChunk
    <3>2. /\ meta[n] \in Entry /\ d.size \in 1 .. meta[n].allocated /\ d.size \in 1 .. ChunkSize
      <4>1. meta[n] \in Entry
        BY DEF TypeInv, TypeOK
      <4>2. d.size \in 0 .. ChunkSize
        BY <2>1, CurrentDoc DEF TypeInv
      <4> QED BY <2>1, <2>2, <2>5, <4>1, <4>2 DEF Entry
    <3>3. c # NF
      BY <3>1, LastChunk
    <3>4. n < next_id
      <4>1. i \in 1 .. Len(ids)
        BY <2>1 DEF TypeInv, TypeOK, Control
      <4> QED BY <2>1, <2>2, <4>1 DEF Layout, Pending
    <3>5. Owns(n) /\ c \in ChunkIds /\ o \in Words /\ o + meta[n].allocated <= tail[c]
      BY <3>2, <3>3, <3>4 DEF Owns, Entry, Layout, Placed
    <3>6. tail[c] \in 0 .. ChunkSize
      BY <3>5 DEF TypeInv, TypeOK
    <3>7. o .. o + d.size - 1 \subseteq Extent(n) /\ Extent(n) \subseteq Words
      BY <3>2, <3>5, <3>6, ConstantsAssumption DEF Extent, Words, Entry, ConstantsAssumption
    <3>8. Written(c, o, d)'
      <4> SUFFICES ASSUME NEW w \in o .. o + d.size - 1 PROVE data'[c][w] = d.val
        BY <2>1 DEF Written
      <4> QED BY <3>1, <3>5, <3>7, StoredAt DEF TypeInv
    <3>9. ASSUME NEW id \in Ids, id # n, id < next_id, Holds(id, committed[id]),
                 committed[id].size \notin {0, NF},
                 NEW w \in meta[id].offset .. meta[id].offset + committed[id].size - 1
          PROVE  data'[meta[id].chunk][w] = data[meta[id].chunk][w]
      <4>1. /\ Owns(id) /\ committed[id].size \in 1 .. meta[id].allocated
            /\ meta[id].chunk \in ChunkIds /\ meta[id].offset \in Words
            /\ meta[id].allocated \in 0 .. ChunkSize
            /\ meta[id].offset + committed[id].size <= ChunkSize
        BY <3>9, HoldsOwns
      <4>2. w \in Words /\ w \in Extent(id)
        BY <4>1, ConstantsAssumption DEF Words, Extent, ConstantsAssumption
      <4>3. meta[id].chunk = c => w \notin o .. o + d.size - 1
        BY <3>5, <3>7, <3>9, <4>1, <4>2 DEF Layout, ExtentsDisjoint
      <4> QED BY <3>1, <3>5, <4>1, <4>2, <4>3, StoredAt DEF TypeInv
    <3>10. StoredDocsIntact'
      <4> SUFFICES ASSUME NEW id \in Ids, id < next_id', id \notin torn' \cup InFlight'
                   PROVE  Holds(id, committed[id])'
        BY DEF StoredDocsIntact
      <4>1. id < next_id /\ id # n /\ Holds(id, committed[id])
        BY <2>1, <2>3 DEF ContentInv, StoredDocsIntact
      <4> QED BY <2>1, <3>9, <4>1 DEF Holds
    <3> QED BY <2>1, <2>2, <3>8, <3>10 DEF ContentInv, Written
  <2> QED BY <2>4, <2>5
<1>4. CASE ScanFault
  BY <1>4, ContentFrame DEF ScanFault, Fits, Scanning, Return, ContentInv, InFlight
<1>5. CASE ScanEntry
  <2>1. /\ UNCHANGED <<next_id, last_chunk_id, data, docs, ids, i>>
        /\ pc = "scan_entry" /\ pc' = "scan_size" /\ i <= Len(docs) /\ ids # << >>
        /\ meta' = [meta EXCEPT ![ids[i]].size = docs[i].size]
        /\ committed' = [committed EXCEPT ![ids[i]] = docs[i]] /\ torn' = torn \ {ids[i]}
    BY <1>5 DEF ScanEntry, Goto, TypeInv, Control
  <2>2. PICK n \in Ids : n = ids[i]
    BY <2>1, CurrentId DEF TypeInv
  <2>3. PICK d : d = docs[i]
    OBVIOUS
  <2>4. /\ d.size \in 0 .. ChunkSize /\ meta[n] \in Entry /\ n < next_id
        /\ d.size <= meta[n].allocated /\ (d.size # 0 => meta[n].chunk # NF)
    <3>1. i \in 1 .. Len(ids)
      BY <2>1 DEF TypeInv, TypeOK, Control
    <3>2. d.size \in 0 .. ChunkSize /\ meta[n] \in Entry
      BY <2>1, <2>3, CurrentDoc DEF TypeInv, TypeOK
    <3> QED BY <2>1, <2>2, <2>3, <3>1, <3>2 DEF Layout, Pending
  <2>5. /\ meta'[n].chunk = meta[n].chunk /\ meta'[n].offset = meta[n].offset
        /\ meta'[n].size = d.size /\ \A id \in Ids \ {n} : meta'[id] = meta[id]
    BY <2>1, <2>2, <2>3 DEF TypeInv, TypeOK, Entry
  <2>6. ASSUME d.size # 0
        PROVE  /\ meta[n].chunk \in 0 .. last_chunk_id /\ meta[n].offset >= Hdr
               /\ meta[n].offset + d.size <= ChunkSize
    <3>1. Owns(n) /\ meta[n].chunk \in ChunkIds
      BY <2>4, <2>6 DEF Owns, Entry
    <3>2. /\ meta[n].chunk <= last_chunk_id /\ meta[n].offset \in Words
          /\ meta[n].offset + meta[n].allocated <= tail[meta[n].chunk]
      BY <2>4, <3>1 DEF Layout, Placed
    <3>3. tail[meta[n].chunk] \in 0 .. ChunkSize /\ meta[n].allocated \in 0 .. ChunkSize
      BY <2>4, <3>1, LastChunk DEF Entry
    <3>4. meta[n].chunk \in 0 .. last_chunk_id /\ meta[n].offset >= Hdr
      BY <3>1, <3>2, LastChunk DEF ChunkIds, Words
    <3>5. meta[n].offset + d.size <= ChunkSize
      BY <2>4, <3>2, <3>3, ConstantsAssumption DEF Words, ConstantsAssumption
    <3> QED BY <3>4, <3>5
  <2>7. d.size # 0 => Written(meta[n].chunk, meta[n].offset, d)
    BY <2>1, <2>2, <2>3 DEF ContentInv
  <2>8. Holds(n, d)'
    BY <2>1, <2>5, <2>6, <2>7 DEF Holds, Written
  <2>9. StoredDocsIntact'
    BY <2>1, <2>2, <2>3, <2>5, <2>8, IntactPublish DEF ContentInv, InFlight
  <2> QED BY <2>1, <2>9 DEF ContentInv
<1>6. CASE ScanSize
  BY <1>6, ContentFrame DEF ScanSize, Goto, ContentInv, InFlight
<1>7. CASE ScanEnd
  BY <1>7, ContentFrame DEF ScanEnd, Goto, ContentInv, InFlight
<1> QED BY <1>1, <1>2, <1>3, <1>4, <1>5, <1>6, <1>7 DEF ScanStep

\* update publishes what it has copied to the tail.
LEMMA ContentUpdate ==
  ASSUME TypeInv, TypeInv', Layout, ContentInv, UpdateStep PROVE ContentInv'
<1> USE DEF header, files, ghost
<1>1. CASE UpdateSkip
  BY <1>1, ContentFrame DEF UpdateSkip, Goto, ContentInv, InFlight
<1>2. CASE UpdateNext
  <2>1. /\ UNCHANGED <<next_id, meta, data, committed, torn>> /\ pc = "update" /\ pc' = "data"
    BY <1>2 DEF UpdateNext, Goto
  <2>2. last_chunk_id' >= last_chunk_id
    BY <1>2, LastChunk DEF UpdateNext, MakeRoom
  <2> QED BY <2>1, <2>2, IntactFrame DEF ContentInv, InFlight
<1>3. CASE UpdateEntry
  <2>1. /\ UNCHANGED <<next_id, last_chunk_id, data>>
        /\ meta' = [meta EXCEPT ![ids[i]] = TailEntry]
        /\ committed' = [committed EXCEPT ![ids[i]] = docs[i]] /\ torn' = torn \ {ids[i]}
        /\ pc = "entry" /\ pc' = "update_size" /\ i <= Len(docs) /\ ids # << >>
    BY <1>3 DEF UpdateEntry, Goto, TypeInv, Control
  <2>2. PICK n \in Ids : n = ids[i]
    BY <2>1, CurrentId DEF TypeInv
  <2>3. PICK d : d = docs[i]
    OBVIOUS
  <2>4. meta'[n] = TailEntry /\ \A id \in Ids \ {n} : meta'[id] = meta[id]
    BY <2>1, <2>2 DEF TypeInv, TypeOK
  <2>5. Holds(n, d)'
    BY <2>1, <2>3, <2>4, HoldsTail DEF ContentInv, TypeInv, Room
  <2>6. StoredDocsIntact'
    BY <2>1, <2>2, <2>3, <2>4, <2>5, IntactPublish DEF ContentInv, InFlight
  <2> QED BY <2>1, <2>6 DEF ContentInv
<1>4. CASE UpdateSize
  BY <1>4, ContentFrame DEF UpdateSize, Goto, ContentInv, InFlight
<1>5. CASE UpdateEnd
  BY <1>5, ContentFrame DEF UpdateEnd, Return, ContentInv, InFlight
<1> QED BY <1>1, <1>2, <1>3, <1>4, <1>5 DEF UpdateStep

\* An erased document holds nothing.
LEMMA ContentErase ==
  ASSUME TypeInv, TypeInv', Layout, ContentInv, EraseSize \/ \E id \in Ids : EraseEntry(id)
  PROVE  ContentInv'
<1> USE DEF header, files, ghost
<1>1. ASSUME EraseSize PROVE ContentInv'
  BY <1>1, ContentFrame DEF EraseSize, Return, ContentInv, InFlight
<1>2. ASSUME NEW n \in Ids, EraseEntry(n) PROVE ContentInv'
  <2>1. /\ UNCHANGED <<next_id, last_chunk_id, data>> /\ pc = "idle" /\ pc' = "erase_size"
        /\ committed' = [committed EXCEPT ![n] = Erased] /\ torn' = torn \ {n}
        /\ meta'[n].size = NF /\ \A id \in Ids \ {n} : meta'[id] = meta[id]
    BY <1>2 DEF EraseEntry, Goto, TypeInv, TypeOK
  <2>2. Holds(n, Erased)'
    BY <2>1 DEF Holds, Erased
  <2>3. StoredDocsIntact'
    BY <2>1, <2>2, IntactPublish DEF ContentInv, InFlight
  <2> QED BY <2>1, <2>3 DEF ContentInv
<1> QED BY <1>1, <1>2

\* Every step keeps the stored documents.
LEMMA ContentNext ==
  ASSUME TypeInv, TypeInv', Layout, ContentInv, [Next]_vars PROVE ContentInv'
<1> USE DEF header, files, ghost
<1>1. CASE UNCHANGED vars
  BY <1>1 DEF vars, ContentInv, StoredDocsIntact, Holds, InFlight, Written
<1>2. CASE \/ \E b \in AppendBatches : AppendBegin(b)
           \/ \E u \in UpdateBatches : UpdateBegin(u)
  BY <1>2, ContentFrame DEF AppendBegin, UpdateBegin, ContentInv, InFlight
<1>3. CASE Close \/ Crash \/ Open
  BY <1>3, ContentFrame DEF Close, Crash, Open, Return, ContentInv, InFlight
<1>4. CASE Step \/ \E id \in Ids : EraseEntry(id)
  BY <1>4, ContentTail, ContentAppend, ContentFill, ContentScan, ContentUpdate, ContentErase
     DEF Step
<1> QED BY <1>1, <1>2, <1>3, <1>4 DEF Next

\* A new collection stores nothing.
LEMMA ContentInit == Init => ContentInv
<1> SUFFICES ASSUME Init PROVE ContentInv
  OBVIOUS
<1>1. next_id = 0 /\ \A id \in Ids : ~(id < next_id)
  BY ConstantsAssumption DEF Init, Ids, ConstantsAssumption
<1> QED BY <1>1 DEF Init, ContentInv, StoredDocsIntact

\* The strengthening under which every store of append, update and erase
\* leaves the other documents alone.
LEMMA InductiveInvariant == Spec => []IInv
<1>1. IInv /\ [Next]_vars => IInv'
  BY TypeNext, LayoutNext, ContentNext DEF IInv
<1>2. Init => IInv
  BY TypeInit, LayoutInit, ContentInit DEF IInv
<1> QED BY <1>1, <1>2, PTL DEF Spec

\* Whatever was committed by append, update or erase is what the entry of the
\* document and the chunk it points to say, after any operations on other
\* documents, any chunk rotations, crashes and restarts; the one exception is
\* a document whose own overwriting in place was cut by a crash.
THEOREM StoredDocsAlwaysIntact == Spec => []StoredDocsIntact
<1>1. IInv => StoredDocsIntact
  BY DEF IInv, ContentInv
<1> QED BY InductiveInvariant, <1>1, PTL
=============================================================================
