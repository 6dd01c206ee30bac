--------------------------- MODULE LogCollection ---------------------------
(***************************************************************************)
(* One collection of the "log" backend (src/backends/log.cpp, class         *)
(* LogDatabase::Collection): a metadata file (a header and one entry per    *)
(* document id) and a sequence of chunk files into which documents are      *)
(* appended.  All files are memory-mapped with MAP_SHARED, so a store that  *)
(* was executed survives the death of the process.                          *)
(*                                                                          *)
(* append, update and erase hold the write lock of the collection from      *)
(* beginning to end, so one operation runs at a time; the process may die   *)
(* between any two of its stores and reopen the files afterwards.           *)
(*                                                                          *)
(* Sizes are counted in words of 8 bytes: the first word of a chunk (Hdr)   *)
(* holds the offset at which the next document is written.  The metadata    *)
(* file is counted in slots of 32 bytes: slot 0 is the header and slot      *)
(* id + 1 the entry of document id.                                         *)
(***************************************************************************)
EXTENDS Integers, FiniteSets, Sequences

CONSTANTS
  ChunkSize,      \* m_chunk_size, the capacity of a chunk
  InitSlots,      \* slots mapped when the metadata file is opened
  Vals,           \* what a document may contain
  AppendBatches,  \* the sequences of documents clients store
  UpdateBatches,  \* the requests [ids, docs, update_new] clients update
  NF,             \* YOKAN_KEY_NOT_FOUND, the largest unsigned value
  Nothing,        \* the contents of a word that was never written
  MaxDocs,        \* bound: ids are 0 .. MaxDocs - 1
  MaxChunks,      \* bound: chunks are 0 .. MaxChunks - 1
  MaxCrashes      \* bound: how often the process is killed within an operation

Hdr      == 1
Ids      == 0 .. MaxDocs - 1
ChunkIds == 0 .. MaxChunks - 1
Words    == Hdr .. ChunkSize - 1
Doc      == [size : 0 .. ChunkSize, val : Vals]

ASSUME ConstantsAssumption ==
  /\ ChunkSize \in Nat /\ ChunkSize > Hdr
  /\ InitSlots \in Nat /\ InitSlots >= 2
  /\ MaxDocs \in Nat \ {0} /\ MaxChunks \in Nat \ {0} /\ MaxCrashes \in Nat
  /\ NF \in Nat /\ NF > ChunkSize /\ NF > MaxChunks /\ NF > MaxDocs
  /\ Nothing \notin Vals

\* Requests with a document larger than a chunk are refused before they
\* touch anything (422-425, 455-458), so they are left out.
ASSUME BatchesAssumption ==
  /\ \A b \in AppendBatches : b \in Seq(Doc)
  /\ \A u \in UpdateBatches :
       /\ u.ids \in Seq(Ids) /\ u.docs \in Seq(Doc) /\ u.update_new \in BOOLEAN
       /\ Len(u.ids) = Len(u.docs) /\ u.ids # << >>

VARIABLES
  \* the metadata file
  coll_size, next_id, last_chunk_id,   \* MetadataHeader
  meta,                                \* the EntryMetadata of every id
  \* the chunk files
  tail,                                \* first word: next available offset, 0 if never set
  data,                                \* the words after it
  \* the process
  mapped,                              \* slots of the metadata file that are mapped
  pc,                                  \* where the running operation is
  docs, ids,                           \* its arguments (append has no ids)
  i, next_offset, entries,             \* its loop index and locals
  result,                              \* the status the last operation returned
  crashes,
  \* history: the documents as they were last committed, and the ids whose
  \* in-place update was cut by a crash
  committed, torn

header == <<coll_size, next_id, last_chunk_id>>
files  == <<tail, data>>
ghost  == <<committed, torn>>
vars   == <<coll_size, next_id, last_chunk_id, meta, tail, data, mapped, pc, docs, ids,
            i, next_offset, entries, result, crashes, committed, torn>>

Entry == [chunk     : ChunkIds \cup {NF},
          offset    : 0 .. ChunkSize \cup {NF},
          size      : 0 .. ChunkSize \cup {NF},
          allocated : 0 .. ChunkSize]

NoEntry == [chunk |-> 0, offset |-> 0, size |-> 0, allocated |-> 0]
Erased  == [size |-> NF, val |-> Nothing]

----------------------------------------------------------------------------
(* Access to the files *)

\* readEntryMetadata succeeds when the entry lies in the mapped part.
Mapped(id, slots) == id + 2 <= slots

\* writeEntryMetadata doubles the mapping, once, if the entry lies beyond it.
Extended(id) == IF Mapped(id, mapped) THEN mapped ELSE 2 * mapped

\* Copying a document to offset o of chunk c.
Stored(c, o, d) ==
  [data EXCEPT ![c] = [w \in Words |-> IF w \in o .. o + d.size - 1 THEN d.val ELSE @[w]]]

\* The offset at which the last chunk continues; a fresh chunk holds 0.
TailOffset == IF tail[last_chunk_id] = 0 THEN Hdr ELSE tail[last_chunk_id]

\* getChunkFromID has no chunk for an id beyond the last one, which is what
\* the entry of an erased document holds: it returns a null pointer.
NullChunk(c) == c > last_chunk_id

\* Unsigned counters of 64 bits: NF is their largest value.
Inc(n) == IF n = NF THEN 0 ELSE n + 1
Dec(n) == IF n = 0 THEN NF ELSE n - 1

last_id == Dec(next_id)

----------------------------------------------------------------------------
Init ==
  /\ coll_size = 0 /\ next_id = 0 /\ last_chunk_id = 0
  /\ meta = [id \in Ids |-> NoEntry]
  /\ tail = [c \in ChunkIds |-> 0]
  /\ data = [c \in ChunkIds |-> [w \in Words |-> Nothing]]
  /\ mapped = InitSlots
  /\ pc = "idle" /\ docs = << >> /\ ids = << >>
  /\ i = 1 /\ next_offset = Hdr /\ entries = << >>
  /\ result = "OK" /\ crashes = 0
  /\ committed = [id \in Ids |-> Erased] /\ torn = {}

\* The operation goes on at label l; its arguments stay.
Goto(l) == pc' = l /\ UNCHANGED <<docs, ids, result, crashes>>

\* The operation ends with status s: the lock is released, the locals go.
Return(l, s) ==
  /\ pc' = l /\ result' = s
  /\ docs' = << >> /\ ids' = << >> /\ i' = 1 /\ next_offset' = Hdr /\ entries' = << >>

----------------------------------------------------------------------------
(* The part append and update share: document i goes to the tail of the log *)

\* Mutant: the header of the chunk is not counted.
MakeRoomNoHeader ==
  IF docs[i].size > ChunkSize - next_offset + Hdr
    THEN last_chunk_id' = last_chunk_id + 1 /\ next_offset' = Hdr
    ELSE UNCHANGED <<last_chunk_id, next_offset>>

\* A new chunk is opened when the document does not fit behind the tail.
MakeRoom ==
  IF docs[i].size > ChunkSize - next_offset
    THEN last_chunk_id' = last_chunk_id + 1 /\ next_offset' = Hdr
    ELSE UNCHANGED <<last_chunk_id, next_offset>>

\* The write is bounds-checked against the mapping of the chunk.
TailData ==
  /\ pc = "data" /\ next_offset + docs[i].size <= ChunkSize
  /\ data' = Stored(last_chunk_id, next_offset, docs[i])
  /\ Goto("tail")
  /\ UNCHANGED <<header, meta, tail, mapped, i, next_offset, entries, ghost>>

\* Even a fresh chunk cannot hold it.  append returns the error; update
\* leaves its loop and returns the status of the flush that follows.
TailFull ==
  /\ pc = "data" /\ next_offset + docs[i].size > ChunkSize
  /\ Return("idle", IF ids = << >> THEN "SizeError" ELSE "OK")
  /\ UNCHANGED <<header, meta, files, mapped, crashes, ghost>>

\* Mutant: the offset before the document is written instead.
NewTailStale == next_offset

NewTail == next_offset + docs[i].size

TailWritten ==
  /\ pc = "tail"
  /\ tail' = [tail EXCEPT ![last_chunk_id] = NewTail]
  /\ Goto("entry")
  /\ UNCHANGED <<header, meta, data, mapped, i, next_offset, entries, ghost>>

TailEntry == [chunk |-> last_chunk_id, offset |-> next_offset,
              size |-> docs[i].size, allocated |-> docs[i].size]

----------------------------------------------------------------------------
(* append *)

AppendBegin(b) ==
  /\ pc = "idle"
  /\ next_id + Len(b) <= MaxDocs /\ last_chunk_id + Len(b) < MaxChunks
  /\ docs' = b /\ next_offset' = TailOffset /\ pc' = "append"
  /\ UNCHANGED <<header, meta, files, mapped, ids, i, entries, result, crashes, ghost>>

AppendNext ==
  /\ pc = "append" /\ i <= Len(docs)
  /\ MakeRoom
  /\ Goto("data")
  /\ UNCHANGED <<coll_size, next_id, meta, files, mapped, i, entries, ghost>>

AppendEntry ==
  /\ pc = "entry" /\ ids = << >>
  /\ mapped' = Extended(next_id) /\ Mapped(next_id, mapped')
  /\ meta' = [meta EXCEPT ![next_id] = TailEntry]
  /\ Goto("append_id")
  /\ UNCHANGED <<header, files, i, next_offset, entries, ghost>>

\* One doubling was not enough: writeEntryMetadata fails.
AppendEntryFails ==
  /\ pc = "entry" /\ ids = << >>
  /\ mapped' = Extended(next_id) /\ ~Mapped(next_id, mapped')
  /\ Return("idle", "SizeError")
  /\ UNCHANGED <<header, meta, files, crashes, ghost>>

\* next_id is the commit point of the document.
AppendId ==
  /\ pc = "append_id"
  /\ next_id' = next_id + 1
  /\ committed' = [committed EXCEPT ![next_id] = docs[i]]
  /\ Goto("append_size")
  /\ UNCHANGED <<coll_size, last_chunk_id, meta, files, mapped, i, next_offset, entries, torn>>

AppendSize ==
  /\ pc = "append_size"
  /\ coll_size' = Inc(coll_size)
  /\ next_offset' = next_offset + docs[i].size /\ i' = i + 1
  /\ Goto("append")
  /\ UNCHANGED <<next_id, last_chunk_id, meta, files, mapped, entries, ghost>>

AppendEnd ==
  /\ pc = "append" /\ i > Len(docs)
  /\ Return("idle", "OK")
  /\ UNCHANGED <<header, meta, files, mapped, crashes, ghost>>

----------------------------------------------------------------------------
(* update *)

\* docUpdate lets ids beyond last_id through only with MODE_UPDATE_NEW.
UpdateBegin(u) ==
  /\ pc = "idle"
  /\ u.update_new \/ \A k \in 1 .. Len(u.ids) : u.ids[k] <= last_id
  /\ last_chunk_id + Len(u.docs) < MaxChunks
  /\ docs' = u.docs /\ ids' = u.ids /\ pc' = "fill"
  /\ UNCHANGED <<header, meta, files, mapped, i, next_offset, entries, result, crashes, ghost>>

\* Ids from next_id to the largest requested one get an empty entry, as if
\* the document had existed and had been erased.
Missing == \E k \in 1 .. Len(ids) : next_id <= ids[k]

FillEntry ==
  /\ pc = "fill" /\ Missing
  /\ mapped' = Extended(next_id) /\ Mapped(next_id, mapped')
  /\ meta' = [meta EXCEPT ![next_id] =
       [chunk |-> last_chunk_id, offset |-> NF, size |-> NF, allocated |-> 0]]
  /\ Goto("fill_id")
  /\ UNCHANGED <<header, files, i, next_offset, entries, ghost>>

FillEntryFails ==
  /\ pc = "fill" /\ Missing
  /\ mapped' = Extended(next_id) /\ ~Mapped(next_id, mapped')
  /\ Return("idle", "SizeError")
  /\ UNCHANGED <<header, meta, files, crashes, ghost>>

FillId ==
  /\ pc = "fill_id"
  /\ next_id' = next_id + 1
  /\ committed' = [committed EXCEPT ![next_id] = Erased]
  /\ Goto("fill")
  /\ UNCHANGED <<coll_size, last_chunk_id, meta, files, mapped, i, next_offset, entries, torn>>

FillEnd ==
  /\ pc = "fill" /\ ~Missing
  /\ Goto("scan")
  /\ UNCHANGED <<header, meta, files, mapped, i, next_offset, entries, ghost>>

(* First loop: the documents that fit in the space their entry owns. *)

\* Mutant: any space will do, however small.
InPlaceAnySize(e) == e.allocated > 0

InPlace(e) == docs[i].size <= e.allocated

Scanning == pc = "scan" /\ i <= Len(docs)

ScanUnmapped ==
  /\ Scanning /\ ~Mapped(ids[i], mapped)
  /\ Return("idle", "SizeError")
  /\ UNCHANGED <<header, meta, files, mapped, crashes, ghost>>

ScanSkip ==
  /\ Scanning /\ Mapped(ids[i], mapped)
  /\ ~InPlace(meta[ids[i]])
  /\ entries' = Append(entries, meta[ids[i]]) /\ i' = i + 1
  /\ Goto("scan")
  /\ UNCHANGED <<header, meta, files, mapped, next_offset, ghost>>

Fits == Scanning /\ Mapped(ids[i], mapped) /\ InPlace(meta[ids[i]])

\* The copied entry keeps the old size until the metadata is rewritten.
ScanOverwrite ==
  /\ Fits /\ (docs[i].size # 0 => ~NullChunk(meta[ids[i]].chunk))
  /\ data' = IF docs[i].size = 0 THEN data
             ELSE Stored(meta[ids[i]].chunk, meta[ids[i]].offset, docs[i])
  /\ entries' = Append(entries, meta[ids[i]])
  /\ Goto("scan_entry")
  /\ UNCHANGED <<header, meta, tail, mapped, i, next_offset, ghost>>

\* The null chunk is dereferenced: the process dies.
ScanFault ==
  /\ Fits /\ docs[i].size # 0 /\ NullChunk(meta[ids[i]].chunk)
  /\ Return("fault", "OK")
  /\ UNCHANGED <<header, meta, files, mapped, crashes, ghost>>

ScanEntry ==
  /\ pc = "scan_entry"
  /\ meta' = [meta EXCEPT ![ids[i]].size = docs[i].size]
  /\ committed' = [committed EXCEPT ![ids[i]] = docs[i]] /\ torn' = torn \ {ids[i]}
  /\ Goto("scan_size")
  /\ UNCHANGED <<header, files, mapped, i, next_offset, entries>>

\* Mutant: a document that was there already is counted again.
CountedTwice == Inc(coll_size)

Counted == IF entries[i].size = NF THEN Inc(coll_size) ELSE coll_size

ScanSize ==
  /\ pc = "scan_size"
  /\ coll_size' = Counted /\ i' = i + 1
  /\ Goto("scan")
  /\ UNCHANGED <<next_id, last_chunk_id, meta, files, mapped, next_offset, entries, ghost>>

ScanEnd ==
  /\ pc = "scan" /\ i > Len(docs)
  /\ next_offset' = TailOffset /\ i' = 1
  /\ Goto("update")
  /\ UNCHANGED <<header, meta, files, mapped, entries, ghost>>

(* Second loop: the others go to the tail, judged by the copies of the     *)
(* entries the first loop took.                                            *)

\* Mutant: the loop does not move on.
UpdateSkipStuck ==
  /\ pc = "update" /\ i <= Len(docs) /\ InPlace(entries[i])
  /\ Goto("update")
  /\ UNCHANGED <<header, meta, files, mapped, i, next_offset, entries, ghost>>

UpdateSkip ==
  /\ pc = "update" /\ i <= Len(docs) /\ InPlace(entries[i])
  /\ i' = i + 1
  /\ Goto("update")
  /\ UNCHANGED <<header, meta, files, mapped, next_offset, entries, ghost>>

UpdateNext ==
  /\ pc = "update" /\ i <= Len(docs) /\ ~InPlace(entries[i])
  /\ MakeRoom
  /\ Goto("data")
  /\ UNCHANGED <<coll_size, next_id, meta, files, mapped, i, entries, ghost>>

UpdateEntry ==
  /\ pc = "entry" /\ ids # << >>
  /\ meta' = [meta EXCEPT ![ids[i]] = TailEntry]
  /\ committed' = [committed EXCEPT ![ids[i]] = docs[i]] /\ torn' = torn \ {ids[i]}
  /\ Goto("update_size")
  /\ UNCHANGED <<header, files, mapped, i, next_offset, entries>>

UpdateSize ==
  /\ pc = "update_size"
  /\ coll_size' = Counted
  /\ next_offset' = next_offset + docs[i].size /\ i' = i + 1
  /\ Goto("update")
  /\ UNCHANGED <<next_id, last_chunk_id, meta, files, mapped, entries, ghost>>

UpdateEnd ==
  /\ pc = "update" /\ i > Len(docs)
  /\ Return("idle", "OK")
  /\ UNCHANGED <<header, meta, files, mapped, crashes, ghost>>

----------------------------------------------------------------------------
(* erase: how much space the entry owns is remembered, where it lies is not *)

\* Mutant: every field is overwritten with the marker.
ErasedEntryAll(e) == [chunk |-> NF, offset |-> NF, size |-> NF, allocated |-> NF]

ErasedEntry(e) == [chunk |-> NF, offset |-> NF, size |-> NF, allocated |-> e.allocated]

EraseEntry(id) ==
  /\ pc = "idle"
  /\ id < next_id /\ Mapped(id, mapped) /\ meta[id].size # NF
  /\ meta' = [meta EXCEPT ![id] = ErasedEntry(@)]
  /\ committed' = [committed EXCEPT ![id] = Erased] /\ torn' = torn \ {id}
  /\ Goto("erase_size")
  /\ UNCHANGED <<header, files, mapped, i, next_offset, entries>>

EraseSize ==
  /\ pc = "erase_size"
  /\ coll_size' = Dec(coll_size)
  /\ Return("idle", "OK")
  /\ UNCHANGED <<next_id, last_chunk_id, meta, files, mapped, crashes, ghost>>

----------------------------------------------------------------------------
(* read *)

Contents(id) == [w \in 1 .. meta[id].size |-> data[meta[id].chunk][meta[id].offset + w - 1]]
Fails(s)     == [status |-> s, doc |-> << >>]

read(id) ==
  CASE id >= next_id                              -> Fails("InvalidID")
    [] id < next_id /\ ~Mapped(id, mapped)        -> Fails("SizeError")
    [] id < next_id /\ Mapped(id, mapped) ->
         CASE meta[id].size = NF                  -> Fails("NotFound")
           [] meta[id].size # NF /\ NullChunk(meta[id].chunk) -> Fails("fault")
           [] OTHER -> IF meta[id].offset + meta[id].size > ChunkSize
                         THEN Fails("SizeError")
                         ELSE [status |-> "OK", doc |-> Contents(id)]

----------------------------------------------------------------------------
(* The process dies and comes back *)

Running == pc \notin {"idle", "down", "fault"}

\* The document whose in-place update has begun and is not yet complete.
InFlight == IF pc = "scan_entry" THEN {ids[i]} ELSE {}

Close ==
  /\ pc = "idle"
  /\ pc' = "down"
  /\ UNCHANGED <<header, meta, files, mapped, docs, ids, i, next_offset, entries, result, crashes, ghost>>

Crash ==
  /\ Running /\ crashes < MaxCrashes
  /\ crashes' = crashes + 1
  /\ torn' = torn \cup InFlight
  /\ Return("down", "OK")
  /\ UNCHANGED <<header, meta, files, mapped, committed>>

\* The constructor maps the initial number of slots, however long the
\* metadata file has become, and opens the last chunk.
Open ==
  /\ pc \in {"down", "fault"}
  /\ mapped' = InitSlots /\ pc' = "idle"
  /\ UNCHANGED <<header, meta, files, docs, ids, i, next_offset, entries, result, crashes, ghost>>

----------------------------------------------------------------------------
TailStep   == TailData \/ TailFull \/ TailWritten
AppendStep == AppendNext \/ AppendEntry \/ AppendEntryFails \/ AppendId \/ AppendSize \/ AppendEnd
FillStep   == FillEntry \/ FillEntryFails \/ FillId \/ FillEnd
ScanStep   == ScanUnmapped \/ ScanSkip \/ ScanOverwrite \/ ScanFault \/ ScanEntry \/ ScanSize \/ ScanEnd
UpdateStep == UpdateSkip \/ UpdateNext \/ UpdateEntry \/ UpdateSize \/ UpdateEnd

\* What the thread that holds the lock does next.
Step == TailStep \/ AppendStep \/ FillStep \/ ScanStep \/ UpdateStep \/ EraseSize

Next == \/ Step
        \/ \E b \in AppendBatches : AppendBegin(b)
        \/ \E u \in UpdateBatches : UpdateBegin(u)
        \/ \E id \in Ids : EraseEntry(id)
        \/ Close \/ Crash \/ Open

Spec == Init /\ [][Next]_vars

\* No operation blocks or yields while it holds the lock: the thread that
\* runs it goes on until it returns.
FairSpec == Spec /\ WF_vars(Step)
----------------------------------------------------------------------------
(* Properties *)

Labels == {"idle", "down", "fault", "data", "tail", "entry",
           "append", "append_id", "append_size",
           "fill", "fill_id", "scan", "scan_entry", "scan_size",
           "update", "update_size", "erase_size"}

\* Types of the files, of the mapping and of the locals of append, update
\* and erase.
TypeOK ==
  /\ coll_size \in 0 .. NF /\ next_id \in 0 .. MaxDocs /\ last_chunk_id \in ChunkIds
  /\ meta \in [Ids -> Entry]
  /\ tail \in [ChunkIds -> 0 .. ChunkSize]
  /\ data \in [ChunkIds -> [Words -> Vals \cup {Nothing}]]
  /\ mapped \in Nat /\ mapped >= InitSlots
  /\ pc \in Labels
  /\ docs \in Seq(Doc) /\ ids \in Seq(Ids) /\ entries \in Seq(Entry)
  /\ i \in 1 .. Len(docs) + 1 /\ next_offset \in Hdr .. ChunkSize
  /\ result \in {"OK", "SizeError"} /\ crashes \in 0 .. MaxCrashes
  /\ committed \in [Ids -> Doc \cup {Erased}] /\ torn \subseteq Ids

\* An entry owns the words [offset, offset + allocated) of its chunk, unless
\* the document was erased or never had any content.
Owns(id)   == id < next_id /\ meta[id].chunk # NF /\ meta[id].allocated > 0
Extent(id) == meta[id].offset .. meta[id].offset + meta[id].allocated - 1

\* What an update may overwrite in place belongs to one document only: no
\* sequence of appends, updates, erasures, rotations and restarts makes two
\* documents share a word of a chunk.
ExtentsDisjoint ==
  \A x, y \in Ids :
    /\ x # y /\ Owns(x) /\ Owns(y) /\ meta[x].chunk = meta[y].chunk
    => Extent(x) \cap Extent(y) = {}

\* The entry of id describes d and the words it points at contain d.
Holds(id, d) ==
  /\ meta[id].size = d.size
  /\ d.size \notin {0, NF} =>
       /\ meta[id].chunk \in 0 .. last_chunk_id
       /\ meta[id].offset >= Hdr /\ meta[id].offset + d.size <= ChunkSize
       /\ \A w \in meta[id].offset .. meta[id].offset + d.size - 1 :
            data[meta[id].chunk][w] = d.val

\* Every document that was committed is on the files as it was last written,
\* whatever operations and crashes happened to the others, unless a crash cut
\* its own overwriting in two.
StoredDocsIntact ==
  \A id \in Ids : id < next_id /\ id \notin torn \cup InFlight => Holds(id, committed[id])

\* collection.h promises the number of documents currently stored.  The count
\* and the entries are separate stores: a crash between them loses or keeps
\* one, and nothing but a crash makes the two disagree.
Live == {id \in Ids : id < next_id /\ meta[id].size # NF}
CollSizeExactButForCrashes ==
  pc = "idle" => \E d \in -crashes .. crashes : coll_size = (Cardinality(Live) + d) % (NF + 1)

\* An update that reports success has stored every document of its batch
\* (the last of those given for the same id, or one that was appended).
UpdateOKMeansStored ==
  [][ids # << >> /\ pc' = "idle" /\ result' = "OK"
     => \A k \in DOMAIN ids :
          committed[ids[k]] \in {docs[j] : j \in {j \in DOMAIN ids : ids[j] = ids[k]}}]_vars

\* The thread that holds the lock of the collection always comes to the end
\* of its operation: no loop of append or update runs forever.
OperationsEnd == Running ~> ~Running

\* The collection implements the abstract store.  A document whose entry has
\* yet to follow its new contents, or never did, counts as damaged.
DocOf(id) ==
  IF id \in torn \cup InFlight THEN [size |-> NF, words |-> "damaged"]
  ELSE IF meta[id].size = NF THEN [size |-> NF, words |-> "erased"]
  ELSE [size |-> meta[id].size, words |-> Contents(id)]

Abstract == INSTANCE DocStore WITH
  store     <- [n \in 1 .. next_id |-> DocOf(n - 1)],
  Documents <- {[size |-> d.size, words |-> [w \in 1 .. d.size |-> d.val]] : d \in Doc},
  Erased    <- [size |-> NF, words |-> "erased"],
  Damaged   <- [size |-> NF, words |-> "damaged"]

ImplementsDocStore == Abstract!Spec

----------------------------------------------------------------------------
(* What the code does not keep: each of these has a short counterexample,  *)
(* which the README gives with the instance that shows it.                 *)

\* An update overwrites space the entry owns: the comment above the branch
\* says it is known to be allocated.
NeverFaults == pc # "fault"

\* Documents are created by an update only on request.
NewIdsOnlyOnRequest ==
  pc = "fill_id" =>
    \E u \in UpdateBatches : u.ids = ids /\ u.docs = docs /\ u.update_new

\* A document that was stored can be loaded again, in this life of the
\* process or the next.
StoredDocsReadable ==
  pc = "idle" => \A id \in Ids \ torn : id < next_id /\ committed[id] # Erased
    => read(id) = [status |-> "OK", doc |-> [w \in 1 .. committed[id].size |-> committed[id].val]]
=============================================================================
