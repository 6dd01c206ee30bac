---------------------------- MODULE ArrayDatabase ----------------------------
(***************************************************************************)
(* src/backends/array.cpp: a collection is a growing array of bytes with   *)
(* the offset and the size of each document; what is erased or replaced    *)
(* stays in the array.  Each function holds the lock of the database and   *)
(* that of the collection until it returns, and is one step.               *)
(***************************************************************************)
EXTENDS DocRequests

NOT_FOUND == -1       \* YOKAN_KEY_NOT_FOUND, as a size or an offset

Collection == [m_data |-> <<>>, m_count |-> 0, m_offsets |-> <<>>, m_sizes |-> <<>>]

array_Fresh == None

Document(c, id) == SubSeq(c.m_data, c.m_offsets[id + 1] + 1,
                          c.m_offsets[id + 1] + c.m_sizes[id + 1])

array_Ids(c) == {id \in 0 .. Len(c.m_sizes) - 1 : c.m_sizes[id + 1] # NOT_FOUND}
array_Docs(c) == IF c = None THEN <<>> ELSE [id \in array_Ids(c) |-> Document(c, id)]
array_There(c) == c # None
array_Size(c) == c.m_count

\* A function that is one critical section: it looks the collection up under
\* the lock of the readers.
In(t, kind) == At(t, kind, "start") /\ ~writing

Missing(t, kind) ==
    /\ In(t, kind) /\ db = None
    /\ Answer(t, "NotFound")
    /\ UNCHANGED <<db, target, shared, lock>>

Query(t, kind, got) ==
    /\ In(t, kind) /\ db # None
    /\ AnswerWith(t, got)
    /\ UNCHANGED <<db, target, shared, lock>>

-----------------------------------------------------------------------------

array_collCreate(t) ==
    /\ At(t, "create", "start") /\ CanWrite
    /\ db' = IF db = None THEN Collection ELSE db
    /\ Answer(t, IF db = None THEN "OK" ELSE "KeyExists")
    /\ UNCHANGED <<target, shared, lock>>

array_collDrop(t) ==
    /\ At(t, "drop", "start") /\ CanWrite
    /\ db' = None
    /\ IF db = None THEN Answer(t, "NotFound") ELSE Dropped(t)
    /\ UNCHANGED <<target, shared, lock>>

array_collExists(t) ==
    /\ At(t, "exists", "start") /\ CanWrite
    /\ AnswerWith(t, <<db # None>>)
    /\ UNCHANGED <<db, target, shared, lock>>

array_collLastID(t) ==
    \/ Missing(t, "last_id")
    \/ Query(t, "last_id",
             <<IF db.m_sizes = <<>> THEN UnsignedMax ELSE Len(db.m_sizes) - 1>>)

array_collSize(t) ==
    Missing(t, "coll_size") \/ Query(t, "coll_size", <<db.m_count>>)

array_docSize(t) ==
    /\ In(t, "size")
    /\ AnswerWith(t, [n \in DOMAIN th[t].op.ids |->
                        db # None /\ th[t].op.ids[n] \in array_Ids(db)])
    /\ UNCHANGED <<db, target, shared, lock>>

\* The array grows by all the documents of the request; each is copied where
\* the one before it ends.
Grown(c, docs) == [c EXCEPT !.m_data = @ \o FlattenSeq(docs)]
OffsetOf(c, docs, n) == Len(c.m_data) + Len(FlattenSeq(SubSeq(docs, 1, n - 1)))

Pushed(c, docs) ==
    [Grown(c, docs) EXCEPT
        !.m_sizes = @ \o [n \in DOMAIN docs |-> Len(docs[n])],
        !.m_offsets = @ \o [n \in DOMAIN docs |-> OffsetOf(c, docs, n)],
        !.m_count = @ + Len(docs)]

array_docStore(t) ==
    \/ Missing(t, "store")
    \/ /\ In(t, "store") /\ db # None
       /\ db' = Pushed(db, th[t].op.docs)
       /\ Stored(t, Len(db.m_sizes), th[t].op.docs)
       /\ UNCHANGED <<target, shared, lock>>

\* Ids up to the one that is written are created as if they had been erased.
Padded(c, id) ==
    LET holes == [n \in 1 .. Max({0, id + 1 - Len(c.m_sizes)}) |-> NOT_FOUND] IN
    [c EXCEPT !.m_sizes = @ \o holes, !.m_offsets = @ \o holes]

Written(c, id, size, offset) ==
    LET p == Padded(c, id) IN
    [p EXCEPT !.m_count = @ + (IF p.m_sizes[id + 1] = NOT_FOUND THEN 1 ELSE 0),
              !.m_sizes[id + 1] = size, !.m_offsets[id + 1] = offset]

Overwritten(c, ids, docs) ==
    FoldLeft(LAMBDA d, n : Written(d, ids[n], Len(docs[n]), OffsetOf(c, docs, n)),
             Grown(c, docs), [n \in DOMAIN ids |-> n])

array_docUpdate(t) ==
    LET op == th[t].op
        beyond == ~op.new /\ \E id \in ToSet(op.ids) : id >= Len(db.m_sizes) IN
    \/ Missing(t, "update")
    \/ /\ In(t, "update") /\ db # None /\ beyond
       /\ Answer(t, "InvalidID")
       /\ UNCHANGED <<db, target, shared, lock>>
    \/ /\ In(t, "update") /\ db # None /\ ~beyond
       /\ db' = Overwritten(db, op.ids, op.docs)
       /\ Updated(t)
       /\ UNCHANGED <<target, shared, lock>>

array_docLoad(t) ==
    \/ Missing(t, "load")
    \/ Query(t, "load", Restrict(array_Docs(db), ToSet(th[t].op.ids) \cap array_Ids(db)))

array_docFetch(t) ==
    \/ Missing(t, "fetch")
    \/ Query(t, "fetch", Restrict(array_Docs(db), ToSet(th[t].op.ids) \cap array_Ids(db)))

Removed(c, id) ==
    IF id >= Len(c.m_sizes) THEN c
    ELSE [c EXCEPT !.m_count = @ - (IF c.m_sizes[id + 1] = NOT_FOUND THEN 0 ELSE 1),
                   !.m_sizes[id + 1] = NOT_FOUND, !.m_offsets[id + 1] = NOT_FOUND]

array_docErase(t) ==
    \/ Missing(t, "erase")
    \/ /\ In(t, "erase") /\ db # None
       /\ db' = FoldLeft(Removed, db, th[t].op.ids)
       /\ Erased(t)
       /\ UNCHANGED <<target, shared, lock>>

FirstFrom(from, max, ids) ==
    {id \in ids : id >= from /\ Cardinality({j \in ids : from <= j /\ j < id}) < max}

array_docIter(t) ==
    \/ Missing(t, "iter")
    \/ Query(t, "iter", Restrict(array_Docs(db),
                          FirstFrom(th[t].op.from, th[t].op.max, array_Ids(db))))

array_docList(t) ==
    \/ Missing(t, "list")
    \/ Query(t, "list", Restrict(array_Docs(db),
                          FirstFrom(th[t].op.from, th[t].op.max, array_Ids(db))))

-----------------------------------------------------------------------------
\* A migration writes the documents one after the other into a file and holds
\* the lock until the target has recovered them, or it is cancelled.

Snapshot(c) ==
    IF c = None THEN None
    ELSE [docs |-> [n \in DOMAIN c.m_sizes |->
                      IF c.m_sizes[n] = NOT_FOUND THEN Hole ELSE Document(c, n - 1)]]

\* The target does not count the documents again.
array_recover(file) ==
    LET data == [n \in DOMAIN file.docs |-> IF file.docs[n] = Hole THEN <<>> ELSE file.docs[n]]
        sizes == [n \in DOMAIN data |-> IF file.docs[n] = Hole THEN NOT_FOUND ELSE Len(data[n])]
        offsets == [n \in DOMAIN data |-> OffsetOf(Collection, data, n)] IN
    IF file = None THEN None
    ELSE [Collection EXCEPT !.m_data = FlattenSeq(data), !.m_offsets = offsets,
                            !.m_sizes = sizes]

\* Whether the database has moved already is asked before the lock is taken.
array_startMigration(t) ==
    \/ /\ At(t, "migrate", "start")
       /\ IF target = None THEN Goto(t, "lock") /\ UNCHANGED ghosts
          ELSE Answer(t, "Migrated")
       /\ UNCHANGED <<db, target, shared, lock>>
    \/ /\ At(t, "migrate", "lock") /\ Wrlock
       /\ th' = [th EXCEPT ![t].pc = "transfer", ![t].meta = Snapshot(db)]
       /\ UNCHANGED <<db, target, shared, ghosts>>

ArrayMigrationHandle(t) ==
    /\ At(t, "migrate", "transfer")
    /\ \/ UNCHANGED <<db, target>>                      \* cancelled
       \/ /\ target' = [coll |-> array_recover(th[t].meta)]
          /\ db' = None
    /\ Answer(t, "OK") /\ Unlock
    /\ UNCHANGED shared

array_Run(t) ==
    \/ array_collCreate(t) \/ array_collDrop(t) \/ array_collExists(t)
    \/ array_collLastID(t) \/ array_collSize(t) \/ array_docSize(t)
    \/ array_docStore(t) \/ array_docUpdate(t) \/ array_docErase(t)
    \/ array_docLoad(t) \/ array_docFetch(t) \/ array_docList(t) \/ array_docIter(t)
    \/ array_startMigration(t) \/ ArrayMigrationHandle(t)
=============================================================================
