------------------------------ MODULE DocMixin ------------------------------
(***************************************************************************)
(* include/yokan/doc-mixin.hpp: collections on top of a key/value backend. *)
(* A document is a pair whose key is made of the name of the collection    *)
(* and of its id; the size of the collection and its next id are the value *)
(* of the name.  A copy of the latter is cached, and docStore leaves its   *)
(* first change of it in the cache.                                        *)
(*                                                                         *)
(* The key/value backend is the layer below: one call of it is one step.   *)
(* db.disk and db.docs are what it stores, db.cache is m_cached_metadata.  *)
(***************************************************************************)
EXTENDS DocRequests

CollectionMetadata == [size |-> 0, next_id |-> 0]

mixin_Fresh == [disk |-> None, cache |-> None, docs |-> <<>>]
mixin_Docs(d) == d.docs
mixin_There(d) == d.cache # None \/ d.disk # None
mixin_Size(d) == (IF d.cache # None THEN d.cache ELSE d.disk).size

_collExists == db.disk # None

\* The metadata, None if there is none, and the database after the lookup.
_collGetMetadata == IF db.cache # None THEN db.cache ELSE db.disk
Cached == [db EXCEPT !.cache = _collGetMetadata]

_collPutMetadata(m, flush_to_disk) ==
    [db EXCEPT !.cache = m, !.disk = IF flush_to_disk THEN m ELSE @]

\* A call of the layer below fails while this thread may hold the lock.
Fails(t, locked, d) ==
    /\ conf.faults /\ ~disturbed
    /\ disturbed' = TRUE
    /\ db' = d
    /\ Uncertain(t)
    /\ IF locked THEN Unlock ELSE UNCHANGED lock
    /\ UNCHANGED <<conf, target, left>>

-----------------------------------------------------------------------------

mixin_collCreate(t) ==
    \/ /\ At(t, "create", "start")
       /\ IF _collExists THEN CanWrite /\ Answer(t, "KeyExists") /\ UNCHANGED lock
          ELSE Wrlock /\ Goto(t, "put") /\ UNCHANGED ghosts
       /\ UNCHANGED <<db, target, shared>>
    \/ /\ At(t, "create", "put")
       /\ db' = _collPutMetadata(CollectionMetadata, TRUE)
       /\ Answer(t, "OK") /\ Unlock
       /\ UNCHANGED <<target, shared>>
    \/ At(t, "create", "put") /\ Fails(t, TRUE, db)

mixin_collDrop(t) ==
    \/ /\ At(t, "drop", "start")
       /\ db' = Cached
       /\ IF _collGetMetadata = None
          THEN CanWrite /\ Answer(t, "NotFound") /\ UNCHANGED lock
          ELSE /\ Wrlock /\ UNCHANGED ghosts
               /\ th' = [th EXCEPT ![t].pc = "erase", ![t].meta = _collGetMetadata]
       /\ UNCHANGED <<target, shared>>
    \/ /\ At(t, "drop", "erase")
       /\ db' = [disk |-> None, cache |-> None,
                 docs |-> Without(db.docs, 0 .. th[t].meta.next_id - 1)]
       /\ Dropped(t) /\ Unlock
       /\ UNCHANGED <<target, shared>>
    \/ At(t, "drop", "erase") /\ Fails(t, TRUE, [db EXCEPT !.cache = None])

mixin_collExists(t) ==
    /\ At(t, "exists", "start") /\ ~writing
    /\ AnswerWith(t, <<_collExists>>)
    /\ UNCHANGED <<db, target, shared, lock>>

\* The id before the first one is the largest unsigned integer.
Before(id) == IF id = 0 THEN UnsignedMax ELSE id - 1

MetadataOf(t, kind, field(_)) ==
    /\ At(t, kind, "start") /\ ~writing
    /\ db' = Cached
    /\ IF _collGetMetadata = None THEN Answer(t, "NotFound")
       ELSE AnswerWith(t, <<field(_collGetMetadata)>>)
    /\ UNCHANGED <<target, shared, lock>>

mixin_collLastID(t) == MetadataOf(t, "last_id", LAMBDA m : Before(m.next_id))

mixin_collSize(t) == MetadataOf(t, "coll_size", LAMBDA m : m.size)

mixin_docSize(t) ==
    /\ At(t, "size", "start")
    /\ AnswerWith(t, [n \in DOMAIN th[t].op.ids |-> th[t].op.ids[n] \in DOMAIN db.docs])
    /\ UNCHANGED <<db, target, shared, lock>>

-----------------------------------------------------------------------------
\* Ids are taken in one critical section and documents counted in another;
\* they are put in between, without the lock.

\* Mutant: the ids are not taken.
Reserve_nothing(t, m) == m

Reserve(t, m) == [m EXCEPT !.next_id = @ + Len(th[t].op.docs)]

docStore_reserve(t) ==
    /\ At(t, "store", "start") /\ CanWrite
    /\ LET m == _collGetMetadata IN
         IF m = None THEN Answer(t, "NotFound") /\ UNCHANGED db
         ELSE /\ db' = _collPutMetadata(Reserve(t, m), FALSE)
              /\ th' = [th EXCEPT ![t].pc = "put", ![t].meta = Reserve(t, m),
                                  ![t].i = m.next_id]
              /\ UNCHANGED ghosts
    /\ UNCHANGED <<target, shared, lock>>

docStore_put(t) ==
    /\ At(t, "store", "put")
    /\ db' = [db EXCEPT !.docs = Over(From(th[t].i, th[t].op.docs), @)]
    /\ Goto(t, "count")
    /\ UNCHANGED <<target, shared, ghosts, lock>>

\* Mutant: the copy of the first section is always used.
docStore_count_stale(t) ==
    /\ At(t, "store", "count") /\ CanWrite
    /\ db' = _collPutMetadata([th[t].meta EXCEPT !.size = @ + Len(th[t].op.docs)], TRUE)
    /\ Stored(t, th[t].i, th[t].op.docs)
    /\ UNCHANGED <<target, shared, lock>>

\* If the metadata is gone the copy of the first section is used.
docStore_count(t) ==
    /\ At(t, "store", "count") /\ CanWrite
    /\ LET m == IF _collGetMetadata = None THEN th[t].meta ELSE _collGetMetadata IN
         db' = _collPutMetadata([m EXCEPT !.size = @ + Len(th[t].op.docs)], TRUE)
    /\ Stored(t, th[t].i, th[t].op.docs)
    /\ UNCHANGED <<target, shared, lock>>

mixin_docStore(t) ==
    \/ docStore_reserve(t) \/ docStore_put(t) \/ docStore_count(t)
    \/ At(t, "store", "put") /\ Fails(t, FALSE, db)
    \/ At(t, "store", "count") /\ CanWrite /\ Fails(t, FALSE, Cached)

mixin_docUpdate(t) ==
    LET op == th[t].op
        m == _collGetMetadata
        new == {id \in ToSet(op.ids) : id \notin DOMAIN db.docs} IN
    \/ /\ At(t, "update", "start")
       /\ db' = Cached
       /\ IF m = None \/ (~op.new /\ \E id \in ToSet(op.ids) : id >= m.next_id)
          THEN /\ CanWrite /\ UNCHANGED lock
               /\ Answer(t, IF m = None THEN "NotFound" ELSE "InvalidID")
          ELSE /\ Wrlock /\ UNCHANGED ghosts
               /\ th' = [th EXCEPT ![t].meta = m, ![t].pc = IF op.new THEN "exists" ELSE "put"]
       /\ UNCHANGED <<target, shared>>
    \/ /\ At(t, "update", "exists")
       /\ th' = [th EXCEPT ![t].pc = "put", ![t].meta.size = @ + Cardinality(new),
                           ![t].meta.next_id = Max(ToSet(op.ids)) + 1]
       /\ UNCHANGED <<db, target, shared, ghosts, lock>>
    \/ /\ At(t, "update", "put")
       /\ db' = [db EXCEPT !.docs = Over(Named(op), @)]
       /\ IF op.new THEN Goto(t, "meta") /\ UNCHANGED <<ghosts, lock>>
          ELSE Updated(t) /\ Unlock
       /\ UNCHANGED <<target, shared>>
    \/ /\ At(t, "update", "meta")
       /\ db' = _collPutMetadata(th[t].meta, TRUE)
       /\ Updated(t) /\ Unlock
       /\ UNCHANGED <<target, shared>>
    \/ (At(t, "update", "put") \/ At(t, "update", "meta")) /\ Fails(t, TRUE, db)

mixin_docErase(t) ==
    LET ids == ToSet(th[t].op.ids) IN
    \/ /\ At(t, "erase", "start") /\ Wrlock
       /\ th' = [th EXCEPT ![t].pc = "erase", ![t].i = Cardinality(ids \cap DOMAIN db.docs)]
       /\ UNCHANGED <<db, target, shared, ghosts>>
    \/ /\ At(t, "erase", "erase")
       /\ IF _collGetMetadata = None THEN Answer(t, "NotFound") /\ Unlock /\ UNCHANGED db
          ELSE /\ db' = [Cached EXCEPT !.docs = Without(@, ids)]
               /\ Goto(t, "meta") /\ UNCHANGED <<ghosts, lock>>
       /\ UNCHANGED <<target, shared>>
    \/ /\ At(t, "erase", "meta")
       /\ db' = _collPutMetadata([db.cache EXCEPT
                  !.size = (@ + UnsignedMax + 1 - th[t].i) % (UnsignedMax + 1)], TRUE)
       /\ Erased(t) /\ Unlock
       /\ UNCHANGED <<target, shared>>
    \/ (At(t, "erase", "erase") \/ At(t, "erase", "meta")) /\ Fails(t, TRUE, Cached)

-----------------------------------------------------------------------------

Present(ids, docs) == Restrict(docs, ToSet(ids) \cap DOMAIN docs)

\* Mutant: the lock is kept.
ReadUnderLock_keeps(t, kind, must_exist) ==
    \/ /\ At(t, kind, "start") /\ ~writing
       /\ IF must_exist /\ ~_collExists THEN Answer(t, "NotFound") /\ UNCHANGED lock
          ELSE Rdlock /\ Goto(t, "get") /\ UNCHANGED ghosts
       /\ UNCHANGED <<db, target, shared>>
    \/ /\ At(t, kind, "get")
       /\ AnswerWith(t, Present(th[t].op.ids, db.docs))
       /\ UNCHANGED <<db, target, shared, lock>>

ReadUnderLock(t, kind, must_exist) ==
    \/ /\ At(t, kind, "start") /\ ~writing
       /\ IF must_exist /\ ~_collExists THEN Answer(t, "NotFound") /\ UNCHANGED lock
          ELSE Rdlock /\ Goto(t, "get") /\ UNCHANGED ghosts
       /\ UNCHANGED <<db, target, shared>>
    \/ /\ At(t, kind, "get")
       /\ AnswerWith(t, Present(th[t].op.ids, db.docs)) /\ Unlock
       /\ UNCHANGED <<db, target, shared>>

mixin_docLoad(t) == ReadUnderLock(t, "load", TRUE)
mixin_docFetch(t) == ReadUnderLock(t, "fetch", FALSE)

\* A listing needs the next id, which it reads under the lock, and then goes
\* through the layer below without it: in one call if the backend is sorted,
\* otherwise document by document.

\* Mutant: the first id is not part of the listing.
Listed_exclusive(from, max, docs) ==
    Restrict(docs, {id \in DOMAIN docs : id > from})

Listed(from, max, docs) ==
    LET ids == {id \in DOMAIN docs : id >= from} IN
    Restrict(docs, {id \in ids : max = 0 \/ Cardinality({j \in ids : j < id}) < max})

Walk(t, kind) ==
    \/ /\ At(t, kind, "start") /\ ~writing
       /\ db' = Cached
       /\ IF _collGetMetadata = None THEN Answer(t, "NotFound")
          ELSE /\ th' = [th EXCEPT ![t].pc = "walk", ![t].meta = _collGetMetadata,
                                   ![t].i = th[t].op.from]
               /\ UNCHANGED ghosts
       /\ UNCHANGED <<target, shared, lock>>
    \/ /\ At(t, kind, "walk") /\ conf.sorted
       /\ AnswerWith(t, Listed(th[t].op.from, th[t].op.max, db.docs))
       /\ UNCHANGED <<db, target, shared, lock>>

More(t) == /\ th[t].i < th[t].meta.next_id
           /\ th[t].op.max = 0 \/ Cardinality(DOMAIN th[t].got) < th[t].op.max

StepTo(t, got) ==
    /\ th' = [th EXCEPT ![t].i = @ + 1, ![t].got = got]
    /\ UNCHANGED <<db, target, shared, ghosts, lock>>

WalkUnsorted(t, kind) ==
    /\ At(t, kind, "walk") /\ ~conf.sorted /\ More(t) /\ th[t].i \in DOMAIN db.docs
    /\ StepTo(t, Over(Restrict(db.docs, {th[t].i}), th[t].got))

WalkEnds(t, kind) ==
    /\ At(t, kind, "walk") /\ ~conf.sorted /\ ~More(t)
    /\ AnswerWith(t, th[t].got)
    /\ UNCHANGED <<db, target, shared, lock>>

\* docList takes a document that is gone for the end.
mixin_docList(t) ==
    \/ Walk(t, "list") \/ WalkUnsorted(t, "list") \/ WalkEnds(t, "list")
    \/ /\ At(t, "list", "walk") /\ ~conf.sorted /\ More(t) /\ th[t].i \notin DOMAIN db.docs
       /\ AnswerWith(t, th[t].got)
       /\ UNCHANGED <<db, target, shared, lock>>

mixin_docIter(t) ==
    \/ Walk(t, "iter") \/ WalkUnsorted(t, "iter") \/ WalkEnds(t, "iter")
    \/ /\ At(t, "iter", "walk") /\ ~conf.sorted /\ More(t) /\ th[t].i \notin DOMAIN db.docs
       /\ StepTo(t, th[t].got)

\* The backend is opened again on the same data.
mixin_Restart == Died /\ db' = [db EXCEPT !.cache = None]

mixin_Run(t) ==
    \/ mixin_collCreate(t) \/ mixin_collDrop(t) \/ mixin_collExists(t)
    \/ mixin_collLastID(t) \/ mixin_collSize(t) \/ mixin_docSize(t)
    \/ mixin_docStore(t) \/ mixin_docUpdate(t) \/ mixin_docErase(t)
    \/ mixin_docLoad(t) \/ mixin_docFetch(t) \/ mixin_docList(t) \/ mixin_docIter(t)
=============================================================================
