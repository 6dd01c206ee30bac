----------------------------- MODULE LogDatabase -----------------------------
(***************************************************************************)
(* src/backends/log.cpp, LogDatabase: the table of collections and its     *)
(* lock.  A Collection (LogCollection) has a lock of its own, and keeps    *)
(* what DocStore promises: one call of it is one step.  A request holds    *)
(* the lock of the table as a reader through all of its calls.             *)
(*                                                                         *)
(* db.open says whether the collection is in the table, db.files whether   *)
(* it has files, and db.docs is what they hold.                            *)
(***************************************************************************)
EXTENDS DocRequests

log_Fresh == [open |-> FALSE, files |-> FALSE, docs |-> <<>>]

log_Ids(d) == {id \in 0 .. Len(d.docs) - 1 : d.docs[id + 1] # Hole}
log_Docs(d) == IF d.open THEN [id \in log_Ids(d) |-> d.docs[id + 1]] ELSE <<>>
log_There(d) == d.open
log_Size(d) == Cardinality(log_Ids(d))

last_id == IF db.docs = <<>> THEN UnsignedMax ELSE Len(db.docs) - 1

-----------------------------------------------------------------------------

\* The Collection opens the files it finds.
log_collCreate(t) ==
    /\ At(t, "create", "start") /\ CanWrite
    /\ IF db.open THEN Answer(t, "KeyExists") /\ UNCHANGED db
       ELSE Answer(t, "OK") /\ db' = [db EXCEPT !.open = TRUE, !.files = TRUE]
    /\ UNCHANGED <<target, shared, lock>>

\* The directory that is removed is not where the files are.
log_collDrop(t) ==
    /\ At(t, "drop", "start") /\ CanWrite
    /\ IF db.open THEN Dropped(t) /\ db' = [db EXCEPT !.open = FALSE]
       ELSE Answer(t, "NotFound") /\ UNCHANGED db
    /\ UNCHANGED <<target, shared, lock>>

\* Requests that find the collection go on with it.
Lookup(t, kind) ==
    /\ At(t, kind, "start")
    /\ IF db.open
       THEN /\ Rdlock /\ UNCHANGED ghosts
            /\ th' = [th EXCEPT ![t].pc = "found",
                        ![t].i = IF kind = "iter" \/ kind = "list" THEN th[t].op.from ELSE 1]
       ELSE /\ ~writing /\ UNCHANGED lock
            /\ Answer(t, IF kind = "size" THEN "OK" ELSE "NotFound")
    /\ UNCHANGED <<db, target, shared>>

Finish(t) == AnswerWith(t, th[t].got) /\ Unlock /\ UNCHANGED <<db, target, shared>>

log_collExists(t) ==
    /\ At(t, "exists", "start") /\ ~writing
    /\ AnswerWith(t, <<db.open>>)
    /\ UNCHANGED <<db, target, shared, lock>>

Tells(t, kind, got) ==
    \/ Lookup(t, kind)
    \/ /\ At(t, kind, "found")
       /\ AnswerWith(t, got) /\ Unlock
       /\ UNCHANGED <<db, target, shared>>

log_collLastID(t) == Tells(t, "last_id", <<last_id>>)
log_collSize(t) == Tells(t, "coll_size", <<log_Size(db)>>)

log_docStore(t) ==
    \/ Lookup(t, "store")
    \/ /\ At(t, "store", "found")
       /\ db' = [db EXCEPT !.docs = @ \o th[t].op.docs]
       /\ Stored(t, Len(db.docs), th[t].op.docs) /\ Unlock
       /\ UNCHANGED <<target, shared>>

\* What is beyond the end is decided by one call and written by another.
Replaced(docs, id, doc) ==
    [n \in 1 .. Max({Len(docs), id + 1}) |->
        IF n = id + 1 THEN doc ELSE IF n \in DOMAIN docs THEN docs[n] ELSE Hole]

log_docUpdate(t) ==
    LET op == th[t].op IN
    \/ Lookup(t, "update")
    \/ /\ At(t, "update", "found")
       /\ IF ~op.new /\ \E id \in ToSet(op.ids) : id > last_id
          THEN Answer(t, "InvalidID") /\ Unlock
          ELSE Goto(t, "update") /\ UNCHANGED <<ghosts, lock>>
       /\ UNCHANGED <<db, target, shared>>
    \/ /\ At(t, "update", "update")
       /\ db' = [db EXCEPT !.docs =
                   FoldLeft(LAMBDA docs, n : Replaced(docs, op.ids[n], op.docs[n]),
                            @, [n \in DOMAIN op.ids |-> n])]
       /\ Updated(t) /\ Unlock
       /\ UNCHANGED <<target, shared>>

\* The others go through their ids one call at a time.
Current(t) == th[t].op.ids[th[t].i]
InRange(t) == th[t].i <= Len(th[t].op.ids)
Here(id) == IF id \in log_Ids(db) THEN [j \in {id} |-> db.docs[id + 1]] ELSE <<>>

ForEach(t, kind) ==
    \/ Lookup(t, kind)
    \/ /\ At(t, kind, "found") /\ InRange(t)
       /\ th' = [th EXCEPT ![t].i = @ + 1, ![t].got = Over(Here(Current(t)), @)]
       /\ UNCHANGED <<db, target, shared, ghosts, lock>>
    \/ At(t, kind, "found") /\ ~InRange(t) /\ Finish(t)

log_docLoad(t) == ForEach(t, "load")
log_docFetch(t) == ForEach(t, "fetch")
log_docSize(t) == ForEach(t, "size")

log_docErase(t) ==
    \/ Lookup(t, "erase")
    \/ /\ At(t, "erase", "found") /\ InRange(t)
       /\ db' = IF Current(t) \in log_Ids(db)
                THEN [db EXCEPT !.docs[Current(t) + 1] = Hole] ELSE db
       /\ th' = [th EXCEPT ![t].i = @ + 1]
       /\ UNCHANGED <<target, shared, ghosts, lock>>
    \/ /\ At(t, "erase", "found") /\ ~InRange(t)
       /\ Erased(t) /\ Unlock
       /\ UNCHANGED <<db, target, shared>>

\* The end of the collection is looked up again before each document.  In an
\* empty collection the last id is the largest unsigned integer, and the walk
\* never ends.
Walks(t, kind) ==
    LET more == th[t].i <= last_id /\ Cardinality(DOMAIN th[t].got) < th[t].op.max IN
    \/ Lookup(t, kind)
    \/ /\ At(t, kind, "found") /\ more
       /\ th' = [th EXCEPT ![t].i = (@ + 1) % (UnsignedMax + 1),
                           ![t].got = Over(Here(th[t].i), @)]
       /\ UNCHANGED <<db, target, shared, ghosts, lock>>
    \/ At(t, kind, "found") /\ ~more /\ Finish(t)

log_docIter(t) == Walks(t, "iter")
log_docList(t) == Walks(t, "list")

-----------------------------------------------------------------------------
\* The files are transferred under the lock, which is released before destroy
\* takes it again.

log_recover(d) == [d EXCEPT !.open = d.files]

log_startMigration(t) ==
    \/ /\ At(t, "migrate", "start")
       /\ IF target = None THEN Goto(t, "lock") /\ UNCHANGED ghosts
          ELSE Answer(t, "Migrated")
       /\ UNCHANGED <<db, target, shared, lock>>
    \/ /\ At(t, "migrate", "lock") /\ Wrlock
       /\ Goto(t, "transfer")
       /\ UNCHANGED <<db, target, shared, ghosts>>

log_destroy(t) ==
    /\ At(t, "migrate", "destroy") /\ CanWrite
    /\ db' = log_Fresh
    /\ Answer(t, "OK")
    /\ UNCHANGED <<target, shared, lock>>

LogMigrationHandle(t) ==
    \/ /\ At(t, "migrate", "transfer")
       /\ \/ Answer(t, "OK") /\ UNCHANGED target              \* cancelled
          \/ /\ target' = [coll |-> log_recover(db)]
             /\ Goto(t, "destroy") /\ UNCHANGED ghosts
       /\ Unlock /\ UNCHANGED <<db, shared>>
    \/ log_destroy(t)

\* The table is made from the files that are found.
log_Restart == Died /\ db' = log_recover(db)

log_Run(t) ==
    \/ log_collCreate(t) \/ log_collDrop(t) \/ log_collExists(t)
    \/ log_collLastID(t) \/ log_collSize(t) \/ log_docSize(t)
    \/ log_docStore(t) \/ log_docUpdate(t) \/ log_docErase(t)
    \/ log_docLoad(t) \/ log_docFetch(t) \/ log_docList(t) \/ log_docIter(t)
    \/ log_startMigration(t) \/ LogMigrationHandle(t)
=============================================================================
