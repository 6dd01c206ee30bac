-------------------------------- MODULE LMDB ---------------------------------
(***************************************************************************)
(* src/backends/lmdb.cpp: every read is a read-only transaction, every put  *)
(* and erase a transaction that is committed at the end.                    *)
(***************************************************************************)
EXTENDS LibraryBackend

lmdb_supportsMode == {"inclusive", "consume"}

\* A read-only transaction takes the reader slot of its OS thread in the lock
\* file (no MDB_NOTLS): MDB_BAD_RSLOT, hence Status::Other, when it is taken.
SlotTaken(t) == \E u \in Threads : open[u].txn > 0 /\ (OneStream \/ u = t)

Begin(t, op, h, at) == \/ SlotTaken(t) /\ RefuseLocked(t, op, "Other")
                       \/ ~SlotTaken(t) /\ (EnterRefused(t, op) \/ Snapshot(t, op, h, at))

\* The transaction of count is never ended.
lmdb_count(t) == Begin(t, "count", {"txn"}, 1)
                 \/ (In(t, "count") /\ Return(t, "OK") /\ UNCHANGED <<calm, data, open>>)

lmdb_exists(t) == Begin(t, "exists", {"txn"}, 1) \/ Look(t, "exists", Found(t)) \/ Overrun(t, "exists")
                  \/ Done(t, "exists", {"txn"})
lmdb_length(t) == Begin(t, "length", {"txn"}, 1) \/ Look(t, "length", Size(t)) \/ Overrun(t, "length")
                  \/ Done(t, "length", {"txn"})

lmdb_put(t) == Enter(t, "put") \/ Insane(t, "put") \/ PutBatch(t)

lmdb_get(t) == Begin(t, "get", {"txn"}, 1) \/ Copy(t) \/ Consume(t, "get", FALSE, {"txn"})
               \/ Done(t, "get", {"txn"})

lmdb_fetch(t) == Begin(t, "fetch", {"txn"}, 1) \/ Call(t) \/ Answered(t, "fetch", {"txn"})
                 \/ Consume(t, "fetch", FALSE, {"txn"}) \/ Done(t, "fetch", {"txn"})

lmdb_erase(t) == Enter(t, "erase") \/ Insane(t, "erase") \/ EraseBatch(t)

\* The cursor stands on the first key at or behind fromKey, or on the one behind it.
NothingAhead(t) == th[t].at = FirstPos(t) /\ Ahead(t) = {}
FromIsLast(t)   == NothingAhead(t) /\ th[t].req.from \in Present(Seen(t)) /\ ~Has(t, "inclusive")
lmdb_OpenCursor(t, op) == Begin(t, op, {"txn", "cursor"}, FirstPos(t))

\* Nothing to list: the transaction is aborted, the cursor is not closed; with
\* an exclusive start on the last key MDB_NEXT fails and so does the listing.
NoFirstKey(t, op) ==
  /\ In(t, op) /\ NothingAhead(t)
  /\ Release /\ Close(t, {"txn"})
  /\ Set(t, [pc |-> "idle", view |-> Nothing,
             status |-> IF FromIsLast(t) THEN "NotFound" ELSE "OK",
             got |-> IF op = "iter" THEN th[t].got ELSE [n \in DOMAIN th[t].req.room |-> <<NoMore, NoMore>>]])
  /\ UNCHANGED <<calm, data>>

lmdb_listKeys(t) == lmdb_OpenCursor(t, "listKeys") \/ NoFirstKey(t, "listKeys") \/ Visit(t, "listKeys", "body")
                    \/ (th[t].op = "listKeys" /\ ~NothingAhead(t) /\ Listing(t, "listKeys", TRUE, {"txn", "cursor"}))

lmdb_listKeyValues(t) ==
  \/ lmdb_OpenCursor(t, "listKeyValues") \/ NoFirstKey(t, "listKeyValues") \/ Visit(t, "listKeyValues", "body")
  \/ (th[t].op = "listKeyValues" /\ ~NothingAhead(t)
      /\ Listing(t, "listKeyValues", Short(t) /\ VShort(t), {"txn", "cursor"}))

\* Neither is released when the callback fails.
lmdb_iter(t) == lmdb_OpenCursor(t, "iter") \/ NoFirstKey(t, "iter") \/ Visit(t, "iter", "call")
                \/ Answered(t, "iter", {})
                \/ (th[t].op = "iter" /\ ~NothingAhead(t) /\ IterEnd(t, {"txn", "cursor"}))

LMDBMigrationHandle(t) == HandOver(t) \/ Cancel(t) \/ Removed(t)
lmdb_startMigration(t) == CheckMigrated(t)

lmdb_Step(t) ==
  \/ Receive(t, lmdb_supportsMode) \/ lmdb_count(t) \/ lmdb_exists(t) \/ lmdb_length(t)
  \/ lmdb_put(t) \/ lmdb_get(t) \/ lmdb_fetch(t) \/ lmdb_erase(t) \/ lmdb_listKeys(t)
  \/ lmdb_listKeyValues(t) \/ lmdb_iter(t) \/ SecondUnlock(t) \/ lmdb_startMigration(t)
  \/ LMDBMigrationHandle(t)
=============================================================================
