------------------------------- MODULE LevelDB -------------------------------
(***************************************************************************)
(* src/backends/leveldb.cpp: every operation is a read section of the lock  *)
(* that a migration writes; listings walk an iterator, which is a snapshot. *)
(***************************************************************************)
EXTENDS LibraryBackend

leveldb_supportsMode == {"inclusive", "consume"}

leveldb_count(t) == RefuseLocked(t, "count", "NotSupported")

leveldb_exists(t) == LookEach(t, "exists", Found(t))
leveldb_length(t) == LookEach(t, "length", Size(t))

leveldb_put(t) == \/ Enter(t, "put") \/ Insane(t, "put")
                  \/ conf.batch /\ PutBatch(t)
                  \/ ~conf.batch /\ PutPair(t, Stored(db, Key(t), Value(t)))
                  \/ ~conf.batch /\ Done(t, "put", {})

leveldb_get(t)   == GetEach(t, FALSE)
leveldb_fetch(t) == FetchEach(t, FALSE)

leveldb_erase(t) == Enter(t, "erase") \/ Insane(t, "erase") \/ EraseBatch(t)

leveldb_NewIterator(t, op) == EnterRefused(t, op) \/ Snapshot(t, op, {"cursor"}, FirstPos(t))

leveldb_listKeys(t) == leveldb_NewIterator(t, "listKeys") \/ Visit(t, "listKeys", "body")
                       \/ Listing(t, "listKeys", TRUE, {"cursor"})

leveldb_listKeyValues(t) == leveldb_NewIterator(t, "listKeyValues") \/ Visit(t, "listKeyValues", "body")
                            \/ Listing(t, "listKeyValues", Short(t) /\ VShort(t), {"cursor"})

\* The iterator is not deleted when the callback fails.
leveldb_iter(t) == leveldb_NewIterator(t, "iter") \/ Visit(t, "iter", "call") \/ Answered(t, "iter", {})
                   \/ IterEnd(t, {"cursor"})

LevelDBMigrationHandle(t) == HandOver(t) \/ Cancel(t) \/ Removed(t)
leveldb_startMigration(t) == CheckMigrated(t)

leveldb_Step(t) ==
  \/ Receive(t, leveldb_supportsMode) \/ leveldb_count(t) \/ leveldb_exists(t)
  \/ leveldb_length(t) \/ leveldb_put(t) \/ leveldb_get(t) \/ leveldb_fetch(t)
  \/ leveldb_erase(t) \/ leveldb_listKeys(t) \/ leveldb_listKeyValues(t) \/ leveldb_iter(t)
  \/ SecondUnlock(t) \/ leveldb_startMigration(t) \/ LevelDBMigrationHandle(t)
=============================================================================
