------------------------------- MODULE RocksDB -------------------------------
(***************************************************************************)
(* src/backends/rocksdb.cpp: operation by operation the calls of            *)
(* leveldb.cpp.                                                             *)
(***************************************************************************)
EXTENDS LibraryBackend

rocksdb_supportsMode == {"inclusive", "consume"}

rocksdb_count(t) == RefuseLocked(t, "count", "NotSupported")

rocksdb_exists(t) == LookEach(t, "exists", Found(t))
rocksdb_length(t) == LookEach(t, "length", Size(t))

rocksdb_put(t) == \/ Enter(t, "put") \/ Insane(t, "put")
                  \/ conf.batch /\ PutBatch(t)
                  \/ ~conf.batch /\ PutPair(t, Stored(db, Key(t), Value(t)))
                  \/ ~conf.batch /\ Done(t, "put", {})

rocksdb_get(t)   == GetEach(t, FALSE)
rocksdb_fetch(t) == FetchEach(t, FALSE)

rocksdb_erase(t) == Enter(t, "erase") \/ Insane(t, "erase") \/ EraseBatch(t)

rocksdb_NewIterator(t, op) == EnterRefused(t, op) \/ Snapshot(t, op, {"cursor"}, FirstPos(t))

rocksdb_listKeys(t) == rocksdb_NewIterator(t, "listKeys") \/ Visit(t, "listKeys", "body")
                       \/ Listing(t, "listKeys", TRUE, {"cursor"})

rocksdb_listKeyValues(t) == rocksdb_NewIterator(t, "listKeyValues") \/ Visit(t, "listKeyValues", "body")
                            \/ Listing(t, "listKeyValues", Short(t) /\ VShort(t), {"cursor"})

\* The iterator is not deleted when the callback fails.
rocksdb_iter(t) == rocksdb_NewIterator(t, "iter") \/ Visit(t, "iter", "call") \/ Answered(t, "iter", {})
                   \/ IterEnd(t, {"cursor"})

RocksDBMigrationHandle(t) == HandOver(t) \/ Cancel(t) \/ Removed(t)
rocksdb_startMigration(t) == CheckMigrated(t)

rocksdb_Step(t) ==
  \/ Receive(t, rocksdb_supportsMode) \/ rocksdb_count(t) \/ rocksdb_exists(t)
  \/ rocksdb_length(t) \/ rocksdb_put(t) \/ rocksdb_get(t) \/ rocksdb_fetch(t)
  \/ rocksdb_erase(t) \/ rocksdb_listKeys(t) \/ rocksdb_listKeyValues(t) \/ rocksdb_iter(t)
  \/ SecondUnlock(t) \/ rocksdb_startMigration(t) \/ RocksDBMigrationHandle(t)
=============================================================================
