------------------------------- MODULE UnQLite -------------------------------
(***************************************************************************)
(* src/backends/unqlite.cpp: as gdbm.cpp, but a consuming get keeps its     *)
(* lock.  Its listings are not compiled.                                    *)
(***************************************************************************)
EXTENDS LibraryBackend

unqlite_supportsMode == {"inclusive", "consume", "append"}

unqlite_count(t) == RefuseLocked(t, "count", "NotSupported")

unqlite_exists(t) == LookEach(t, "exists", Found(t))
unqlite_length(t) == LookEach(t, "length", Size(t))

unqlite_put(t) == \/ EnterWriting(t, "put") \/ Done(t, "put", {})
                  \/ PutPair(t, IF Has(t, "append") THEN Appended(db, Key(t), Value(t))
                                ELSE Stored(db, Key(t), Value(t)))

unqlite_get(t)   == GetEach(t, FALSE)
unqlite_fetch(t) == FetchEach(t, FALSE)
unqlite_erase(t) == EraseEach(t)

UnQLiteMigrationHandle(t) == HandOver(t) \/ Cancel(t) \/ Removed(t)

\* A database in memory has no files.
unqlite_startMigration(t) ==
  \/ conf.files /\ CheckMigrated(t)
  \/ ~conf.files /\ Refuse(t, "migrate", "NotSupported")

unqlite_Step(t) ==
  \/ Receive(t, unqlite_supportsMode) \/ unqlite_count(t) \/ unqlite_exists(t)
  \/ unqlite_length(t) \/ unqlite_put(t) \/ unqlite_get(t) \/ unqlite_fetch(t)
  \/ unqlite_erase(t) \/ SecondUnlock(t) \/ unqlite_startMigration(t)
  \/ UnQLiteMigrationHandle(t)
=============================================================================
