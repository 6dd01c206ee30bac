-------------------------------- MODULE GDBM ---------------------------------
(***************************************************************************)
(* src/backends/gdbm.cpp: a put writes its pairs one by one as a write      *)
(* section of the lock, everything else is a read section.                  *)
(***************************************************************************)
EXTENDS LibraryBackend

gdbm_supportsMode == {"inclusive", "consume", "new_only", "exist_only"}

gdbm_count(t) == Refuse(t, "count", "NotSupported")

gdbm_exists(t) == LookEach(t, "exists", Found(t))
gdbm_length(t) == LookEach(t, "length", Size(t))

gdbm_put(t) ==
  \/ EnterWriting(t, "put") \/ Done(t, "put", {})
  \/ /\ In(t, "put") /\ More(t)
     /\ IF Has(t, "exist_only") /\ ~Found(t) THEN PutRefused(t, "NotFound")
        ELSE IF Has(t, "new_only") /\ ~Has(t, "exist_only") /\ Found(t) THEN PutRefused(t, "KeyExists")
        ELSE PutPair(t, Stored(db, Key(t), Value(t)))

\* The lock is left before gdbm_erase is called, and once more at the end.
gdbm_get(t)   == GetEach(t, TRUE)
gdbm_fetch(t) == FetchEach(t, TRUE)
gdbm_erase(t) == EraseEach(t)

\* The handle closes the database and opens it again when it is cancelled.
GDBMMigrationHandle(t) == HandOver(t) \/ Cancel(t) \/ Removed(t)
gdbm_startMigration(t) == CheckMigrated(t)

gdbm_Step(t) ==
  \/ Receive(t, gdbm_supportsMode) \/ gdbm_count(t) \/ gdbm_exists(t) \/ gdbm_length(t)
  \/ gdbm_put(t) \/ gdbm_get(t) \/ gdbm_fetch(t) \/ gdbm_erase(t) \/ SecondUnlock(t)
  \/ gdbm_startMigration(t) \/ GDBMMigrationHandle(t)
=============================================================================
