-------------------------------- MODULE Tkrzw --------------------------------
(***************************************************************************)
(* src/backends/tkrzw.cpp: every operation is a read section of the lock    *)
(* that a migration writes.  Values are visited by record processors, which *)
(* the library calls with the record locked; iterators are live.            *)
(***************************************************************************)
EXTENDS LibraryBackend

tkrzw_supportsMode == {"inclusive", "consume", "append", "new_only"}

\* The callback of tkrzw_fetch and tkrzw_iter is called by a record processor.
RecordLocked(t) == \E u \in Threads \ {t} : th[u].pc = "call"

tkrzw_count(t) == Enter(t, "count")
                  \/ (In(t, "count") /\ Return(t, "OK") /\ UNCHANGED <<calm, data, open>>)

tkrzw_exists(t) == LookEach(t, "exists", Found(t))

GetLength(t) == Size(t)
tkrzw_length(t)    == LookEach(t, "length", GetLength(t))

tkrzw_put(t) ==
  \/ Enter(t, "put") \/ Insane(t, "put") \/ Done(t, "put", {})
  \/ /\ In(t, "put") /\ More(t) /\ ~RecordLocked(t)
     /\ IF Has(t, "append") THEN PutPair(t, Appended(db, Key(t), Value(t)))
        ELSE IF Has(t, "new_only") /\ Found(t) THEN PutRefused(t, "KeyExists")
        ELSE PutPair(t, Stored(db, Key(t), Value(t)))

GetValue(t) == Copy(t)
tkrzw_get(t) == Enter(t, "get") \/ GetValue(t) \/ Consume(t, "get", FALSE, {}) \/ Done(t, "get", {})

FetchValue(t) == Call(t) \/ CallOK(t, "fetch")
tkrzw_fetch(t) == Enter(t, "fetch") \/ FetchValue(t) \/ CallFailed(t, "fetch", {})
                  \/ Consume(t, "fetch", FALSE, {}) \/ Done(t, "fetch", {})

tkrzw_erase(t) == \/ Enter(t, "erase") \/ Overrun(t, "erase") \/ Done(t, "erase", {})
                  \/ ~RecordLocked(t) /\ EraseKey(t)

MakeIterator(t, op) ==
  \/ conf.ordered /\ EnterRefused(t, op)
  \/ conf.ordered /\ EnterAt(t, op, FirstPos(t))
  \/ ~conf.ordered /\ RefuseLocked(t, op, "NotSupported")

ListKeys(t) == Visit(t, "listKeys", "body")
tkrzw_listKeys(t) == MakeIterator(t, "listKeys") \/ ListKeys(t) \/ Listing(t, "listKeys", TRUE, {})

\* Both arrays are filled to the last key, whether there is room or not.
ListKeyVals(t)   == Visit(t, "listKeyValues", "body")
tkrzw_listKeyValues(t) == MakeIterator(t, "listKeyValues") \/ ListKeyVals(t)
                          \/ Listing(t, "listKeyValues", FALSE, {})

Iter(t) == Visit(t, "iter", "call") \/ CallOK(t, "iter")
tkrzw_iter(t) == MakeIterator(t, "iter") \/ Iter(t) \/ CallFailed(t, "iter", {}) \/ IterEnd(t, {})

TkrzwDBMigrationHandle(t) == HandOver(t) \/ Cancel(t) \/ Removed(t)

\* The databases in memory ("tiny" and "baby") have no files.
tkrzw_startMigration(t) ==
  \/ conf.files /\ CheckMigrated(t)
  \/ ~conf.files /\ Refuse(t, "migrate", "NotSupported")

tkrzw_Step(t) ==
  \/ Receive(t, tkrzw_supportsMode) \/ tkrzw_count(t) \/ tkrzw_exists(t) \/ tkrzw_length(t)
  \/ tkrzw_put(t) \/ tkrzw_get(t) \/ tkrzw_fetch(t) \/ tkrzw_erase(t) \/ tkrzw_listKeys(t)
  \/ tkrzw_listKeyValues(t) \/ tkrzw_iter(t) \/ SecondUnlock(t) \/ tkrzw_startMigration(t)
  \/ TkrzwDBMigrationHandle(t)
=============================================================================
