----------------------------- MODULE BerkeleyDB ------------------------------
(***************************************************************************)
(* src/backends/berkeleydb.cpp: no lock and no migration; a cursor reads    *)
(* the database as it is and keeps a read lock on the page it stands on.    *)
(***************************************************************************)
EXTENDS LibraryBackend

berkeleydb_supportsMode == {"inclusive", "consume", "new_only"}

\* The pages of a small database are one page (DB_INIT_LOCK).
PageLocked(t) == \E u \in Threads \ {t} : open[u].cursor > 0

berkeleydb_count(t) == Refuse(t, "count", "NotSupported")

berkeleydb_exists(t) == LookEach(t, "exists", Found(t))
berkeleydb_length(t) == LookEach(t, "length", Size(t))

berkeleydb_put(t) ==
  \/ Enter(t, "put") \/ Insane(t, "put") \/ Done(t, "put", {})
  \/ /\ In(t, "put") /\ More(t) /\ ~PageLocked(t)
     /\ IF Has(t, "new_only") /\ Found(t) THEN PutRefused(t, "KeyExists")
        ELSE PutPair(t, Stored(db, Key(t), Value(t)))

berkeleydb_get(t)   == GetEach(t, FALSE)
berkeleydb_fetch(t) == FetchEach(t, FALSE)

berkeleydb_erase(t) == \/ Enter(t, "erase") \/ Overrun(t, "erase") \/ Done(t, "erase", {})
                       \/ ~PageLocked(t) /\ EraseKey(t)

\* DB_SET_RANGE writes the key it finds into the buffer of fromKey, with which
\* it is compared afterwards: every key of the same size counts as fromKey.
SetRange(t) ==
  LET from == th[t].req.from
      here == {k \in Present(db) : k >= from}
      same == here # {} /\ KeySize[Min(here)] = KeySize[from]
  IN IF from # 0 /\ ~Has(t, "inclusive") /\ same THEN Min(here) + 1 ELSE from

berkeleydb_OpenCursor(t, op) ==
  /\ At(t, "enter") /\ th[t].op = op /\ conf.ordered
  /\ Open(t, {"cursor"}) /\ Set(t, [pc |-> "body", at |-> SetRange(t)])
  /\ UNCHANGED <<calm, data, lock>>
Unordered(t, op) == ~conf.ordered /\ Refuse(t, op, "NotSupported")

berkeleydb_listKeys(t) == berkeleydb_OpenCursor(t, "listKeys") \/ Unordered(t, "listKeys")
                          \/ Visit(t, "listKeys", "body") \/ Listing(t, "listKeys", FALSE, {"cursor"})

berkeleydb_listKeyValues(t) ==
  \/ berkeleydb_OpenCursor(t, "listKeyValues") \/ Unordered(t, "listKeyValues")
  \/ Visit(t, "listKeyValues", "body")
  \/ Listing(t, "listKeyValues", Short(t) /\ VShort(t), {"cursor"})

berkeleydb_iter(t) == berkeleydb_OpenCursor(t, "iter") \/ Unordered(t, "iter") \/ Visit(t, "iter", "call")
                      \/ Answered(t, "iter", {"cursor"}) \/ IterEnd(t, {"cursor"})

berkeleydb_Step(t) ==
  \/ Receive(t, berkeleydb_supportsMode) \/ berkeleydb_count(t) \/ berkeleydb_exists(t)
  \/ berkeleydb_length(t) \/ berkeleydb_put(t) \/ berkeleydb_get(t) \/ berkeleydb_fetch(t)
  \/ berkeleydb_erase(t) \/ berkeleydb_listKeys(t) \/ berkeleydb_listKeyValues(t)
  \/ berkeleydb_iter(t) \/ SecondUnlock(t)
=============================================================================
