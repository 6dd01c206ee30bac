---------------------------- MODULE UnorderedSet ----------------------------
(***************************************************************************)
(* src/backends/unordered_set.cpp: SetDatabase without an order, listings,  *)
(* YOKAN_MODE_WAIT or YOKAN_MODE_NOTIFY.                                    *)
(***************************************************************************)
EXTENDS SetDatabase

unordered_set_supportsMode(r) == ~r.wait /\ ~r.notify

\* A handler refuses a mode that the backend does not support.
Rejected(t) ==
  /\ At(t, "idle") /\ left[t] > 0 /\ down = "up"
  /\ \E r \in conf.requests[t] :
       ~unordered_set_supportsMode(r) /\ req' = [req EXCEPT ![t] = r]
  /\ left' = [left EXCEPT ![t] = @ - 1]
  /\ status' = [status EXCEPT ![t] = "Mode"]
  /\ UNCHANGED <<pc, idx, got, data, calm, lock, watcher>>

unordered_set_count(t)  == req[t].op = "count" /\ Scan(t)
unordered_set_exists(t) == req[t].op = "exists" /\ (ReadFound(t) \/ ReadAbsent(t) \/ ReadEnd(t))
unordered_set_length(t) == req[t].op = "length" /\ (ReadFound(t) \/ ReadAbsent(t) \/ ReadEnd(t))
unordered_set_put(t)    == PutDecided(t) \/ EmplaceOnly(t) \/ PutEnd(t)
unordered_set_get(t)    == (req[t].op = "get" /\ Read(t)) \/ SecondUnlock(t)
unordered_set_fetch(t)  == FetchKey(t) \/ (req[t].op = "fetch" /\ (ReadEnd(t) \/ Consume(t)))
unordered_set_erase(t)  == Erase(t)

UnorderedSetMigrationHandle(t)  == Snapshot(t) \/ MigrateCancel(t) \/ MigrateEnd(t)
unordered_set_startMigration(t) == startMigration(t)

unordered_set_Run(t) ==
  \/ (req[t].op \notin {"list", "iter"} /\ Acquire(t)) \/ Unsupported(t)
  \/ unordered_set_count(t) \/ unordered_set_exists(t) \/ unordered_set_length(t)
  \/ unordered_set_put(t) \/ unordered_set_get(t) \/ unordered_set_fetch(t)
  \/ unordered_set_erase(t) \/ UnorderedSetMigrationHandle(t) \/ unordered_set_startMigration(t)
  \/ (pc[t] = "unlock" /\ ReturnTimedOut(t))
=============================================================================
