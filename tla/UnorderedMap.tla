---------------------------- MODULE UnorderedMap ----------------------------
(***************************************************************************)
(* src/backends/unordered_map.cpp: MapDatabase without an order.  There are *)
(* no listings; fetch stops at a callback that fails and may consume.       *)
(***************************************************************************)
EXTENDS MapDatabase

unordered_map_count(t) == req[t].op = "count" /\ Scan(t)

unordered_map_exists(t) ==
  req[t].op = "exists" /\ (ReadFound(t) \/ ReadAbsent(t) \/ ReadExpects(t) \/ ReadEnd(t))
unordered_map_length(t) ==
  req[t].op = "length" /\ (ReadFound(t) \/ ReadAbsent(t) \/ ReadExpects(t) \/ ReadEnd(t))

unordered_map_put(t) == Put(t)

unordered_map_get(t) == (req[t].op = "get" /\ Read(t)) \/ SecondUnlock(t)

\* The keys of a fetch, whose callback may end it.
FetchKey(t) ==
  /\ req[t].op = "fetch"
  /\ \/ ~req[t].fails /\ (ReadFound(t) \/ ReadAbsent(t))
     \/ Reading(t) /\ More(t) /\ (db[Key(t)] # Absent \/ ~req[t].wait) /\ CallbackFails(t)
     \/ ReadExpects(t)
unordered_map_fetch(t) ==
  FetchKey(t) \/ (req[t].op = "fetch" /\ (ReadEnd(t) \/ Consume(t)))

unordered_map_erase(t) == Erase(t)

\* What DatabaseInterface does for an operation a backend does not have.
Unsupported(t) ==
  /\ At(t, "lock") /\ req[t].op \in {"list", "iter"}
  /\ Goto(t, "idle") /\ status' = [status EXCEPT ![t] = "NotSupported"]
  /\ UNCHANGED <<left, req, idx, got, data, calm, lock, watcher>>

UnorderedMapMigrationHandle(t) == Snapshot(t) \/ MigrateCancel(t) \/ MigrateEnd(t)
unordered_map_startMigration(t) == startMigration(t)

unordered_map_Run(t) ==
  \/ (req[t].op \notin {"list", "iter"} /\ Acquire(t)) \/ Waiting(t) \/ Unsupported(t)
  \/ unordered_map_count(t) \/ unordered_map_exists(t) \/ unordered_map_length(t)
  \/ unordered_map_put(t) \/ unordered_map_get(t) \/ unordered_map_fetch(t)
  \/ unordered_map_erase(t) \/ UnorderedMapMigrationHandle(t) \/ unordered_map_startMigration(t)
=============================================================================
