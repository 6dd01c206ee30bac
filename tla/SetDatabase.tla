----------------------------- MODULE SetDatabase -----------------------------
(***************************************************************************)
(* src/backends/set.cpp: keys without values.  The value of a key that is   *)
(* there is the one empty value, which is all that a put may give it.       *)
(***************************************************************************)
EXTENDS UnorderedMap

set_count(t)  == req[t].op = "count" /\ Scan(t)
set_exists(t) ==
  req[t].op = "exists" /\ (ReadFound(t) \/ ReadAbsent(t) \/ ReadExpects(t) \/ ReadEnd(t))
set_length(t) ==
  req[t].op = "length" /\ (ReadFound(t) \/ ReadAbsent(t) \/ ReadExpects(t) \/ ReadEnd(t))
set_get(t)    == (req[t].op = "get" /\ Read(t)) \/ SecondUnlock(t)
set_fetch(t)  == FetchKey(t) \/ (req[t].op = "fetch" /\ (ReadEnd(t) \/ Consume(t)))
set_erase(t)  == Erase(t)
set_listKeys(t)      == req[t].op = "list" /\ Scan(t)
set_listKeyValues(t) == req[t].op = "list" /\ Scan(t)
set_iter(t)          == req[t].op = "iter" /\ Scan(t)

\* m_migrated is looked at before the lock is waited for, and again.
RefusedEarly(t) ==
  /\ At(t, "lock") /\ req[t].op = "put" /\ migrated
  /\ Goto(t, "idle") /\ status' = [status EXCEPT ![t] = "Migrated"]
  /\ UNCHANGED <<left, req, idx, got, data, calm, lock, watcher>>

\* One key is judged by the mode; with YOKAN_MODE_EXIST_ONLY nothing is stored.
Refusal(t) ==
  IF Len(req[t].keys) # 1 THEN "OK"
  ELSE IF req[t].mode = "exist_only" /\ db[req[t].keys[1]] = Absent THEN "NotFound"
  ELSE IF req[t].mode = "new_only" /\ db[req[t].keys[1]] # Absent THEN "KeyExists"
  ELSE "OK"
Decided(t) == Refusal(t) # "OK" \/ req[t].mode = "exist_only"
PutDecided(t) ==
  /\ Putting(t) /\ Runnable(t) /\ idx[t] = 1 /\ Decided(t)
  /\ Return(t, Refusal(t))
  /\ UNCHANGED <<data, calm, watcher>>

Emplace(t) ==
  /\ Putting(t) /\ Runnable(t) /\ More(t) /\ ~(idx[t] = 1 /\ Decided(t))
  /\ db' = [db EXCEPT ![Key(t)] = IF @ = Absent THEN <<req[t].vals[idx[t]]>> ELSE @]
  /\ silent' = Unnoticed(t)
  /\ UNCHANGED <<before, calm, lock, watcher>>

EmplaceOnly(t)   == Emplace(t) /\ ~req[t].notify /\ NextKey(t) /\ UNCHANGED pc
EmplaceNotify(t) == Emplace(t) /\ req[t].notify /\ Goto(t, "notify") /\ UNCHANGED locals

\* The offset has been moved on when notifyKey is called: the name announced is
\* that of the next key or, behind the last one, whatever lies there.
NotifyNext(t) ==
  /\ At(t, "notify")
  /\ IF idx[t] < Len(req[t].keys) THEN notifyKey(req[t].keys[idx[t] + 1])
     ELSE UNCHANGED watcher \/ \E k \in Keys : notifyKey(k)
  /\ NextKey(t) /\ Goto(t, "body")
  /\ UNCHANGED <<data, calm, lock>>

set_put(t) == PutDecided(t) \/ EmplaceOnly(t) \/ EmplaceNotify(t) \/ NotifyNext(t) \/ PutEnd(t)

SetMigrationHandle(t) == Snapshot(t) \/ MigrateCancel(t) \/ MigrateEnd(t)
set_startMigration(t) == startMigration(t)

set_Run(t) ==
  \/ Acquire(t) \/ RefusedEarly(t) \/ Waiting(t) \/ set_count(t) \/ set_exists(t)
  \/ set_length(t) \/ set_put(t) \/ set_get(t) \/ set_fetch(t) \/ set_erase(t)
  \/ set_listKeys(t) \/ set_listKeyValues(t) \/ set_iter(t)
  \/ SetMigrationHandle(t) \/ set_startMigration(t)
=============================================================================
