---------------------------- MODULE MapDatabase -----------------------------
(***************************************************************************)
(* MapDatabase (src/backends/map.cpp), the default key/value backend: a     *)
(* sorted map behind a readers-writer lock and a KeyWatcher, called by user *)
(* level threads, one per request.                                          *)
(*                                                                          *)
(* The threads of a pool either run on one execution stream, where one      *)
(* gives way to another only where it blocks or makes a remote call, or on  *)
(* several, where any of them may take the next step.  The operator also    *)
(* chooses use_lock in the configuration; both choices are a "setup".       *)
(*                                                                          *)
(* A request is a record: op, keys (the keys it names, or the keys a        *)
(* listing visits, in order), vals and mode for a put, and the flags wait,  *)
(* notify, consume, small (its buffer is too small for the values) and      *)
(* fails (its callback reports an error).                                   *)
(***************************************************************************)
EXTENDS RWLock, KeyWatcher

CONSTANTS
  Threads, Keys, Vals,
  Absent,         \* no value
  TooSmall,       \* YOKAN_SIZE_TOO_SMALL, in place of a value
  Setups,         \* records [backend, streams, use_lock, shutdown, requests]
  MaxRequests     \* bound: requests issued by a thread

VARIABLES
  conf,           \* the setup, constant during a behaviour
  db,             \* *m_db: a sequence of Vals (what was appended) or Absent
  migrated,       \* m_migrated
  down,           \* "up", then "destroyed", "deleting", "deleted"
  left,           \* requests that a thread may still issue
  pc, req, idx,   \* per thread: next step, current request and key
  got,            \* per thread: what was copied to the caller or the file
  status,         \* per thread: what the last call returned
  before,         \* history: db when the current put began
  silent          \* history: keys last stored without YOKAN_MODE_NOTIFY

locals == <<left, req, idx, got, status>>
data   == <<db, before, silent>>
calm   == <<conf, migrated, down>>
vars   == <<conf, db, migrated, down, left, pc, req, idx, got, status,
            before, silent, lock, watcher>>

Empty == [k \in Keys |-> Absent]

Reads == {"exists", "length", "get", "fetch"}
Scans == {"count", "list", "iter"}
Modes == {"none", "append", "new_only", "exist_only", "exist_append"}

\* The count of readers can count every thread.
ASSUME ThreadsAssumption == IsFiniteSet(Threads) /\ Cardinality(Threads) <= UnsignedMax

\* What clients may ask for.
ASSUME SetupsAssumption ==
  \A c \in Setups, t \in Threads :
    c.requests[t] \subseteq
      [op : Reads \cup Scans \cup {"put", "erase", "migrate"}, keys : Seq(Keys), vals : Seq(Vals),
       mode : Modes, wait : BOOLEAN, notify : BOOLEAN, consume : BOOLEAN, small : BOOLEAN,
       fails : BOOLEAN]
-----------------------------------------------------------------------------
(* Scheduling *)

\* Where a thread can give way to another one of its execution stream: it has
\* not started, it is blocked on a lock or a condition, or it waits for the
\* answer to a remote call (a fetch or iter callback, the transfer of files).
AtYield(t) ==
  \/ pc[t] \in {"idle", "waiting", "transfer"}
  \/ pc[t] \in {"lock", "relock", "mlock"} /\ conf.use_lock
  \/ req[t].op \in {"fetch", "iter"} /\ pc[t] = "body"

OneStream == conf.streams = "one"

\* Finalization destroys and deletes the database without giving way.
Runnable(t) ==
  OneStream => down # "destroyed" /\ \A u \in Threads \ {t} : AtYield(u)

At(t, l)   == pc[t] = l /\ Runnable(t)
Goto(t, l) == pc' = [pc EXCEPT ![t] = l]
Key(t)     == req[t].keys[idx[t]]
More(t)    == idx[t] <= Len(req[t].keys)

\* The next key, with x copied for this one.
Advance(t, x) == /\ idx' = [idx EXCEPT ![t] = @ + 1]
                 /\ got' = [got EXCEPT ![t] = Append(@, x)]
                 /\ UNCHANGED <<left, req, status>>

\* Mutant of WriteLock: a writer takes the lock of the readers.
WriteLockShared == IF conf.use_lock THEN Rdlock ELSE UNCHANGED lock

ReadLock  == IF conf.use_lock THEN Rdlock ELSE UNCHANGED lock
WriteLock == IF conf.use_lock THEN Wrlock ELSE UNCHANGED lock
Release   == IF conf.use_lock THEN Unlock ELSE UNCHANGED lock

\* An erase called by get(CONSUME) returns into get, whose scoped lock is
\* destroyed in turn.
Back(t) == IF req[t].op = "erase" /\ req[t].consume THEN "unlock2" ELSE "idle"

\* Mutant of Return: an early return that forgets the lock.
ReturnKeepsLock(t, s) == /\ IF s = "OK" THEN Release ELSE UNCHANGED lock
                         /\ Goto(t, Back(t))
                         /\ status' = [status EXCEPT ![t] = s]
                         /\ UNCHANGED <<left, req, idx, got>>

Return(t, s) == /\ Release /\ Goto(t, Back(t))
                /\ status' = [status EXCEPT ![t] = s]
                /\ UNCHANGED <<left, req, idx, got>>
-----------------------------------------------------------------------------
Init ==
  /\ conf \in Setups
  /\ db = Empty /\ before = Empty /\ silent = {}
  /\ migrated = FALSE /\ down = "up"
  /\ left = [t \in Threads |-> MaxRequests]
  /\ pc = [t \in Threads |-> "idle"]
  /\ req = [t \in Threads |-> CHOOSE r \in UNION {conf.requests[u] : u \in Threads} : TRUE]
  /\ idx = [t \in Threads |-> 1]
  /\ got = [t \in Threads |-> << >>]
  /\ status = [t \in Threads |-> "OK"]
  /\ LockInit /\ WatcherInit

Start(t) ==
  /\ At(t, "idle") /\ left[t] > 0 /\ down = "up"
  /\ \E r \in conf.requests[t] : req' = [req EXCEPT ![t] = r]
  /\ left' = [left EXCEPT ![t] = @ - 1]
  /\ idx' = [idx EXCEPT ![t] = 1]
  /\ got' = [got EXCEPT ![t] = << >>]
  /\ status' = [status EXCEPT ![t] = "OK"]
  /\ Goto(t, "lock")
  /\ UNCHANGED <<data, calm, lock, watcher>>

\* m_migrated is looked at under the lock: nothing else is done when it is set.
Refused(t) ==
  /\ At(t, "lock") /\ req[t].op # "migrate" /\ migrated
  /\ conf.use_lock => IF req[t].op = "put" THEN CanWrite ELSE ~writing
  /\ Goto(t, Back(t))
  /\ status' = [status EXCEPT ![t] = "Migrated"]
  /\ UNCHANGED <<left, req, idx, got, data, calm, lock, watcher>>

AcquireRead(t) ==
  /\ At(t, "lock") /\ req[t].op \in Reads \cup Scans \cup {"erase"} /\ ~migrated
  /\ ReadLock /\ Goto(t, "body")
  /\ UNCHANGED <<locals, data, calm, watcher>>

\* Mutant of AcquireWrite: m_migrated is not looked at once the lock is held.
AcquireWriteUnchecked(t) ==
  /\ At(t, "lock") /\ req[t].op = "put"
  /\ WriteLock /\ Goto(t, "body")
  /\ before' = db
  /\ UNCHANGED <<locals, db, silent, calm, watcher>>

AcquireWrite(t) ==
  /\ At(t, "lock") /\ req[t].op = "put" /\ ~migrated
  /\ WriteLock /\ Goto(t, "body")
  /\ before' = db
  /\ UNCHANGED <<locals, db, silent, calm, watcher>>
-----------------------------------------------------------------------------
(* Waiting for a key, in exists, length, get, fetch and erase *)

Expect(t) ==
  /\ addKey(t, Key(t)) /\ Goto(t, "added")
  /\ UNCHANGED <<locals, data, calm, lock>>

UnlockToWait(t) ==
  /\ At(t, "added")
  /\ Release /\ Goto(t, "wait")
  /\ UNCHANGED <<locals, data, calm, watcher>>

WaitKey(t) ==
  /\ At(t, "wait")
  /\ Search(t) /\ Goto(t, IF FirstIsOwn(t) THEN "waiting" ELSE "spin")
  /\ UNCHANGED <<locals, data, calm, lock>>

WaitReturn(t) ==
  /\ At(t, "waiting")
  /\ status' = [status EXCEPT ![t] = expected[EntryOf(t)].status]
  /\ Wake(t) /\ Goto(t, "relock")
  /\ UNCHANGED <<left, req, idx, got, data, calm, lock>>

\* The lock is taken again and, when the key has appeared, looked up again;
\* m_migrated is not.
Relock(t) ==
  /\ At(t, "relock")
  /\ ReadLock
  /\ IF status[t] = "KeyPresent"
       THEN Goto(t, "body") /\ status' = [status EXCEPT ![t] = "OK"]
       ELSE Goto(t, "unlock") /\ status' = [status EXCEPT ![t] = "TimedOut"]
  /\ UNCHANGED <<left, req, idx, got, data, calm, watcher>>

ReturnTimedOut(t) ==
  /\ At(t, "unlock") /\ Return(t, status[t])
  /\ UNCHANGED <<data, calm, watcher>>
-----------------------------------------------------------------------------
(* exists, length, get and fetch *)

Reading(t) == req[t].op \in Reads /\ pc[t] = "body"

Copied(t) == IF req[t].small THEN TooSmall ELSE db[Key(t)]

ReadFound(t) ==
  /\ Reading(t) /\ Runnable(t) /\ More(t) /\ db[Key(t)] # Absent
  /\ Advance(t, Copied(t))
  /\ UNCHANGED <<pc, data, calm, lock, watcher>>

ReadAbsent(t) ==
  /\ Reading(t) /\ Runnable(t) /\ More(t) /\ db[Key(t)] = Absent /\ ~req[t].wait
  /\ Advance(t, Absent)
  /\ UNCHANGED <<pc, data, calm, lock, watcher>>

ReadExpects(t) ==
  /\ Reading(t) /\ Runnable(t) /\ More(t) /\ db[Key(t)] = Absent /\ req[t].wait
  /\ Expect(t)

ReadEnd(t) ==
  /\ Reading(t) /\ Runnable(t) /\ ~More(t) /\ ~req[t].consume
  /\ Return(t, "OK")
  /\ UNCHANGED <<data, calm, watcher>>

\* get(CONSUME) leaves the lock and calls erase with the keys it was given.
Consume(t) ==
  /\ Reading(t) /\ Runnable(t) /\ ~More(t) /\ req[t].consume
  /\ Release /\ Goto(t, "lock")
  /\ req' = [req EXCEPT ![t].op = "erase"]
  /\ idx' = [idx EXCEPT ![t] = 1]
  /\ UNCHANGED <<left, got, status, data, calm, watcher>>

\* ~ScopedReadLock at the end of get, after get has called unlock() itself.
SecondUnlock(t) ==
  /\ At(t, "unlock2")
  /\ Release /\ Goto(t, "idle")
  /\ UNCHANGED <<locals, data, calm, watcher>>
-----------------------------------------------------------------------------
(* listKeys, listKeyValues and iter walk the map in order; count walks nothing *)

Scanning(t) == req[t].op \in Scans /\ pc[t] = "body"

ScanVisit(t) ==
  /\ Scanning(t) /\ Runnable(t) /\ More(t) /\ ~req[t].fails
  /\ Advance(t, db[Key(t)])
  /\ UNCHANGED <<pc, data, calm, lock, watcher>>

\* The status of the callback is returned.
CallbackFails(t) ==
  /\ Runnable(t) /\ More(t) /\ req[t].fails
  /\ Return(t, "Callback")
  /\ UNCHANGED <<data, calm, watcher>>

ScanEnd(t) ==
  /\ Scanning(t) /\ Runnable(t) /\ ~More(t)
  /\ Return(t, "OK")
  /\ UNCHANGED <<data, calm, watcher>>
-----------------------------------------------------------------------------
(* erase, under the lock of the readers *)

Erasing(t) == req[t].op = "erase" /\ pc[t] = "body"
NextKey(t) == idx' = [idx EXCEPT ![t] = @ + 1] /\ UNCHANGED <<left, req, got, status>>

EraseFound(t) ==
  /\ Erasing(t) /\ Runnable(t) /\ More(t) /\ db[Key(t)] # Absent
  /\ db' = [db EXCEPT ![Key(t)] = Absent]
  /\ NextKey(t)
  /\ UNCHANGED <<pc, before, silent, calm, lock, watcher>>

EraseAbsent(t) ==
  /\ Erasing(t) /\ Runnable(t) /\ More(t) /\ db[Key(t)] = Absent /\ ~req[t].wait
  /\ NextKey(t)
  /\ UNCHANGED <<pc, data, calm, lock, watcher>>

EraseExpects(t) ==
  /\ Erasing(t) /\ Runnable(t) /\ More(t) /\ db[Key(t)] = Absent /\ req[t].wait
  /\ Expect(t)

EraseEnd(t) ==
  /\ Erasing(t) /\ Runnable(t) /\ ~More(t)
  /\ Return(t, "OK")
  /\ UNCHANGED <<data, calm, watcher>>
-----------------------------------------------------------------------------
(* put *)

Putting(t) == req[t].op = "put" /\ pc[t] = "body"

\* Mutant of Admitted: YOKAN_MODE_EXIST_ONLY is ignored.
AdmittedNew(t) == req[t].mode = "new_only" => db[Key(t)] = Absent

Admitted(t) ==
  /\ req[t].mode = "new_only" => db[Key(t)] = Absent
  /\ req[t].mode \in {"exist_only", "exist_append"} => db[Key(t)] # Absent

NewValue(t) ==
  IF db[Key(t)] # Absent /\ req[t].mode \in {"append", "exist_append"}
    THEN Append(db[Key(t)], req[t].vals[idx[t]]) ELSE <<req[t].vals[idx[t]]>>

Unnoticed(t) == IF req[t].notify THEN silent \ {Key(t)} ELSE silent \cup {Key(t)}

\* Mutant of PutKey: a key that is inserted is not announced.
PutKeyQuiet(t) ==
  /\ Putting(t) /\ Runnable(t) /\ More(t) /\ Admitted(t)
  /\ db' = [db EXCEPT ![Key(t)] = NewValue(t)]
  /\ silent' = Unnoticed(t)
  /\ IF req[t].notify /\ db[Key(t)] # Absent THEN Goto(t, "notify") /\ UNCHANGED locals
     ELSE NextKey(t) /\ UNCHANGED pc
  /\ UNCHANGED <<before, calm, lock, watcher>>

PutKey(t) ==
  /\ Putting(t) /\ Runnable(t) /\ More(t) /\ Admitted(t)
  /\ db' = [db EXCEPT ![Key(t)] = NewValue(t)]
  /\ silent' = Unnoticed(t)
  /\ IF req[t].notify THEN Goto(t, "notify") /\ UNCHANGED locals
     ELSE NextKey(t) /\ UNCHANGED pc
  /\ UNCHANGED <<before, calm, lock, watcher>>

Notify(t) ==
  /\ At(t, "notify")
  /\ notifyKey(Key(t))
  /\ NextKey(t) /\ Goto(t, "body")
  /\ UNCHANGED <<data, calm, lock>>

\* A key the mode refuses is an error only when it is alone.
PutRefusedAlone(t) ==
  /\ Putting(t) /\ Runnable(t) /\ More(t) /\ ~Admitted(t) /\ Len(req[t].keys) = 1
  /\ Return(t, IF req[t].mode = "new_only" THEN "KeyExists" ELSE "NotFound")
  /\ UNCHANGED <<data, calm, watcher>>

PutSkipped(t) ==
  /\ Putting(t) /\ Runnable(t) /\ More(t) /\ ~Admitted(t) /\ Len(req[t].keys) > 1
  /\ NextKey(t)
  /\ UNCHANGED <<pc, data, calm, lock, watcher>>

PutEnd(t) ==
  /\ Putting(t) /\ Runnable(t) /\ ~More(t)
  /\ Return(t, "OK")
  /\ UNCHANGED <<data, calm, watcher>>
-----------------------------------------------------------------------------
(* Migration: the handle holds the lock of the readers until it is destroyed *)

startMigration(t) ==
  /\ At(t, "lock") /\ req[t].op = "migrate"
  /\ Goto(t, IF migrated THEN "idle" ELSE "mlock")
  /\ status' = [status EXCEPT ![t] = IF migrated THEN "Migrated" ELSE @]
  /\ UNCHANGED <<left, req, idx, got, data, calm, lock, watcher>>

\* Mutant of Snapshot: the lock is left once the file is written.
SnapshotUnlocked(t) ==
  /\ At(t, "mlock")
  /\ conf.use_lock => ~writing
  /\ Goto(t, "transfer")
  /\ got' = [got EXCEPT ![t] = db]
  /\ UNCHANGED <<left, req, idx, status, data, calm, lock, watcher>>

\* The map is written to the file that is transferred.
Snapshot(t) ==
  /\ At(t, "mlock")
  /\ ReadLock /\ Goto(t, "transfer")
  /\ got' = [got EXCEPT ![t] = db]
  /\ UNCHANGED <<left, req, idx, status, data, calm, watcher>>

MigrateCancel(t) == /\ At(t, "transfer") /\ Return(t, "Canceled")
                    /\ UNCHANGED <<data, calm, watcher>>

MigrateEnd(t) ==
  /\ At(t, "transfer")
  /\ migrated' = TRUE /\ db' = Empty
  /\ Goto(t, "unlock")
  /\ UNCHANGED <<locals, before, silent, conf, down, lock, watcher>>
-----------------------------------------------------------------------------
(* Finalization of the provider: destroy(), then delete *)

Quiet == OneStream => \A t \in Threads : AtYield(t)

\* A request received and not yet in the database when it begins is the business
\* of the provider, and left out here.
destroy ==
  /\ down = "up" /\ conf.shutdown /\ Quiet
  /\ \A t \in Threads : pc[t] # "lock"
  /\ conf.use_lock => CanWrite
  /\ down' = "destroyed" /\ db' = Empty
  /\ UNCHANGED <<conf, migrated, pc, locals, before, silent, lock, watcher>>

\* ~MapDatabase frees the lock and the map; ~KeyWatcher then wakes the waiters ...
Delete ==
  /\ down = "destroyed" /\ Quiet
  /\ down' = "deleting" /\ WakeAll
  /\ UNCHANGED <<conf, migrated, pc, locals, data, lock>>

\* ... and waits until the last of them has left.
DeleteEnd ==
  /\ down = "deleting" /\ Quiet /\ AllAwake
  /\ down' = "deleted"
  /\ UNCHANGED <<conf, migrated, pc, locals, data, lock, watcher>>
-----------------------------------------------------------------------------
Waiting(t) == UnlockToWait(t) \/ WaitKey(t) \/ WaitReturn(t) \/ Relock(t) \/ ReturnTimedOut(t)
Read(t)    == ReadFound(t) \/ ReadAbsent(t) \/ ReadExpects(t) \/ ReadEnd(t) \/ Consume(t)
              \/ SecondUnlock(t)
Scan(t)    == ScanVisit(t) \/ ScanEnd(t) \/ (Scanning(t) /\ CallbackFails(t))
Erase(t)   == EraseFound(t) \/ EraseAbsent(t) \/ EraseExpects(t) \/ EraseEnd(t)
Put(t)     == PutKey(t) \/ Notify(t) \/ PutRefusedAlone(t) \/ PutSkipped(t) \/ PutEnd(t)
Migrate(t) == startMigration(t) \/ Snapshot(t) \/ MigrateCancel(t) \/ MigrateEnd(t)
Acquire(t) == Refused(t) \/ AcquireRead(t) \/ AcquireWrite(t)

Run(t) == \/ Acquire(t) \/ Waiting(t) \/ Read(t) \/ Scan(t)
          \/ Erase(t) \/ Put(t) \/ Migrate(t)

Finalize == destroy \/ Delete \/ DeleteEnd

Next == Finalize \/ \E t \in Threads : Start(t) \/ Run(t)

\* Argobots runs every thread that can run, and the finalization goes on once
\* it has begun; nothing obliges a client to send a request.
Fairness == WF_vars(Delete) /\ WF_vars(DeleteEnd) /\ \A t \in Threads : WF_vars(Run(t))

Spec == Init /\ [][Next]_vars /\ Fairness
-----------------------------------------------------------------------------
(* Properties *)

Labels   == {"idle", "lock", "body", "added", "wait", "waiting", "spin", "relock", "unlock",
             "unlock2", "notify", "mlock", "transfer"}
Statuses == {"OK", "Migrated", "KeyPresent", "TimedOut", "KeyExists", "NotFound",
             "Timeout", "Canceled", "Callback", "NotSupported", "Mode"}

InWatcher(t) == pc[t] \in {"added", "wait", "waiting", "spin"}

\* Every variable has its type, at most one entry of the watcher belongs to a
\* thread, and it does exactly while the thread is between addKey and the end
\* of waitKey.
TypeOK ==
  /\ conf \in Setups
  /\ \A k \in Keys : db[k] = Absent \/ \A n \in 1 .. Len(db[k]) : db[k][n] \in Vals
  /\ migrated \in BOOLEAN /\ down \in {"up", "destroyed", "deleting", "deleted"}
  /\ left \in [Threads -> 0 .. MaxRequests] /\ pc \in [Threads -> Labels]
  /\ status \in [Threads -> Statuses]
  /\ readers \in 0 .. UnsignedMax /\ writing \in BOOLEAN /\ mutex \in Threads \cup {Free}
  /\ \A t \in Threads :
       Cardinality({n \in 1 .. Len(expected) : expected[n].thread = t})
         = IF InWatcher(t) THEN 1 ELSE 0

\* A request never sleeps on a key that is there: between its failed lookup and
\* its sleep no notification is lost, whatever put comes in between
\* (YOKAN_MODE_WAIT and YOKAN_MODE_NOTIFY, map.cpp:446-453 and 366-417).
NoLostWakeup ==
  \A t \in Threads :
    pc[t] \in {"added", "wait", "waiting"} /\ ~Signalled(t) /\ db[Key(t)] # Absent
      => \/ Key(t) \in silent
         \/ \E u \in Threads : pc[u] = "notify" /\ Key(u) = Key(t)

\* While a request looks keys up or walks the map, nothing is inserted, changed
\* or removed under its iterators (the scoped locks of map.cpp).
MapStableWhileRead == [][db' # db => \A t \in Threads : ~Reading(t) /\ ~Scanning(t)]_vars

\* The file that a migration hands over is the content of the database when it
\* is cleared: no update is acknowledged by the source and missing from the
\* target (MigrationHandle, include/yokan/migration.hpp:17-19).
HandoverComplete ==
  [][~migrated /\ migrated' => \E t \in Threads : pc[t] = "transfer" /\ pc'[t] = "unlock"
                                                  /\ got[t] = db]_vars

\* Once a database is migrated nothing is stored in it any more, not even by a
\* request that was blocked or asleep when the migration began.
NothingStoredAfterHandover == migrated => db = Empty

\* A value that YOKAN_MODE_CONSUME removes is the one the caller was given ("get"
\* functions "also remove the returned key/value pairs", include/yokan/common.h:83-84).
\* It does not hold: get() leaves its lock before it calls erase() (map.cpp:511-512).
ConsumedIsReturned ==
  [][\A t \in Threads :
       Erasing(t) /\ req[t].consume /\ More(t) /\ db' # db /\ idx'[t] # idx[t]
         => got[t][idx[t]] = db[Key(t)]]_vars

\* The lock and the map are freed only when nobody inside the database will
\* touch them again, and the watcher when nobody is left in it (~MapDatabase and
\* ~KeyWatcher).
TouchesMap(t)  == pc[t] \in {"body", "notify", "transfer"}
TouchesLock(t) == conf.use_lock /\ pc[t] \in {"added", "relock", "unlock", "unlock2", "mlock"}
NoUseAfterFree ==
  /\ down \in {"deleting", "deleted"} => \A t \in Threads : ~TouchesMap(t) /\ ~TouchesLock(t)
  /\ down = "deleted" => \A t \in Threads : ~InWatcher(t)

\* Every request ends, or sleeps on a key that nobody has announced.
AtRest(t)   == pc[t] = "idle" \/ (pc[t] = "waiting" /\ ~Signalled(t))
RequestsEnd == \A t \in Threads : pc[t] # "idle" ~> AtRest(t)

\* A finalization that has begun ends, with every sleeper awake and gone
\* (~KeyWatcher, watcher.hpp:75-89).
ShutdownEnds == down = "destroyed" ~> down = "deleted" /\ \A t \in Threads : pc[t] = "idle"

\* Seen from outside a put happens at once, when its loop ends: with or without
\* the lock nobody else sees half of a batch.
Requests == UNION {s.requests[t] : s \in Setups, t \in Threads}
Puts     == {r \in Requests : r.op = "put"}

Seen == IF \E t \in Threads : pc[t] = "notify" \/ Putting(t) THEN before ELSE db

Abstract == INSTANCE KVStore WITH store <- Seen, Batches <- Puts, Contents <- {Empty}

ImplementsKVStore == Abstract!Spec
=============================================================================
