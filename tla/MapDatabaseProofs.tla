------------------------- MODULE MapDatabaseProofs -------------------------
(***************************************************************************)
(* Proofs about the backends in memory, for any number of threads, keys and *)
(* requests, on one execution stream or several, with or without the lock.  *)
(* Each theorem says which configurations and requests it needs: the README *)
(* names the behaviour of the code that every hypothesis excludes.          *)
(***************************************************************************)
EXTENDS InMemoryBackends, Induction, FiniteSetTheorems, SequenceTheorems, TLAPS

-----------------------------------------------------------------------------
(* Types, and where a thread can be with which request *)

Request == [op : Reads \cup Scans \cup {"put", "erase", "migrate"}, keys : Seq(Keys),
            vals : Seq(Vals), mode : Modes, wait : BOOLEAN, notify : BOOLEAN,
            consume : BOOLEAN, small : BOOLEAN, fails : BOOLEAN]

\* The request of a thread is one that it was sent, or the erasure that a get
\* made of one that consumes.
Sent(t) ==
  \E r \in conf.requests[t] :
    /\ \/ req[t].op = r.op
       \/ req[t].op = "erase" /\ r.consume /\ r.op \in Reads
    /\ req[t].keys = r.keys /\ req[t].consume = r.consume /\ req[t].wait = r.wait
    /\ req[t].notify = r.notify /\ req[t].small = r.small

\* The unordered backends have no listings.
Supported(c, op) == c.backend \in {"unordered_map", "unordered_set"} => op \notin {"list", "iter"}

Sleeping == {"added", "wait", "waiting", "spin", "relock"}

Placed(t) ==
  /\ req[t] \in Request /\ Sent(t) /\ idx[t] \in Nat \ {0}
  /\ pc[t] \in {"mlock", "transfer"} => req[t].op = "migrate"
  /\ pc[t] = "notify" => req[t].op = "put" /\ req[t].notify
  /\ pc[t] = "body" => req[t].op # "migrate" /\ Supported(conf, req[t].op)
  /\ pc[t] \in Sleeping => req[t].op \in Reads \cup {"erase"} /\ req[t].wait
  /\ pc[t] \in Sleeping \cup {"notify"} => More(t)
  /\ pc[t] = "unlock" => req[t].op # "put"
  /\ pc[t] = "unlock2" => req[t].consume

TypeInv ==
  /\ conf \in Setups
  /\ pc \in [Threads -> Labels]
  /\ DOMAIN db = Keys
  /\ DOMAIN req = Threads /\ DOMAIN idx = Threads /\ DOMAIN got = Threads
  /\ DOMAIN status = Threads
  /\ \A t \in Threads : pc[t] # "idle" => Placed(t)

-----------------------------------------------------------------------------
(* What the steps do *)

\* Only the locals of t change, and neither setup nor finalization.
Frame(t) ==
  /\ conf' = conf /\ down' = down
  /\ pc' \in [Threads -> Labels] /\ DOMAIN db' = Keys
  /\ DOMAIN req' = Threads /\ DOMAIN idx' = Threads /\ DOMAIN got' = Threads
  /\ DOMAIN status' = Threads
  /\ \A u \in Threads : u # t =>
       /\ pc'[u] = pc[u] /\ req'[u] = req[u] /\ idx'[u] = idx[u] /\ got'[u] = got[u]
       /\ status'[u] = status[u]

Moves(t, l, m) == pc[t] = l /\ pc'[t] = m
Still          == UNCHANGED <<db, migrated, silent>>
\* The request stays, with its position and what was copied.
Kept(t)        == req'[t] = req[t] /\ idx'[t] = idx[t] /\ got'[t] = got[t]

Begins(t) ==
  /\ Moves(t, "idle", "lock") /\ Still /\ UNCHANGED <<lock, watcher>> /\ down = "up"
  /\ req'[t] \in conf.requests[t] /\ idx'[t] = 1 /\ got'[t] = << >>
Rejects(t) ==
  Moves(t, "idle", "idle") /\ Still /\ UNCHANGED <<lock, watcher>>
Quits(t) ==
  /\ pc[t] = "lock" /\ Kept(t) /\ Still /\ UNCHANGED <<lock, watcher>>
  /\ pc'[t] = "idle" \/ (pc'[t] = "unlock2" /\ req[t].op = "erase" /\ req[t].consume)
EntersToRead(t) ==
  /\ Moves(t, "lock", "body") /\ Kept(t) /\ Still /\ UNCHANGED watcher /\ ReadLock
  /\ req[t].op \notin {"put", "migrate"} /\ Supported(conf, req[t].op)
EntersToWrite(t) ==
  /\ Moves(t, "lock", "body") /\ Kept(t) /\ Still /\ UNCHANGED watcher /\ WriteLock
  /\ req[t].op = "put" /\ ~migrated
Expects(t) ==
  /\ Moves(t, "body", "added") /\ Kept(t) /\ Still /\ UNCHANGED lock
  /\ req[t].op \in Reads \cup {"erase"} /\ req[t].wait /\ More(t)
  /\ db[Key(t)] = Absent /\ addKey(t, Key(t))
GoesToWait(t) ==
  /\ Moves(t, "added", "wait") /\ Kept(t) /\ Still /\ UNCHANGED watcher /\ Release
Waits(t) ==
  /\ pc[t] = "wait" /\ pc'[t] \in {"waiting", "spin"} /\ Kept(t) /\ Still /\ UNCHANGED lock
  /\ UNCHANGED expected
Wakes(t) ==
  /\ Moves(t, "waiting", "relock") /\ Kept(t) /\ Still /\ UNCHANGED lock
  /\ status'[t] = expected[EntryOf(t)].status /\ Wake(t)
Relocks(t) ==
  /\ pc[t] = "relock" /\ Kept(t) /\ Still /\ UNCHANGED watcher /\ ReadLock
  /\ pc'[t] = "unlock" \/ (pc'[t] = "body" /\ status[t] = "KeyPresent")
Leaves(t) ==
  /\ pc[t] \in {"unlock", "body", "transfer"} /\ Kept(t) /\ Still /\ UNCHANGED watcher
  /\ Release
  /\ pc'[t] = "idle" \/ (pc'[t] = "unlock2" /\ req[t].op = "erase" /\ req[t].consume)
Consumes(t) ==
  /\ Moves(t, "body", "lock") /\ Still /\ UNCHANGED watcher /\ Release
  /\ req[t].op \in Reads /\ req[t].consume /\ ~More(t)
  /\ req'[t] = [req[t] EXCEPT !.op = "erase"] /\ idx'[t] = 1 /\ got'[t] = got[t]
ReleasesTwice(t) ==
  Moves(t, "unlock2", "idle") /\ Kept(t) /\ Still /\ UNCHANGED watcher /\ Release
Walks(t) ==
  /\ Moves(t, "body", "body") /\ Still /\ UNCHANGED <<lock, watcher>> /\ More(t)
  /\ req'[t] = req[t] /\ idx'[t] = idx[t] + 1
  /\ \/ req[t].op \in Reads \cup Scans
     \/ req[t].op = "erase" /\ got'[t] = got[t] /\ db[Key(t)] = Absent
     \/ req[t].op = "put"
  /\ req[t].op \in Reads =>
       /\ got'[t] = Append(got[t], IF db[Key(t)] = Absent THEN Absent ELSE Copied(t))
       /\ req[t].wait => db[Key(t)] # Absent
Erases(t) ==
  /\ Moves(t, "body", "body") /\ UNCHANGED <<lock, watcher, migrated, silent>> /\ More(t)
  /\ req[t].op = "erase" /\ db[Key(t)] # Absent
  /\ req'[t] = req[t] /\ idx'[t] = idx[t] + 1 /\ got'[t] = got[t]
  /\ db' = [db EXCEPT ![Key(t)] = Absent]
  /\ \A k \in Keys : db'[k] = IF k = Key(t) THEN Absent ELSE db[k]
Stores(t) ==
  /\ pc[t] = "body" /\ UNCHANGED <<lock, watcher, migrated>> /\ More(t) /\ req[t].op = "put"
  /\ req'[t] = req[t] /\ got'[t] = got[t]
  /\ IF req[t].notify THEN /\ pc'[t] = "notify" /\ idx'[t] = idx[t]
                           /\ silent' = silent \ {Key(t)}
     ELSE /\ pc'[t] = "body" /\ idx'[t] = idx[t] + 1
          /\ silent' = silent \cup {Key(t)}
  /\ \A k \in Keys : k # Key(t) => db'[k] = db[k]
Notifies(t) ==
  /\ Moves(t, "notify", "body") /\ Still /\ UNCHANGED lock
  /\ req'[t] = req[t] /\ idx'[t] = idx[t] + 1 /\ got'[t] = got[t]
  /\ \/ notifyKey(Key(t))
     \/ /\ conf.backend = "set"
        /\ UNCHANGED watcher \/ \E k \in Keys : notifyKey(k)
StartsMigration(t) ==
  /\ Moves(t, "lock", "mlock") /\ Kept(t) /\ Still /\ UNCHANGED <<lock, watcher>>
  /\ req[t].op = "migrate"
TakesSnapshot(t) ==
  /\ Moves(t, "mlock", "transfer") /\ Still /\ UNCHANGED watcher /\ ReadLock
  /\ req'[t] = req[t] /\ idx'[t] = idx[t] /\ got'[t] = db
HandsOver(t) ==
  /\ Moves(t, "transfer", "unlock") /\ Kept(t) /\ UNCHANGED <<lock, watcher, silent>>
  /\ migrated' = TRUE /\ db' = Empty

Kind(t) ==
  \/ Begins(t) \/ Rejects(t) \/ Quits(t) \/ EntersToRead(t) \/ EntersToWrite(t)
  \/ Expects(t) \/ GoesToWait(t) \/ Waits(t) \/ Wakes(t) \/ Relocks(t) \/ Leaves(t)
  \/ Consumes(t) \/ ReleasesTwice(t) \/ Walks(t) \/ Erases(t) \/ Stores(t) \/ Notifies(t)
  \/ StartsMigration(t) \/ TakesSnapshot(t) \/ HandsOver(t)

\* The actions of all backends that a thread takes.
Step(t) ==
  \/ Start(t) \/ Rejected(t) \/ (Acquire(t) /\ Supported(conf, req[t].op)) \/ Waiting(t) \/ Read(t) \/ Scan(t) \/ Erase(t)
  \/ Put(t) \/ Migrate(t) \/ Unsupported(t) \/ RefusedEarly(t) \/ PutDecided(t)
  \/ EmplaceOnly(t) \/ EmplaceNotify(t) \/ (conf.backend = "set" /\ NotifyNext(t))
  \/ (pc[t] = "body" /\ req[t].op # "put" /\ CallbackFails(t))

LEMMA AllSteps ==
  ASSUME NEW t \in Threads, Received(t) \/ RunAny(t) PROVE Step(t)
<1>1. CASE Received(t)
  BY <1>1 DEF Received, Step
<1>2. CASE conf.backend = "map" /\ Run(t)
  BY <1>2 DEF Run, Step, Supported
<1>f. FetchKey(t) => Step(t)
  BY DEF FetchKey, Step, Read, Reading, Reads
<1>3. CASE conf.backend = "unordered_map" /\ unordered_map_Run(t)
  BY <1>3, <1>f DEF unordered_map_Run, Step, Supported, unordered_map_count, unordered_map_exists,
     unordered_map_length, unordered_map_put, unordered_map_get, unordered_map_fetch,
     unordered_map_erase, UnorderedMapMigrationHandle, unordered_map_startMigration, Read, Migrate
<1>4. CASE conf.backend = "set" /\ set_Run(t)
  BY <1>4, <1>f DEF set_Run, Step, Supported, set_count, set_exists, set_length, set_put, set_get, set_fetch,
     set_erase, set_listKeys, set_listKeyValues, set_iter, SetMigrationHandle,
     set_startMigration, Read, Migrate, Put
<1>5. CASE conf.backend = "unordered_set" /\ unordered_set_Run(t)
  BY <1>5, <1>f DEF unordered_set_Run, Step, Supported, unordered_set_count, unordered_set_exists,
     unordered_set_length, unordered_set_put, unordered_set_get, unordered_set_fetch,
     unordered_set_erase, UnorderedSetMigrationHandle, unordered_set_startMigration, Read,
     Migrate, Put, Waiting
<1> QED BY <1>1, <1>2, <1>3, <1>4, <1>5 DEF RunAny

\* Every step of a thread is of one of the kinds.
LEMMA StepKind ==
  ASSUME TypeInv, NEW t \in Threads, Step(t) PROVE Frame(t) /\ Runnable(t) /\ Kind(t)
<1> USE DEF TypeInv, Frame, At, Goto, Moves, Still, Kept, Labels, locals, data, calm
<1>1. CASE Start(t)
  <2>1. Frame(t) /\ Runnable(t)
    BY <1>1 DEF Start
  <2>2. Begins(t)
    BY <1>1 DEF Start, Begins
  <2> QED BY <2>1, <2>2 DEF Kind
<1>2. CASE Rejected(t)
  <2>1. Frame(t) /\ Runnable(t)
    BY <1>2 DEF Rejected
  <2>2. Rejects(t)
    BY <1>2 DEF Rejected, Rejects
  <2> QED BY <2>1, <2>2 DEF Kind
<1>3. CASE Refused(t)
  <2>1. Frame(t) /\ Runnable(t)
    BY <1>3 DEF Refused, Back
  <2>2. Quits(t)
    BY <1>3 DEF Refused, Quits, Back
  <2> QED BY <2>1, <2>2 DEF Kind
<1>4. CASE AcquireRead(t) /\ Supported(conf, req[t].op)
  <2>1. Frame(t) /\ Runnable(t)
    BY <1>4 DEF AcquireRead, Reads, Scans
  <2>2. EntersToRead(t)
    BY <1>4 DEF AcquireRead, EntersToRead, Reads, Scans
  <2> QED BY <2>1, <2>2 DEF Kind
<1>5. CASE AcquireWrite(t)
  <2>1. Frame(t) /\ Runnable(t)
    BY <1>5 DEF AcquireWrite
  <2>2. EntersToWrite(t)
    BY <1>5 DEF AcquireWrite, EntersToWrite
  <2> QED BY <2>1, <2>2 DEF Kind
<1>6. CASE UnlockToWait(t)
  <2>1. Frame(t) /\ Runnable(t)
    BY <1>6 DEF UnlockToWait
  <2>2. GoesToWait(t)
    BY <1>6 DEF UnlockToWait, GoesToWait
  <2> QED BY <2>1, <2>2 DEF Kind
<1>7. CASE WaitKey(t)
  <2>1. Frame(t) /\ Runnable(t)
    BY <1>7 DEF WaitKey, Search
  <2>2. Waits(t)
    BY <1>7 DEF WaitKey, Waits, Search
  <2> QED BY <2>1, <2>2 DEF Kind
<1>8. CASE WaitReturn(t)
  <2>1. Frame(t) /\ Runnable(t)
    BY <1>8 DEF WaitReturn
  <2>2. Wakes(t)
    BY <1>8 DEF WaitReturn, Wakes
  <2> QED BY <2>1, <2>2 DEF Kind
<1>9. CASE Relock(t)
  <2>1. Frame(t) /\ Runnable(t)
    BY <1>9 DEF Relock
  <2>2. Relocks(t)
    BY <1>9 DEF Relock, Relocks
  <2> QED BY <2>1, <2>2 DEF Kind
<1>10. CASE ReturnTimedOut(t)
  <2>1. Frame(t) /\ Runnable(t)
    BY <1>10 DEF ReturnTimedOut, Return, Back
  <2>2. Leaves(t)
    BY <1>10 DEF ReturnTimedOut, Leaves, Return, Back
  <2> QED BY <2>1, <2>2 DEF Kind
<1>11. CASE ReadFound(t)
  <2>1. Frame(t) /\ Runnable(t)
    BY <1>11 DEF ReadFound, Advance, Reading
  <2>2. Walks(t)
    BY <1>11 DEF ReadFound, Walks, Advance, Reading
  <2> QED BY <2>1, <2>2 DEF Kind
<1>12. CASE ReadAbsent(t)
  <2>1. Frame(t) /\ Runnable(t)
    BY <1>12 DEF ReadAbsent, Advance, Reading
  <2>2. Walks(t)
    BY <1>12 DEF ReadAbsent, Walks, Advance, Reading
  <2> QED BY <2>1, <2>2 DEF Kind
<1>13. CASE ReadExpects(t)
  <2>1. Frame(t) /\ Runnable(t)
    BY <1>13 DEF ReadExpects, Expect, Reading
  <2>2. Expects(t)
    BY <1>13 DEF ReadExpects, Expects, Expect, Reading
  <2> QED BY <2>1, <2>2 DEF Kind
<1>14. CASE ReadEnd(t)
  <2>1. Frame(t) /\ Runnable(t)
    BY <1>14 DEF ReadEnd, Return, Back, Reading
  <2>2. Leaves(t)
    BY <1>14 DEF ReadEnd, Leaves, Return, Back, Reading
  <2> QED BY <2>1, <2>2 DEF Kind
<1>15. CASE Consume(t)
  <2>1. Frame(t) /\ Runnable(t)
    BY <1>15 DEF Consume, Reading
  <2>2. Consumes(t)
    BY <1>15 DEF Consume, Consumes, Reading
  <2> QED BY <2>1, <2>2 DEF Kind
<1>16. CASE SecondUnlock(t)
  <2>1. Frame(t) /\ Runnable(t)
    BY <1>16 DEF SecondUnlock
  <2>2. ReleasesTwice(t)
    BY <1>16 DEF SecondUnlock, ReleasesTwice
  <2> QED BY <2>1, <2>2 DEF Kind
<1>17. CASE ScanVisit(t)
  <2>1. Frame(t) /\ Runnable(t)
    BY <1>17 DEF ScanVisit, Advance, Scanning, Scans, Reads
  <2>2. Walks(t)
    BY <1>17 DEF ScanVisit, Walks, Advance, Scanning, Scans, Reads
  <2> QED BY <2>1, <2>2 DEF Kind
<1>18. CASE ScanEnd(t)
  <2>1. Frame(t) /\ Runnable(t)
    BY <1>18 DEF ScanEnd, Return, Back, Scanning
  <2>2. Leaves(t)
    BY <1>18 DEF ScanEnd, Leaves, Return, Back, Scanning
  <2> QED BY <2>1, <2>2 DEF Kind
<1>19. CASE EraseFound(t)
  <2>1. Frame(t) /\ Runnable(t)
    BY <1>19 DEF EraseFound, NextKey, Erasing
  <2>2. Erases(t)
    BY <1>19 DEF EraseFound, Erases, NextKey, Erasing
  <2> QED BY <2>1, <2>2 DEF Kind
<1>20. CASE EraseAbsent(t)
  <2>1. Frame(t) /\ Runnable(t)
    BY <1>20 DEF EraseAbsent, NextKey, Erasing, Reads
  <2>2. Walks(t)
    BY <1>20 DEF EraseAbsent, Walks, NextKey, Erasing, Reads
  <2> QED BY <2>1, <2>2 DEF Kind
<1>21. CASE EraseExpects(t)
  <2>1. Frame(t) /\ Runnable(t)
    BY <1>21 DEF EraseExpects, Expect, Erasing
  <2>2. Expects(t)
    BY <1>21 DEF EraseExpects, Expects, Expect, Erasing
  <2> QED BY <2>1, <2>2 DEF Kind
<1>22. CASE EraseEnd(t)
  <2>1. Frame(t) /\ Runnable(t)
    BY <1>22 DEF EraseEnd, Return, Back, Erasing
  <2>2. Leaves(t)
    BY <1>22 DEF EraseEnd, Leaves, Return, Back, Erasing
  <2> QED BY <2>1, <2>2 DEF Kind
<1>23. CASE PutKey(t)
  <2>1. Frame(t) /\ Runnable(t)
    BY <1>23 DEF PutKey, NextKey, Putting, Unnoticed
  <2>2. Stores(t)
    BY <1>23 DEF PutKey, Stores, NextKey, Putting, Unnoticed
  <2> QED BY <2>1, <2>2 DEF Kind
<1>24. CASE Notify(t)
  <2>1. Frame(t) /\ Runnable(t)
    BY <1>24 DEF Notify, NextKey
  <2>2. Notifies(t)
    BY <1>24 DEF Notify, Notifies, NextKey
  <2> QED BY <2>1, <2>2 DEF Kind
<1>25. CASE PutRefusedAlone(t)
  <2>1. Frame(t) /\ Runnable(t)
    BY <1>25 DEF PutRefusedAlone, Return, Back, Putting
  <2>2. Leaves(t)
    BY <1>25 DEF PutRefusedAlone, Leaves, Return, Back, Putting
  <2> QED BY <2>1, <2>2 DEF Kind
<1>26. CASE PutSkipped(t)
  <2>1. Frame(t) /\ Runnable(t)
    BY <1>26 DEF PutSkipped, NextKey, Putting, Reads
  <2>2. Walks(t)
    BY <1>26 DEF PutSkipped, Walks, NextKey, Putting, Reads
  <2> QED BY <2>1, <2>2 DEF Kind
<1>27. CASE PutEnd(t)
  <2>1. Frame(t) /\ Runnable(t)
    BY <1>27 DEF PutEnd, Return, Back, Putting
  <2>2. Leaves(t)
    BY <1>27 DEF PutEnd, Leaves, Return, Back, Putting
  <2> QED BY <2>1, <2>2 DEF Kind
<1>28. CASE startMigration(t)
  <2>1. Frame(t) /\ Runnable(t)
    BY <1>28 DEF startMigration
  <2>2. Quits(t) \/ StartsMigration(t)
    BY <1>28 DEF startMigration, Quits, StartsMigration
  <2> QED BY <2>1, <2>2 DEF Kind
<1>29. CASE Snapshot(t)
  <2>1. Frame(t) /\ Runnable(t)
    BY <1>29 DEF Snapshot
  <2>2. TakesSnapshot(t)
    BY <1>29 DEF Snapshot, TakesSnapshot
  <2> QED BY <2>1, <2>2 DEF Kind
<1>30. CASE MigrateCancel(t)
  <2>1. Frame(t) /\ Runnable(t)
    BY <1>30 DEF MigrateCancel, Return, Back
  <2>2. Leaves(t)
    BY <1>30 DEF MigrateCancel, Leaves, Return, Back
  <2> QED BY <2>1, <2>2 DEF Kind
<1>31. CASE MigrateEnd(t)
  <2>1. Frame(t) /\ Runnable(t)
    BY <1>31 DEF MigrateEnd, Empty
  <2>2. HandsOver(t)
    BY <1>31 DEF MigrateEnd, HandsOver
  <2> QED BY <2>1, <2>2 DEF Kind
<1>32. CASE Unsupported(t)
  <2>1. Frame(t) /\ Runnable(t)
    BY <1>32 DEF Unsupported
  <2>2. Quits(t)
    BY <1>32 DEF Unsupported, Quits
  <2> QED BY <2>1, <2>2 DEF Kind
<1>33. CASE RefusedEarly(t)
  <2>1. Frame(t) /\ Runnable(t)
    BY <1>33 DEF RefusedEarly
  <2>2. Quits(t)
    BY <1>33 DEF RefusedEarly, Quits
  <2> QED BY <2>1, <2>2 DEF Kind
<1>34. CASE PutDecided(t)
  <2>1. Frame(t) /\ Runnable(t)
    BY <1>34 DEF PutDecided, Return, Back, Putting
  <2>2. Leaves(t)
    BY <1>34 DEF PutDecided, Leaves, Return, Back, Putting
  <2> QED BY <2>1, <2>2 DEF Kind
<1>35. CASE EmplaceOnly(t)
  <2>1. Frame(t) /\ Runnable(t)
    BY <1>35 DEF EmplaceOnly, Emplace, NextKey, Putting, Unnoticed
  <2>2. Stores(t)
    BY <1>35 DEF EmplaceOnly, Emplace, Stores, NextKey, Putting, Unnoticed
  <2> QED BY <2>1, <2>2 DEF Kind
<1>36. CASE EmplaceNotify(t)
  <2>1. Frame(t) /\ Runnable(t)
    BY <1>36 DEF EmplaceNotify, Emplace, Putting, Unnoticed
  <2>2. Stores(t)
    BY <1>36 DEF EmplaceNotify, Emplace, Stores, Putting, Unnoticed
  <2> QED BY <2>1, <2>2 DEF Kind
<1>37. CASE conf.backend = "set" /\ NotifyNext(t)
  <2>1. Frame(t) /\ Runnable(t)
    BY <1>37 DEF NotifyNext, NextKey
  <2>2. Notifies(t)
    <3>1. idx[t] < Len(req[t].keys) => req[t].keys[idx[t] + 1] \in Keys
      BY <1>37 DEF NotifyNext, Placed, Request
    <3> QED BY <1>37, <3>1 DEF NotifyNext, Notifies, NextKey
  <2> QED BY <2>1, <2>2 DEF Kind
<1>38. CASE pc[t] = "body" /\ req[t].op # "put" /\ CallbackFails(t)
  <2>1. Frame(t) /\ Runnable(t)
    BY <1>38 DEF CallbackFails, Return, Back
  <2>2. Leaves(t)
    BY <1>38 DEF CallbackFails, Leaves, Return, Back
  <2> QED BY <2>1, <2>2 DEF Kind
<1> QED
  BY <1>1, <1>2, <1>3, <1>4, <1>5, <1>6, <1>7, <1>8, <1>9, <1>10, <1>11, <1>12, <1>13, <1>14, <1>15, <1>16, <1>17, <1>18, <1>19, <1>20, <1>21, <1>22, <1>23, <1>24, <1>25, <1>26, <1>27, <1>28, <1>29, <1>30, <1>31, <1>32, <1>33, <1>34, <1>35, <1>36, <1>37, <1>38
  DEF Step, Acquire, Waiting, Read, Scan, Erase, Put, Migrate, Scanning, Scans

-----------------------------------------------------------------------------
(* Types are kept *)

\* A request that a thread may send.
LEMMA RequestType ==
  ASSUME TypeInv, NEW t \in Threads, NEW r \in conf.requests[t] PROVE r \in Request
BY SetupsAssumption DEF SetupsAssumption, TypeInv, Request

LEMMA TypeStep ==
  ASSUME TypeInv, NEW t \in Threads, Frame(t), Kind(t) PROVE TypeInv'
<1>1. ASSUME NEW u \in Threads, u # t, pc'[u] # "idle" PROVE Placed(u)'
  <2>1. Placed(u) /\ pc'[u] = pc[u] /\ req'[u] = req[u] /\ idx'[u] = idx[u] /\ conf' = conf
    BY <1>1 DEF TypeInv, Frame
  <2> QED BY <2>1 DEF Placed, Sent, More, Supported
<1>2. ASSUME Placed(t), req'[t] = req[t], pc[t] # "idle", pc'[t] # "idle", idx'[t] \in Nat \ {0},
             pc'[t] \in {"mlock", "transfer"} => req[t].op = "migrate",
             pc'[t] = "notify" => req[t].op = "put" /\ req[t].notify,
             pc'[t] = "body" => req[t].op # "migrate" /\ Supported(conf, req[t].op),
             pc'[t] \in Sleeping => req[t].op \in Reads \cup {"erase"} /\ req[t].wait,
             pc'[t] \in Sleeping \cup {"notify"} => idx'[t] = idx[t] /\ More(t),
             pc'[t] = "unlock" => req[t].op # "put",
             pc'[t] = "unlock2" => req[t].consume
      PROVE  Placed(t)'
  <2>1. (Sent(t)' <=> Sent(t)) /\ conf' = conf
    BY <1>2 DEF Sent, Frame
  <2>2. idx'[t] = idx[t] => (More(t)' <=> More(t))
    BY <1>2 DEF More
  <2> QED BY <1>2, <2>1, <2>2 DEF Placed, Supported
<1> USE DEF Moves, Kept, Sleeping
<1>3. ASSUME pc'[t] # "idle" PROVE Placed(t)'
  <2>0. pc[t] # "idle" => Placed(t)
    BY DEF TypeInv
  <2>1. CASE Begins(t)
    <3>1. req'[t] \in Request /\ idx'[t] = 1 /\ pc'[t] = "lock" /\ conf' = conf
      BY <2>1, RequestType DEF Begins, Frame
    <3>2. Sent(t)'
      BY <2>1, <3>1 DEF Begins, Sent
    <3> QED BY <3>1, <3>2 DEF Placed
  <2>2. CASE Rejects(t)
    BY <1>3, <2>2 DEF Rejects
  <2>3. CASE Quits(t)
    BY <1>2, <1>3, <2>0, <2>3 DEF Quits, Placed
  <2>4. CASE EntersToRead(t) \/ EntersToWrite(t)
    BY <1>2, <1>3, <2>0, <2>4 DEF EntersToRead, EntersToWrite, Placed, Supported
  <2>5. CASE Expects(t)
    BY <1>2, <1>3, <2>0, <2>5 DEF Expects, Placed
  <2>6. CASE GoesToWait(t) \/ Waits(t) \/ Wakes(t)
    BY <1>2, <1>3, <2>0, <2>6 DEF GoesToWait, Waits, Wakes, Placed
  <2>7. CASE Relocks(t)
    BY <1>2, <1>3, <2>0, <2>7 DEF Relocks, Placed, Reads, Supported
  <2>8. CASE Leaves(t) \/ ReleasesTwice(t)
    BY <1>2, <1>3, <2>0, <2>8 DEF Leaves, ReleasesTwice, Placed
  <2>9. CASE Consumes(t)
    <3>1. Placed(t) /\ req[t] \in Request /\ req'[t] = [req[t] EXCEPT !.op = "erase"]
          /\ idx'[t] = 1 /\ pc'[t] = "lock" /\ conf' = conf /\ req[t].op \in Reads /\ req[t].consume
      BY <2>0, <2>9 DEF Consumes, Frame, Placed
    <3>2. /\ req'[t] \in Request /\ req'[t].op = "erase" /\ req'[t].keys = req[t].keys
          /\ req'[t].consume = req[t].consume /\ req'[t].wait = req[t].wait
          /\ req'[t].notify = req[t].notify /\ req'[t].small = req[t].small
      BY <3>1 DEF Request
    <3>3. Sent(t)'
      <4>1. PICK r \in conf.requests[t] :
               /\ \/ req[t].op = r.op
                  \/ req[t].op = "erase" /\ r.consume /\ r.op \in Reads
               /\ req[t].keys = r.keys /\ req[t].consume = r.consume /\ req[t].wait = r.wait
               /\ req[t].notify = r.notify /\ req[t].small = r.small
        BY <3>1 DEF Placed, Sent
      <4>2. r.consume /\ r.op \in Reads
        BY <3>1, <4>1 DEF Reads
      <4> QED BY <3>1, <3>2, <4>1, <4>2 DEF Sent
    <3> QED BY <3>1, <3>2, <3>3 DEF Placed
  <2>10. CASE Walks(t) \/ Erases(t)
    BY <1>2, <1>3, <2>0, <2>10 DEF Walks, Erases, Placed
  <2>11. CASE Stores(t)
    BY <1>2, <1>3, <2>0, <2>11 DEF Stores, Placed
  <2>12. CASE Notifies(t)
    BY <1>2, <1>3, <2>0, <2>12 DEF Notifies, Placed, Supported
  <2>13. CASE StartsMigration(t) \/ TakesSnapshot(t) \/ HandsOver(t)
    BY <1>2, <1>3, <2>0, <2>13 DEF StartsMigration, TakesSnapshot, HandsOver, Placed
  <2> QED BY <2>1, <2>2, <2>3, <2>4, <2>5, <2>6, <2>7, <2>8, <2>9, <2>10, <2>11, <2>12, <2>13
         DEF Kind
<1> QED BY <1>1, <1>3 DEF TypeInv, Frame

\* Finalization leaves the threads alone.
LEMMA FinalizeFrame ==
  ASSUME Finalize \/ UNCHANGED vars
  PROVE  UNCHANGED <<conf, pc, req, idx, got, status, lock, silent, migrated>>
         /\ (db' = db \/ db' = Empty)
BY DEF Finalize, destroy, Delete, DeleteEnd, vars, locals, data, lock

LEMMA TypeInit == Init => TypeInv
BY DEF Init, TypeInv, Labels, Empty

\* A step is one of a thread, or leaves the threads alone.
LEMMA NextCases ==
  ASSUME TypeInv, [NextAny]_vars
  PROVE  \/ Finalize \/ UNCHANGED vars
         \/ \E t \in Threads : Frame(t) /\ Runnable(t) /\ Kind(t)
BY AllSteps, StepKind DEF NextAny

LEMMA TypeNext == TypeInv /\ [NextAny]_vars => TypeInv'
<1> SUFFICES ASSUME TypeInv, [NextAny]_vars PROVE TypeInv'
  OBVIOUS
<1>1. CASE Finalize \/ UNCHANGED vars
  <2>1. UNCHANGED <<conf, pc, req, idx, got, status>> /\ (db' = db \/ db' = Empty)
    BY <1>1, FinalizeFrame
  <2>2. \A t \in Threads : Placed(t)' <=> Placed(t)
    BY <2>1 DEF Placed, Sent, More, Supported
  <2> QED BY <2>1, <2>2 DEF TypeInv, Empty
<1>2. CASE \E t \in Threads : Frame(t) /\ Runnable(t) /\ Kind(t)
  BY <1>2, TypeStep
<1> QED BY <1>1, <1>2, NextCases

-----------------------------------------------------------------------------
(* The lock *)

HoldsRead(t)  == pc[t] \in {"added", "unlock", "transfer"}
                 \/ (pc[t] = "body" /\ req[t].op # "put")
HoldsWrite(t) == pc[t] = "notify" \/ (pc[t] = "body" /\ req[t].op = "put")
ReadHolders   == {t \in Threads : HoldsRead(t)}

\* Behind a lock that works: a get that consumes gives it back twice.
Locked == conf.use_lock /\ \A t \in Threads : \A r \in conf.requests[t] : ~r.consume

\* The count is that of the threads that read; a thread that writes is alone.
LockInv ==
  Locked =>
    /\ readers = Cardinality(ReadHolders) /\ writing \in BOOLEAN
    /\ ReadHolders # {} => ~writing
    /\ \A t \in Threads : HoldsWrite(t) => writing /\ \A u \in Threads : HoldsWrite(u) => u = t

LEMMA NoConsumer ==
  ASSUME TypeInv, Locked, NEW t \in Threads, pc[t] # "idle"
  PROVE  ~req[t].consume
BY DEF TypeInv, Placed, Sent, Locked

\* What a step does to the lock, and to who has it.
LEMMA LockKinds ==
  ASSUME TypeInv, Locked, NEW t \in Threads, Frame(t), Kind(t)
  PROVE  \/ UNCHANGED lock /\ (HoldsRead(t)' <=> HoldsRead(t)) /\ (HoldsWrite(t)' <=> HoldsWrite(t))
         \/ Rdlock /\ ~HoldsRead(t) /\ ~HoldsWrite(t) /\ HoldsRead(t)' /\ ~HoldsWrite(t)'
         \/ Wrlock /\ ~HoldsRead(t) /\ ~HoldsWrite(t) /\ ~HoldsRead(t)' /\ HoldsWrite(t)'
         \/ Unlock /\ (HoldsRead(t) \/ HoldsWrite(t)) /\ ~HoldsRead(t)' /\ ~HoldsWrite(t)'
<1> USE DEF HoldsRead, HoldsWrite, Moves, Kept
<1>0. pc[t] # "idle" => Placed(t) /\ ~req[t].consume
  BY NoConsumer DEF TypeInv
<1>1. CASE Begins(t) \/ Rejects(t) \/ Quits(t) \/ StartsMigration(t)
  BY <1>0, <1>1 DEF Begins, Rejects, Quits, StartsMigration
<1>2. CASE EntersToRead(t)
  BY <1>2 DEF EntersToRead, ReadLock, Locked
<1>3. CASE EntersToWrite(t)
  BY <1>3 DEF EntersToWrite, WriteLock, Locked
<1>4. CASE Expects(t)
  BY <1>4 DEF Expects, Reads
<1>5. CASE GoesToWait(t)
  BY <1>5 DEF GoesToWait, Release, Locked
<1>6. CASE Waits(t) \/ Wakes(t)
  BY <1>6 DEF Waits, Wakes
<1>7. CASE Relocks(t)
  BY <1>0, <1>7 DEF Relocks, ReadLock, Locked, Placed, Sleeping, Reads
<1>8. CASE Leaves(t)
  BY <1>0, <1>8 DEF Leaves, Release, Locked
<1>9. CASE Consumes(t)
  BY <1>0, <1>9 DEF Consumes
<1>10. CASE ReleasesTwice(t)
  BY <1>0, <1>10 DEF ReleasesTwice, Placed
<1>11. CASE Walks(t) \/ Erases(t)
  BY <1>11 DEF Walks, Erases
<1>12. CASE Stores(t)
  BY <1>12 DEF Stores
<1>13. CASE Notifies(t)
  BY <1>0, <1>13 DEF Notifies, Placed
<1>14. CASE TakesSnapshot(t)
  BY <1>14 DEF TakesSnapshot, ReadLock, Locked
<1>15. CASE HandsOver(t)
  BY <1>15 DEF HandsOver
<1> QED BY <1>1, <1>2, <1>3, <1>4, <1>5, <1>6, <1>7, <1>8, <1>9, <1>10, <1>11, <1>12, <1>13,
           <1>14, <1>15 DEF Kind

LEMMA LockStep ==
  ASSUME TypeInv, LockInv, NEW t \in Threads, Frame(t), Kind(t)
  PROVE  LockInv'
<1> SUFFICES ASSUME Locked PROVE LockInv'
  BY DEF LockInv, Locked, Frame
<1> USE DEF lock
<1>0. /\ readers = Cardinality(ReadHolders) /\ writing \in BOOLEAN
      /\ ReadHolders # {} => ~writing
      /\ \A v \in Threads : HoldsWrite(v) => writing /\ \A w \in Threads : HoldsWrite(w) => w = v
  BY DEF LockInv
<1>1. \A u \in Threads : u # t => (HoldsRead(u)' <=> HoldsRead(u)) /\ (HoldsWrite(u)' <=> HoldsWrite(u))
  BY DEF Frame, HoldsRead, HoldsWrite
<1>2. ReadHolders \subseteq Threads /\ IsFiniteSet(Threads) /\ IsFiniteSet(ReadHolders)
      /\ Cardinality(ReadHolders) \in Nat /\ Cardinality(Threads) \in Nat
      /\ UnsignedMax \in Nat /\ Cardinality(Threads) <= UnsignedMax
  <2>1. ReadHolders \subseteq Threads
    BY DEF ReadHolders
  <2>2. IsFiniteSet(Threads) /\ Cardinality(Threads) <= UnsignedMax /\ UnsignedMax \in Nat
    BY ThreadsAssumption, UnsignedMaxAssumption DEF ThreadsAssumption, UnsignedMaxAssumption
  <2>3. IsFiniteSet(ReadHolders)
    BY <2>1, <2>2, FS_Subset
  <2> QED BY <2>1, <2>2, <2>3, FS_CardinalityType
<1>3. CASE UNCHANGED lock /\ (HoldsRead(t)' <=> HoldsRead(t)) /\ (HoldsWrite(t)' <=> HoldsWrite(t))
  <2>1. ReadHolders' = ReadHolders
    BY <1>1, <1>3 DEF ReadHolders
  <2>2. \A u \in Threads : HoldsWrite(u)' <=> HoldsWrite(u)
    BY <1>1, <1>3
  <2> QED BY <1>0, <1>3, <2>1, <2>2 DEF LockInv
<1>4. CASE Rdlock /\ ~HoldsRead(t) /\ ~HoldsWrite(t) /\ HoldsRead(t)' /\ ~HoldsWrite(t)'
  <2>1. ReadHolders' = ReadHolders \cup {t} /\ t \notin ReadHolders
    BY <1>1, <1>4 DEF ReadHolders
  <2>2. Cardinality(ReadHolders') = Cardinality(ReadHolders) + 1 /\ IsFiniteSet(ReadHolders')
    BY <1>2, <2>1, FS_AddElement
  <2>3. Cardinality(ReadHolders') <= Cardinality(Threads)
    <3>1. ReadHolders' \subseteq Threads
      BY <1>2, <2>1
    <3> QED BY <1>2, <3>1, FS_Subset
  <2>4. readers' = Cardinality(ReadHolders')
    <3>1. readers + 1 \in 0 .. UnsignedMax
      BY <1>0, <1>2, <2>2, <2>3
    <3>2. (readers + 1) % (UnsignedMax + 1) = readers + 1
      BY <1>0, <1>2, <3>1
    <3> QED BY <1>0, <1>4, <2>2, <3>2 DEF Rdlock
  <2>5. \A u \in Threads : ~HoldsWrite(u)'
    BY <1>0, <1>1, <1>4 DEF Rdlock
  <2> QED BY <1>0, <1>4, <2>4, <2>5 DEF LockInv, Rdlock
<1>5. CASE Wrlock /\ ~HoldsRead(t) /\ ~HoldsWrite(t) /\ ~HoldsRead(t)' /\ HoldsWrite(t)'
  <2>1. ReadHolders = {}
    BY <1>0, <1>2, <1>5, FS_EmptySet DEF Wrlock, CanWrite
  <2>2. ReadHolders' = {}
    BY <1>1, <1>5, <2>1 DEF ReadHolders
  <2>3. \A u \in Threads : HoldsWrite(u)' => u = t
    BY <1>0, <1>1, <1>5 DEF Wrlock, CanWrite
  <2> QED BY <1>0, <1>5, <2>1, <2>2, <2>3 DEF LockInv, Wrlock
<1>6. CASE Unlock /\ HoldsRead(t) /\ ~HoldsRead(t)' /\ ~HoldsWrite(t)'
  <2>1. t \in ReadHolders /\ ~writing
    BY <1>0, <1>6 DEF ReadHolders
  <2>2. ReadHolders' = ReadHolders \ {t}
    BY <1>1, <1>6 DEF ReadHolders
  <2>3. Cardinality(ReadHolders') = Cardinality(ReadHolders) - 1
    BY <1>2, <2>1, <2>2, FS_RemoveElement
  <2>4. Cardinality(ReadHolders) # 0
    BY <1>2, <2>1, FS_EmptySet
  <2>5. \A u \in Threads : ~HoldsWrite(u)'
    BY <1>0, <1>1, <1>6, <2>1
  <2> QED BY <1>0, <1>6, <2>1, <2>3, <2>4, <2>5 DEF LockInv, Unlock
<1>7. CASE Unlock /\ HoldsWrite(t) /\ ~HoldsRead(t) /\ ~HoldsRead(t)' /\ ~HoldsWrite(t)'
  <2>1. writing /\ ReadHolders = {} /\ \A u \in Threads : u # t => ~HoldsWrite(u)
    BY <1>0, <1>7
  <2>2. ReadHolders' = {}
    BY <1>1, <1>7, <2>1 DEF ReadHolders
  <2>3. \A u \in Threads : ~HoldsWrite(u)'
    BY <1>1, <1>7, <2>1
  <2> QED BY <1>0, <1>7, <2>1, <2>2, <2>3 DEF LockInv, Unlock
<1> QED BY <1>3, <1>4, <1>5, <1>6, <1>7, LockKinds

LEMMA LockNext == TypeInv /\ LockInv /\ [NextAny]_vars => LockInv'
<1> SUFFICES ASSUME TypeInv, LockInv, [NextAny]_vars PROVE LockInv'
  OBVIOUS
<1>1. CASE Finalize \/ UNCHANGED vars
  <2>1. UNCHANGED <<conf, pc, req, lock>>
    BY <1>1, FinalizeFrame
  <2>2. ReadHolders' = ReadHolders /\ \A u \in Threads : HoldsWrite(u)' <=> HoldsWrite(u)
    BY <2>1 DEF ReadHolders, HoldsRead, HoldsWrite
  <2> QED BY <2>1, <2>2 DEF LockInv, Locked, lock
<1>2. CASE \E t \in Threads : Frame(t) /\ Runnable(t) /\ Kind(t)
  BY <1>2, LockStep
<1> QED BY <1>1, <1>2, NextCases

LEMMA LockInit0 == Init => LockInv
<1> SUFFICES ASSUME Init PROVE LockInv
  OBVIOUS
<1>1. ReadHolders = {} /\ \A t \in Threads : ~HoldsWrite(t)
  BY DEF Init, ReadHolders, HoldsRead, HoldsWrite
<1> QED BY <1>1, FS_EmptySet DEF Init, LockInit, LockInv

\* Types and the lock.
LEMMA LockAlways == SpecAny => [](TypeInv /\ LockInv)
BY TypeInit, LockInit0, TypeNext, LockNext, PTL DEF SpecAny

-----------------------------------------------------------------------------
(* Nobody reads what changes *)

\* A request that reads either does not give way in the midst of it, on one
\* stream; or others only put, behind a lock that works, or do not write at all:
\* erasures and the end of a migration change the map under the lock of the
\* readers.
Guarded(c) == c.use_lock /\ \A t \in Threads : \A r \in c.requests[t] : ~r.consume

ReadsUndisturbed(c) ==
  \A t \in Threads : \A r \in c.requests[t] :
    r.op \in Reads \cup Scans /\ Supported(c, r.op) =>
      \/ c.streams = "one" /\ r.op \notin {"fetch", "iter"}
      \/ /\ \A u \in Threads : u # t =>
              \A q \in c.requests[u] : q.op \notin {"erase", "migrate"} /\ ~q.consume
         /\ \/ Guarded(c)
            \/ /\ ~c.shutdown
               /\ \A u \in Threads : u # t => \A q \in c.requests[u] : q.op # "put"

\* What a step that changes the map can be.
LEMMA Changes ==
  ASSUME TypeInv, NEW t \in Threads, Frame(t), Kind(t), db' # db
  PROVE  \/ HoldsWrite(t) /\ req[t].op = "put" /\ migrated' = migrated
         \/ pc[t] = "body" /\ req[t].op = "erase" /\ migrated' = migrated
         \/ pc[t] = "transfer" /\ req[t].op = "migrate"
<1>1. CASE Stores(t) \/ Erases(t)
  BY <1>1 DEF Stores, Erases, HoldsWrite, Moves
<1>2. CASE HandsOver(t)
  BY <1>2 DEF HandsOver, Moves, TypeInv, Placed
<1> QED BY <1>1, <1>2 DEF Kind, Still, Begins, Rejects, Quits, EntersToRead, EntersToWrite,
           Expects, GoesToWait, Waits, Wakes, Relocks, Leaves, Consumes, ReleasesTwice, Walks,
           Notifies, StartsMigration, TakesSnapshot

LEMMA StableStep ==
  ASSUME TypeInv, LockInv, ReadsUndisturbed(conf), [NextAny]_vars, db' # db, NEW u \in Threads
  PROVE  ~Reading(u) /\ ~Scanning(u)
<1> SUFFICES ASSUME Reading(u) \/ Scanning(u) PROVE FALSE
  OBVIOUS
<1>0. /\ pc[u] = "body" /\ req[u].op \in Reads \cup Scans /\ Sent(u) /\ HoldsRead(u)
      /\ Supported(conf, req[u].op)
  BY DEF Reading, Scanning, TypeInv, Placed, HoldsRead, Reads, Scans
<1>r. PICK r \in conf.requests[u] : req[u].op = r.op
  BY <1>0 DEF Sent, Reads, Scans
<1>1. CASE conf.streams = "one" /\ r.op \notin {"fetch", "iter"}
  <2>1. ~AtYield(u)
    BY <1>0, <1>1, <1>r DEF AtYield
  <2>2. CASE Finalize
    BY <1>1, <2>1, <2>2 DEF Finalize, destroy, Delete, DeleteEnd, Quiet, OneStream, data
  <2>3. ASSUME NEW t \in Threads, Frame(t), Runnable(t), Kind(t) PROVE FALSE
    <3>1. t = u
      BY <1>1, <2>1, <2>3 DEF Runnable, OneStream
    <3> QED BY <1>0, <2>3, <3>1, Changes DEF Reads, Scans
  <2> QED BY <2>2, <2>3, NextCases DEF vars
<1>2. CASE /\ \A t \in Threads : t # u =>
                \A q \in conf.requests[t] : q.op \notin {"erase", "migrate"} /\ ~q.consume
           /\ \/ Guarded(conf)
              \/ /\ ~conf.shutdown
                 /\ \A t \in Threads : t # u => \A q \in conf.requests[t] : q.op # "put"
  <2>1. ASSUME Guarded(conf) PROVE readers # 0 /\ \A t \in Threads : ~HoldsWrite(t)
    <3>1. Locked
      BY <2>1 DEF Locked, Guarded
    <3>2. u \in ReadHolders /\ ReadHolders # {}
      BY <1>0 DEF ReadHolders
    <3>3. IsFiniteSet(ReadHolders)
      BY ThreadsAssumption, FS_Subset DEF ThreadsAssumption, ReadHolders
    <3> QED BY <3>1, <3>2, <3>3, FS_EmptySet DEF LockInv
  <2>2. CASE Finalize
    BY <1>2, <2>1, <2>2 DEF Finalize, destroy, Delete, DeleteEnd, CanWrite, data, Guarded
  <2>3. ASSUME NEW t \in Threads, Frame(t), Runnable(t), Kind(t) PROVE FALSE
    <3>1. \/ HoldsWrite(t) /\ req[t].op = "put"
          \/ pc[t] \in {"body", "transfer"} /\ req[t].op \in {"erase", "migrate"}
      BY <2>3, Changes
    <3>2. t # u
      BY <1>0, <3>1 DEF Reads, Scans
    <3>3. Sent(t)
      BY <3>1 DEF TypeInv, Placed, HoldsWrite
    <3>4. req[t].op \notin {"erase", "migrate"}
      BY <1>2, <3>2, <3>3 DEF Sent
    <3>5. HoldsWrite(t) /\ req[t].op = "put"
      BY <3>1, <3>4
    <3>6. ~Guarded(conf)
      BY <2>1, <3>5
    <3> QED BY <1>2, <3>2, <3>3, <3>5, <3>6 DEF Sent
  <2> QED BY <2>2, <2>3, NextCases DEF vars
<1> QED BY <1>0, <1>1, <1>2, <1>r DEF ReadsUndisturbed

\* While a request looks keys up or walks the map, nothing is inserted, changed
\* or removed (the scoped locks of map.cpp, or the threads of one stream).
THEOREM MapStable ==
  ASSUME \A c \in Setups : ReadsUndisturbed(c)
  PROVE  SpecAny => MapStableWhileRead
<1>1. TypeInv => ReadsUndisturbed(conf)
  BY DEF TypeInv
<1>2. TypeInv /\ LockInv /\ [NextAny]_vars =>
        [db' # db => \A t \in Threads : ~Reading(t) /\ ~Scanning(t)]_vars
  BY <1>1, StableStep
<1> QED BY <1>2, LockAlways, PTL DEF SpecAny, MapStableWhileRead

-----------------------------------------------------------------------------
(* Migration *)

\* A database is migrated behind a lock that works.
MigratesLocked(c) ==
  (\E t \in Threads : \E r \in c.requests[t] : r.op = "migrate")
    => c.use_lock /\ \A t \in Threads : \A r \in c.requests[t] : ~r.consume

\* And nothing is erased meanwhile: erase takes the lock of the readers.
MigratesUnerased(c) ==
  (\E t \in Threads : \E r \in c.requests[t] : r.op = "migrate")
    => \A t \in Threads : \A r \in c.requests[t] : r.op # "erase"

\* A thread that migrates has the lock of the readers: nobody writes, and the
\* database is not destroyed.
LEMMA MigratorLocks ==
  ASSUME TypeInv, LockInv, MigratesLocked(conf), NEW t \in Threads, pc[t] = "transfer"
  PROVE  /\ Locked /\ conf.use_lock /\ ~CanWrite
         /\ \E r \in conf.requests[t] : r.op = "migrate"
         /\ \A u \in Threads : ~HoldsWrite(u)
<1>1. Sent(t) /\ req[t].op = "migrate"
  BY DEF TypeInv, Placed
<1>2. \E r \in conf.requests[t] : r.op = "migrate"
  BY <1>1 DEF Sent
<1>3. Locked
  BY <1>2 DEF MigratesLocked, Locked
<1>4. t \in ReadHolders
  BY DEF ReadHolders, HoldsRead
<1>5. IsFiniteSet(ReadHolders)
  BY ThreadsAssumption, FS_Subset DEF ThreadsAssumption, ReadHolders
<1>6. readers # 0 /\ ~writing
  BY <1>3, <1>4, <1>5, FS_EmptySet DEF LockInv
<1> QED BY <1>2, <1>3, <1>4, <1>6 DEF LockInv, CanWrite, Locked

\* Writers have looked at m_migrated.
MigratedInv ==
  /\ migrated => db = Empty
  /\ \A t \in Threads : HoldsWrite(t) => ~migrated

LEMMA MigratedStep ==
  ASSUME TypeInv, LockInv, MigratesLocked(conf), MigratedInv, NEW t \in Threads, Frame(t), Kind(t)
  PROVE  MigratedInv'
<1>1. CASE HandsOver(t)
  <2>1. pc[t] = "transfer" /\ pc'[t] = "unlock" /\ db' = Empty
    BY <1>1 DEF HandsOver, Moves
  <2>2. \A u \in Threads : ~HoldsWrite(u)
    BY <2>1, MigratorLocks
  <2>3. \A u \in Threads : ~HoldsWrite(u)'
    BY <2>1, <2>2 DEF HoldsWrite, Frame
  <2> QED BY <2>1, <2>3 DEF MigratedInv
<1>2. CASE ~HandsOver(t)
  <2>1. migrated' = migrated
    BY <1>2 DEF Kind, Still, Begins, Rejects, Quits, EntersToRead, EntersToWrite,
       Expects, GoesToWait, Waits, Wakes, Relocks, Leaves, Consumes, ReleasesTwice, Walks,
       Notifies, StartsMigration, TakesSnapshot, Stores, Erases
  <2>2. HoldsWrite(t)' => HoldsWrite(t) \/ ~migrated
    <3>1. CASE EntersToWrite(t)
      BY <3>1 DEF EntersToWrite
    <3>2. CASE Stores(t) \/ Notifies(t)
      BY <3>2 DEF Stores, Notifies, HoldsWrite, Moves
    <3>3. CASE Relocks(t)
      BY <3>3 DEF Relocks, HoldsWrite, Kept, TypeInv, Placed, Sleeping, Reads
    <3> QED BY <1>2, <3>1, <3>2, <3>3 DEF Kind, HoldsWrite, Moves, Kept, Begins, Rejects, Quits,
               EntersToRead, Expects, GoesToWait, Waits, Wakes, Leaves, Consumes, ReleasesTwice,
               Walks, Erases, StartsMigration, TakesSnapshot
  <2>3. \A u \in Threads : HoldsWrite(u)' => ~migrated
    BY <2>2 DEF HoldsWrite, Frame, MigratedInv
  <2>4. ASSUME migrated PROVE db' = db
    <3>1. SUFFICES ASSUME db' # db PROVE FALSE
      OBVIOUS
    <3>2. ~HoldsWrite(t) /\ db = Empty
      BY <2>4 DEF MigratedInv
    <3>3. ~Erases(t)
      <4>1. SUFFICES ASSUME Erases(t) PROVE FALSE
        OBVIOUS
      <4>2. Key(t) \in Keys
        BY <4>1 DEF Erases, Moves, TypeInv, Placed, Request, Key, More
      <4> QED BY <3>2, <4>1, <4>2 DEF Erases, Empty
    <3>4. ~Stores(t)
      BY <3>2 DEF Stores, HoldsWrite
    <3> QED BY <1>2, <3>1, <3>3, <3>4 DEF Kind, Still, Begins, Rejects, Quits, EntersToRead,
               EntersToWrite, Expects, GoesToWait, Waits, Wakes, Relocks, Leaves, Consumes,
               ReleasesTwice, Walks, Notifies, StartsMigration, TakesSnapshot
  <2> QED BY <2>1, <2>3, <2>4 DEF MigratedInv
<1> QED BY <1>1, <1>2

LEMMA MigratedNext ==
  TypeInv /\ LockInv /\ MigratesLocked(conf) /\ MigratedInv /\ [NextAny]_vars => MigratedInv'
<1> SUFFICES ASSUME TypeInv, LockInv, MigratesLocked(conf), MigratedInv, [NextAny]_vars
             PROVE  MigratedInv'
  OBVIOUS
<1>1. CASE Finalize \/ UNCHANGED vars
  <2>1. UNCHANGED <<conf, pc, req, migrated>> /\ (db' = db \/ db' = Empty)
    BY <1>1, FinalizeFrame
  <2> QED BY <2>1 DEF MigratedInv, HoldsWrite
<1>2. CASE \E t \in Threads : Frame(t) /\ Runnable(t) /\ Kind(t)
  BY <1>2, MigratedStep
<1> QED BY <1>1, <1>2, NextCases

\* Once a database has migrated nothing is stored in it any more, not even by a
\* request that was blocked or asleep when the migration began.
THEOREM NothingStored ==
  ASSUME \A c \in Setups : MigratesLocked(c)
  PROVE  SpecAny => []NothingStoredAfterHandover
<1>1. TypeInv => MigratesLocked(conf)
  BY DEF TypeInv
<1>2. Init => MigratedInv
  BY DEF Init, MigratedInv, HoldsWrite
<1>3. MigratedInv => NothingStoredAfterHandover
  BY DEF MigratedInv, NothingStoredAfterHandover
<1> QED BY <1>1, <1>2, <1>3, LockAlways, MigratedNext, PTL DEF SpecAny

\* The file that is handed over stays the content of the database.
SnapshotInv == \A t \in Threads : pc[t] = "transfer" /\ ~migrated => got[t] = db

LEMMA SnapshotNext ==
  TypeInv /\ LockInv /\ MigratesLocked(conf) /\ MigratesUnerased(conf) /\ SnapshotInv
    /\ [NextAny]_vars => SnapshotInv'
<1> SUFFICES ASSUME TypeInv, LockInv, MigratesLocked(conf), MigratesUnerased(conf), SnapshotInv,
                    [NextAny]_vars, NEW t \in Threads, pc'[t] = "transfer", ~migrated'
             PROVE  got'[t] = db'
  BY DEF SnapshotInv
<1>1. CASE Finalize \/ UNCHANGED vars
  <2>1. UNCHANGED <<pc, migrated, got>>
    BY <1>1, FinalizeFrame
  <2>2. conf.use_lock /\ ~CanWrite
    BY <2>1, MigratorLocks
  <2>3. db' = db
    BY <1>1, <2>2 DEF Finalize, destroy, Delete, DeleteEnd, vars, data
  <2> QED BY <2>1, <2>3 DEF SnapshotInv
<1>2. ASSUME NEW u \in Threads, Frame(u), Runnable(u), Kind(u) PROVE got'[t] = db'
  <2>1. CASE TakesSnapshot(u) /\ u = t
    BY <2>1 DEF TakesSnapshot, Still
  <2>2. CASE ~(TakesSnapshot(u) /\ u = t)
    <3>1. u # t
      BY <1>2, <2>2 DEF Kind, Moves, Kept, Begins, Rejects, Quits, EntersToRead, EntersToWrite,
         Expects, GoesToWait, Waits, Wakes, Relocks, Leaves, Consumes, ReleasesTwice, Walks,
         Erases, Stores, Notifies, StartsMigration, HandsOver
    <3>2. pc[t] = "transfer" /\ got'[t] = got[t]
      BY <1>2, <3>1 DEF Frame
    <3>3. ~HandsOver(u)
      BY DEF HandsOver
    <3>4. migrated' = migrated
      BY <1>2, <3>3 DEF Kind, Still, Begins, Rejects, Quits, EntersToRead, EntersToWrite,
         Expects, GoesToWait, Waits, Wakes, Relocks, Leaves, Consumes, ReleasesTwice, Walks,
         Notifies, StartsMigration, TakesSnapshot, Stores, Erases
    <3>5. /\ Locked /\ ~HoldsWrite(u)
          /\ \E r \in conf.requests[t] : r.op = "migrate"
      BY <3>2, MigratorLocks
    <3>6. ~Stores(u) /\ ~Erases(u)
      <4>1. ~Stores(u)
        BY <3>5 DEF Stores, HoldsWrite
      <4>2. SUFFICES ASSUME Erases(u) PROVE FALSE
        BY <4>1
      <4>3. Sent(u) /\ req[u].op = "erase"
        BY <4>2 DEF Erases, Moves, TypeInv, Placed
      <4> QED BY <3>5, <4>3 DEF Sent, MigratesUnerased, Locked
    <3>7. db' = db
      BY <1>2, <3>3, <3>6 DEF Kind, Still, Begins, Rejects, Quits, EntersToRead, EntersToWrite,
         Expects, GoesToWait, Waits, Wakes, Relocks, Leaves, Consumes, ReleasesTwice, Walks,
         Notifies, StartsMigration, TakesSnapshot
    <3> QED BY <3>2, <3>4, <3>7 DEF SnapshotInv
  <2> QED BY <2>1, <2>2
<1> QED BY <1>1, <1>2, NextCases

\* The file that a migration hands over is the content of the database when it
\* is cleared: no update that the source acknowledged is missing.
THEOREM HandoverKeepsAll ==
  ASSUME \A c \in Setups : MigratesLocked(c) /\ MigratesUnerased(c)
  PROVE  SpecAny => HandoverComplete
<1>1. TypeInv => MigratesLocked(conf) /\ MigratesUnerased(conf)
  BY DEF TypeInv
<1>2. Init => SnapshotInv
  BY DEF Init, SnapshotInv
<1>3. TypeInv /\ SnapshotInv /\ [NextAny]_vars =>
        [~migrated /\ migrated' => \E t \in Threads : pc[t] = "transfer" /\ pc'[t] = "unlock"
                                                      /\ got[t] = db]_vars
  <2> SUFFICES ASSUME TypeInv, SnapshotInv, [NextAny]_vars, ~migrated, migrated'
               PROVE  \E t \in Threads : pc[t] = "transfer" /\ pc'[t] = "unlock" /\ got[t] = db
    OBVIOUS
  <2>1. PICK t \in Threads : Frame(t) /\ Kind(t)
    BY NextCases, FinalizeFrame
  <2>2. HandsOver(t)
    BY <2>1 DEF Kind, Still, Begins, Rejects, Quits, EntersToRead, EntersToWrite,
       Expects, GoesToWait, Waits, Wakes, Relocks, Leaves, Consumes, ReleasesTwice, Walks,
       Notifies, StartsMigration, TakesSnapshot, Stores, Erases
  <2> QED BY <2>2 DEF HandsOver, Moves, SnapshotInv
<1> QED BY <1>1, <1>2, <1>3, LockAlways, SnapshotNext, PTL DEF SpecAny, HandoverComplete

-----------------------------------------------------------------------------
(* The watcher *)

Entry == [thread : Threads, key : Keys, status : {"Pending", "KeyPresent", "Timeout"}]

\* Each thread between addKey and the end of waitKey has one entry, for the key
\* that it looked up, and nobody else has any.
WatchInv ==
  /\ expected \in Seq(Entry)
  /\ \A m, n \in 1 .. Len(expected) : expected[m].thread = expected[n].thread => m = n
  /\ \A n \in 1 .. Len(expected) :
       InWatcher(expected[n].thread) /\ expected[n].key = Key(expected[n].thread)
  /\ \A t \in Threads : InWatcher(t) => \E n \in 1 .. Len(expected) : expected[n].thread = t

\* What is left when an element is removed.
LEMMA Removed ==
  ASSUME NEW S, NEW s \in Seq(S), NEW i \in 1 .. Len(s)
  PROVE  /\ RemoveAt(s, i) \in Seq(S) /\ Len(RemoveAt(s, i)) = Len(s) - 1
         /\ \A n \in 1 .. Len(s) - 1 : RemoveAt(s, i)[n] = IF n < i THEN s[n] ELSE s[n + 1]
<1> DEFINE p == SubSeq(s, 1, i - 1)
           q == SubSeq(s, i + 1, Len(s))
<1>1. p \in Seq(S) /\ Len(p) = i - 1 /\ \A n \in 1 .. i - 1 : p[n] = s[n]
  OBVIOUS
<1>2. q \in Seq(S) /\ Len(q) = Len(s) - i /\ \A n \in 1 .. Len(s) - i : q[n] = s[n + i]
  OBVIOUS
<1> HIDE DEF p, q
<1>3. p \o q \in Seq(S) /\ Len(p \o q) = Len(p) + Len(q)
  BY <1>1, <1>2, ConcatProperties
<1>4. \A n \in 1 .. Len(s) - 1 : (p \o q)[n] = IF n < i THEN s[n] ELSE s[n + 1]
  BY <1>1, <1>2
<1>5. Len(p \o q) = Len(s) - 1
  BY <1>1, <1>2, <1>3
<1> QED BY <1>3, <1>4, <1>5 DEF RemoveAt, p, q

\* The entry of a thread is found.
LEMMA Found ==
  ASSUME WatchInv, NEW t \in Threads, InWatcher(t)
  PROVE  /\ EntryOf(t) \in 1 .. Len(expected) /\ expected[EntryOf(t)].thread = t
         /\ expected[EntryOf(t)].key = Key(t)
         /\ \A n \in 1 .. Len(expected) : expected[n].thread = t => n = EntryOf(t)
<1>1. PICK n \in 1 .. Len(expected) : expected[n].thread = t
  BY DEF WatchInv
<1>2. EntryOf(t) \in 1 .. Len(expected) /\ expected[EntryOf(t)].thread = t
  BY <1>1 DEF EntryOf
<1> QED BY <1>2 DEF WatchInv

\* What a step does to the entries: one is added, one removed, or some are
\* signalled, and the threads stay in the watcher or out of it.
Enrols(t) ==
  /\ ~InWatcher(t) /\ InWatcher(t)' /\ Key(t)' = Key(t) /\ Key(t) \in Keys
  /\ expected' = Append(expected, [thread |-> t, key |-> Key(t), status |-> "Pending"])
Departs(t) ==
  /\ InWatcher(t) /\ ~InWatcher(t)' /\ expected' = RemoveAt(expected, EntryOf(t))
Stays(t) ==
  /\ InWatcher(t)' <=> InWatcher(t)
  /\ InWatcher(t) => Key(t)' = Key(t)

LEMMA WatchKinds ==
  ASSUME TypeInv, WatchInv, NEW t \in Threads, Frame(t), Kind(t)
  PROVE  \/ Expects(t) /\ Enrols(t)
         \/ Wakes(t) /\ Departs(t)
         \/ Stays(t) /\ (UNCHANGED expected \/ \E P \in SUBSET Nat : Signal(P, "KeyPresent"))
<1> USE DEF InWatcher, Moves, Kept, Key
<1>1. CASE Expects(t)
  <2>1. Key(t) \in Keys
    BY <1>1 DEF Expects, TypeInv, Placed, Request, More
  <2> QED BY <1>1, <2>1 DEF Expects, Enrols, addKey
<1>2. CASE Wakes(t)
  BY <1>2 DEF Wakes, Departs, Wake
<1>3. CASE GoesToWait(t) \/ Waits(t)
  BY <1>3 DEF GoesToWait, Waits, Stays, watcher
<1>4. CASE Notifies(t)
  <2>1. Stays(t)
    BY <1>4 DEF Notifies, Stays
  <2>2. \A k : notifyKey(k) => \E P \in SUBSET Nat : Signal(P, "KeyPresent")
    BY DEF notifyKey, Positions
  <2> QED BY <1>4, <2>1, <2>2 DEF Notifies, watcher
<1>5. CASE Begins(t) \/ Rejects(t) \/ Quits(t) \/ EntersToRead(t) \/ EntersToWrite(t)
           \/ Relocks(t) \/ Leaves(t) \/ Consumes(t)
  BY <1>5 DEF Begins, Rejects, Quits, EntersToRead, EntersToWrite, Relocks, Leaves, Consumes,
     Stays, watcher
<1>6. CASE ReleasesTwice(t) \/ Walks(t) \/ Erases(t) \/ Stores(t) \/ StartsMigration(t)
           \/ TakesSnapshot(t) \/ HandsOver(t)
  BY <1>6 DEF ReleasesTwice, Walks, Erases, Stores, StartsMigration, TakesSnapshot, HandsOver,
     Stays, watcher
<1> QED BY <1>1, <1>2, <1>3, <1>4, <1>5, <1>6 DEF Kind

\* Signals leave threads and keys alone.
LEMMA Signals ==
  ASSUME WatchInv, NEW P \in SUBSET Nat, NEW s \in {"KeyPresent", "Timeout"}, Signal(P, s)
  PROVE  /\ expected' \in Seq(Entry) /\ Len(expected') = Len(expected)
         /\ \A n \in 1 .. Len(expected) :
              /\ expected'[n].thread = expected[n].thread /\ expected'[n].key = expected[n].key
              /\ expected'[n].status = IF n \in P THEN s ELSE expected[n].status
<1>1. \A n \in 1 .. Len(expected) : expected[n] \in Entry
  BY DEF WatchInv
<1>2. /\ Len(expected) \in Nat /\ DOMAIN expected' = 1 .. Len(expected)
      /\ \A n \in 1 .. Len(expected) :
           expected'[n] = IF n \in P THEN [expected[n] EXCEPT !.status = s] ELSE expected[n]
  BY DEF Signal, WatchInv
<1>3. \A n \in 1 .. Len(expected) :
        /\ expected'[n] \in Entry
        /\ expected'[n].thread = expected[n].thread /\ expected'[n].key = expected[n].key
        /\ expected'[n].status = IF n \in P THEN s ELSE expected[n].status
  BY <1>1, <1>2 DEF Entry
<1>4. expected' = [n \in 1 .. Len(expected) |-> expected'[n]]
  BY <1>2 DEF Signal
<1>5. expected' \in Seq(Entry) /\ Len(expected') = Len(expected)
  BY <1>2, <1>3, <1>4
<1> QED BY <1>3, <1>5

\* Entries that stay where they are keep the invariant when threads do.
LEMMA SameEntries ==
  ASSUME WatchInv, expected' \in Seq(Entry), Len(expected') = Len(expected),
         \A n \in 1 .. Len(expected) :
           expected'[n].thread = expected[n].thread /\ expected'[n].key = expected[n].key,
         \A u \in Threads : Stays(u)
  PROVE  WatchInv'
<1>0. \A n \in 1 .. Len(expected) : expected[n] \in Entry
  BY DEF WatchInv
<1>1. \A n \in 1 .. Len(expected) : expected[n].thread \in Threads
  BY <1>0 DEF Entry
<1>2. ASSUME NEW n \in 1 .. Len(expected)
      PROVE  InWatcher(expected[n].thread)' /\ expected'[n].key = Key(expected[n].thread)'
  BY <1>1, <1>2, SMTT(30) DEF WatchInv, Stays, InWatcher, Key
<1>3. \A m, n \in 1 .. Len(expected') : expected'[m].thread = expected'[n].thread => m = n
  BY DEF WatchInv
<1>4. \A t \in Threads : InWatcher(t)' => \E n \in 1 .. Len(expected') : expected'[n].thread = t
  BY DEF WatchInv, Stays
<1> QED BY <1>2, <1>3, <1>4 DEF WatchInv

LEMMA EnrolsStep ==
  ASSUME WatchInv, NEW t \in Threads, Enrols(t), \A u \in Threads : u # t => Stays(u)
  PROVE  /\ WatchInv' /\ Len(expected') = Len(expected) + 1
         /\ \A n \in 1 .. Len(expected) : expected'[n] = expected[n]
<1> DEFINE e == [thread |-> t, key |-> Key(t), status |-> "Pending"]
<1>1. e \in Entry /\ e.thread = t /\ e.key = Key(t)
  BY DEF Enrols, Entry
<1> HIDE DEF e
<1>2. /\ expected' \in Seq(Entry) /\ Len(expected') = Len(expected) + 1 /\ Len(expected) \in Nat
      /\ \A n \in 1 .. Len(expected) : expected'[n] = expected[n]
      /\ expected'[Len(expected) + 1] = e
  BY <1>1 DEF Enrols, WatchInv, e
<1>3. \A n \in 1 .. Len(expected) : expected[n] \in Entry
  BY DEF WatchInv
<1>4. \A n \in 1 .. Len(expected) : expected[n].thread \in Threads /\ expected[n].thread # t
  BY <1>3 DEF WatchInv, Enrols, Entry
<1>5. ASSUME NEW n \in 1 .. Len(expected')
      PROVE  InWatcher(expected[n].thread)' /\ expected'[n].key = Key(expected[n].thread)'
  <2>1. CASE n = Len(expected) + 1
    BY <1>1, <1>2, <2>1 DEF Enrols, InWatcher, Key
  <2>2. CASE n \in 1 .. Len(expected)
    BY SMTT(30), <1>2, <1>4, <2>2 DEF WatchInv, Stays, InWatcher, Key
  <2> QED BY <1>2, <2>1, <2>2
<1>6. \A m, n \in 1 .. Len(expected') : expected'[m].thread = expected'[n].thread => m = n
  BY <1>1, <1>2, <1>4 DEF WatchInv
<1>7. \A u \in Threads : InWatcher(u)' => \E n \in 1 .. Len(expected') : expected'[n].thread = u
  BY <1>1, <1>2 DEF WatchInv, Stays
<1> QED BY <1>2, <1>5, <1>6, <1>7 DEF WatchInv

LEMMA DepartsStep ==
  ASSUME WatchInv, NEW t \in Threads, Departs(t), \A u \in Threads : u # t => Stays(u)
  PROVE  /\ WatchInv'
         /\ \A n \in 1 .. Len(expected) : expected[n].thread # t =>
              \E m \in 1 .. Len(expected') : expected'[m] = expected[n]
<1> DEFINE i == EntryOf(t)
           old(n) == IF n < i THEN n ELSE n + 1
<1>1. i \in 1 .. Len(expected) /\ \A n \in 1 .. Len(expected) : expected[n].thread = t <=> n = i
  BY Found DEF Departs
<1> HIDE DEF i
<1>2. /\ expected' \in Seq(Entry) /\ Len(expected') = Len(expected) - 1 /\ Len(expected) \in Nat
      /\ \A n \in 1 .. Len(expected) - 1 : expected'[n] = IF n < i THEN expected[n] ELSE expected[n + 1]
  <2>1. expected \in Seq(Entry) /\ expected' = RemoveAt(expected, i) /\ Len(expected) \in Nat
    BY DEF Departs, WatchInv, i
  <2> QED BY <1>1, <2>1, Removed
<1>3. \A n \in 1 .. Len(expected') :
        old(n) \in 1 .. Len(expected) /\ old(n) # i /\ expected'[n] = expected[old(n)]
  BY <1>1, <1>2
<1>4. \A n \in 1 .. Len(expected) : n # i =>
        \E m \in 1 .. Len(expected') : expected'[m] = expected[n]
  <2> SUFFICES ASSUME NEW n \in 1 .. Len(expected), n # i
               PROVE  \E m \in 1 .. Len(expected') : expected'[m] = expected[n]
    OBVIOUS
  <2>1. CASE n < i
    BY <1>1, <1>2, <2>1
  <2>2. CASE n > i
    <3>1. n - 1 \in 1 .. Len(expected') /\ ~(n - 1 < i) /\ (n - 1) + 1 = n
      BY <1>1, <1>2, <2>2
    <3> QED BY <1>2, <3>1
  <2> QED BY <1>1, <2>1, <2>2
<1>5. \A n \in 1 .. Len(expected) : expected[n] \in Entry
  BY DEF WatchInv
<1>6. \A n \in 1 .. Len(expected) : expected[n].thread \in Threads
  BY <1>5 DEF Entry
<1>7. ASSUME NEW n \in 1 .. Len(expected')
      PROVE  InWatcher(expected[n].thread)' /\ expected'[n].key = Key(expected[n].thread)'
  <2>1. PICK m \in 1 .. Len(expected) : m # i /\ expected'[n] = expected[m]
    BY <1>3, <1>7
  <2>2. expected[m].thread # t /\ expected[m].thread \in Threads
    BY <1>1, <1>6, <2>1
  <2> QED BY <2>1, <2>2, SMTT(30) DEF WatchInv, Stays, InWatcher, Key
<1>8. \A m, n \in 1 .. Len(expected') : expected'[m].thread = expected'[n].thread => m = n
  <2> SUFFICES ASSUME NEW m \in 1 .. Len(expected'), NEW n \in 1 .. Len(expected'),
                      expected'[m].thread = expected'[n].thread
               PROVE  m = n
    OBVIOUS
  <2>1. old(m) = old(n)
    BY <1>3, SMTT(30) DEF WatchInv
  <2> QED BY <1>1, <1>2, <2>1
<1>9. \A u \in Threads : InWatcher(u)' => \E n \in 1 .. Len(expected') : expected'[n].thread = u
  <2> SUFFICES ASSUME NEW u \in Threads, InWatcher(u)'
               PROVE  \E n \in 1 .. Len(expected') : expected'[n].thread = u
    OBVIOUS
  <2>1. u # t /\ InWatcher(u)
    BY DEF Departs, Stays
  <2>2. PICK n \in 1 .. Len(expected) : expected[n].thread = u
    BY <2>1 DEF WatchInv
  <2> QED BY <1>1, <1>4, <2>1, <2>2
<1>10. WatchInv'
  BY <1>2, <1>7, <1>8, <1>9 DEF WatchInv
<1> QED BY <1>1, <1>4, <1>10

\* Nothing happens to a thread in the watcher, or to its key, but in its own steps.
LEMMA OthersStay ==
  ASSUME NEW t \in Threads, Frame(t) PROVE \A u \in Threads : u # t => Stays(u)
BY DEF Frame, Stays, InWatcher, Key

LEMMA WatchNext == TypeInv /\ WatchInv /\ [NextAny]_vars => WatchInv'
<1> SUFFICES ASSUME TypeInv, WatchInv, [NextAny]_vars PROVE WatchInv'
  OBVIOUS
<1>s. ASSUME NEW P \in SUBSET Nat, NEW s \in {"KeyPresent", "Timeout"}, Signal(P, s),
             \A u \in Threads : Stays(u)
      PROVE  WatchInv'
  BY <1>s, Signals, SameEntries
<1>u. ASSUME UNCHANGED expected, \A u \in Threads : Stays(u) PROVE WatchInv'
  <2>1. expected' \in Seq(Entry) /\ Len(expected') = Len(expected)
    BY <1>u DEF WatchInv
  <2> QED BY <1>u, <2>1, SameEntries
<1>1. CASE Finalize \/ UNCHANGED vars
  <2>1. \A u \in Threads : Stays(u)
    BY <1>1, FinalizeFrame DEF Stays, InWatcher, Key
  <2>2. UNCHANGED expected \/ Signal(1 .. Len(expected), "Timeout")
    BY <1>1 DEF Finalize, destroy, Delete, DeleteEnd, WakeAll, vars, watcher
  <2>3. 1 .. Len(expected) \in SUBSET Nat
    BY DEF WatchInv
  <2> QED BY <1>s, <1>u, <2>1, <2>2, <2>3
<1>2. ASSUME NEW t \in Threads, Frame(t), Runnable(t), Kind(t) PROVE WatchInv'
  <2>1. \A u \in Threads : u # t => Stays(u)
    BY <1>2, OthersStay
  <2> QED BY <1>2, <1>s, <1>u, <2>1, WatchKinds, EnrolsStep, DepartsStep
<1> QED BY <1>1, <1>2, NextCases

LEMMA WatchInit == Init => WatchInv
BY DEF Init, WatcherInit, WatchInv, InWatcher

-----------------------------------------------------------------------------
(* No notification is lost *)

\* The put of a set announces another key than the one it stores (set.cpp:352).
NotifiesItsKeys(c) ==
  c.backend = "set" => \A t \in Threads : \A r \in c.requests[t] : ~r.notify

Asleep(t) == pc[t] \in {"added", "wait", "waiting"}

LEMMA PendingEntry ==
  ASSUME WatchInv, NEW t \in Threads, InWatcher(t)
  PROVE  ~Signalled(t) <=>
           \E n \in 1 .. Len(expected) : expected[n].thread = t /\ expected[n].status = "Pending"
<1>1. /\ EntryOf(t) \in 1 .. Len(expected) /\ expected[EntryOf(t)].thread = t
      /\ \A n \in 1 .. Len(expected) : expected[n].thread = t => n = EntryOf(t)
  BY Found
<1> QED BY <1>1 DEF Signalled

\* The same in the state that a step leads to.
LEMMA PendingEntryNext ==
  ASSUME WatchInv', NEW t \in Threads, InWatcher(t)'
  PROVE  ~Signalled(t)' <=>
           \E n \in 1 .. Len(expected') : expected'[n].thread = t /\ expected'[n].status = "Pending"
<1>1. PICK n \in 1 .. Len(expected') : expected'[n].thread = t
  BY DEF WatchInv
<1>2. EntryOf(t)' \in 1 .. Len(expected') /\ expected'[EntryOf(t)'].thread = t
  BY <1>1 DEF EntryOf
<1>3. \A m \in 1 .. Len(expected') : expected'[m].thread = t => m = EntryOf(t)'
  BY <1>2 DEF WatchInv
<1> QED BY <1>2, <1>3 DEF Signalled

\* Who is not signalled after a step of another thread was not before it.
LEMMA StillPending ==
  ASSUME TypeInv, WatchInv, WatchInv', NEW u \in Threads, Frame(u), Kind(u),
         NEW t \in Threads, InWatcher(t), InWatcher(t)', ~Signalled(t)'
  PROVE  ~Signalled(t)
<1>1. PICK n \in 1 .. Len(expected') : expected'[n].thread = t /\ expected'[n].status = "Pending"
  BY PendingEntryNext
<1>2. \A m \in 1 .. Len(expected) : expected[m].thread = t /\ expected[m].status = "Pending"
        => ~Signalled(t)
  BY PendingEntry
<1>3. CASE UNCHANGED expected
  BY <1>1, <1>2, <1>3
<1>4. CASE \E P \in SUBSET Nat : Signal(P, "KeyPresent")
  BY <1>1, <1>2, <1>4, Signals
<1>5. \A w \in Threads : w # u => Stays(w)
  BY OthersStay
<1>6. CASE Enrols(u)
  <2>1. u # t
    BY <1>6 DEF Enrols
  <2>2. /\ Len(expected') = Len(expected) + 1 /\ Len(expected) \in Nat
        /\ \A m \in 1 .. Len(expected) : expected'[m] = expected[m]
    BY <1>5, <1>6, EnrolsStep DEF WatchInv
  <2>3. PICK m \in 1 .. Len(expected) : expected[m].thread = t
    BY DEF WatchInv
  <2>4. m \in 1 .. Len(expected') /\ expected'[m].thread = t
    BY <2>2, <2>3
  <2>5. m = n
    BY <1>1, <2>4 DEF WatchInv
  <2> QED BY <1>1, <1>2, <2>2, <2>3, <2>5
<1>7. CASE Departs(u)
  <2>1. u # t
    BY <1>7 DEF Departs
  <2>2. PICK m \in 1 .. Len(expected) : expected[m].thread = t
    BY DEF WatchInv
  <2>3. PICK m1 \in 1 .. Len(expected') : expected'[m1] = expected[m]
    BY <1>5, <1>7, <2>1, <2>2, DepartsStep
  <2>4. m1 = n
    BY <1>1, <2>2, <2>3 DEF WatchInv
  <2> QED BY <1>1, <1>2, <2>2, <2>3, <2>4
<1> QED BY <1>3, <1>4, <1>6, <1>7, WatchKinds

LEMMA WakeupStep ==
  ASSUME TypeInv, WatchInv, WatchInv', NotifiesItsKeys(conf), NoLostWakeup,
         NEW u \in Threads, Frame(u), Kind(u),
         NEW t \in Threads, Asleep(t)', ~Signalled(t)', db'[Key(t)'] # Absent
  PROVE  Key(t)' \in silent' \/ \E w \in Threads : pc'[w] = "notify" /\ Key(w)' = Key(t)'
<1>1. Asleep(t) /\ Key(t)' = Key(t)
  <2>1. ~(Expects(u) /\ u = t)
    BY DEF Expects, Still, Key, Kept
  <2>2. CASE u # t
    BY <2>2 DEF Frame, Asleep, Key
  <2>3. CASE u = t
    BY <2>1, <2>3 DEF Kind, Asleep, Key, Moves, Kept, Begins, Rejects, Quits, EntersToRead,
       EntersToWrite, GoesToWait, Waits, Wakes, Relocks, Leaves, Consumes, ReleasesTwice, Walks,
       Erases, Stores, Notifies, StartsMigration, TakesSnapshot, HandsOver
  <2> QED BY <2>2, <2>3
<1>2. InWatcher(t) /\ InWatcher(t)'
  BY <1>1 DEF InWatcher, Asleep
<1>3. ~Signalled(t)
  BY <1>2, StillPending
<1>4. Key(t) \in Keys
  BY <1>1 DEF Asleep, TypeInv, Placed, Sleeping, More, Request, Key
<1>5. db[Key(t)] # Absent =>
        Key(t) \in silent \/ \E w \in Threads : pc[w] = "notify" /\ Key(w) = Key(t)
  BY <1>1, <1>3 DEF NoLostWakeup, Asleep
<1>6. ASSUME NEW w \in Threads, pc[w] = "notify", pc'[w] = "notify" PROVE Key(w)' = Key(w)
  BY <1>6 DEF Frame, Key, Kind, Moves, Kept, Begins, Rejects, Quits, EntersToRead,
     EntersToWrite, Expects, GoesToWait, Waits, Wakes, Relocks, Leaves, Consumes, ReleasesTwice,
     Walks, Erases, Stores, Notifies, StartsMigration, TakesSnapshot, HandsOver
<1>7. CASE Stores(u)
  <2>1. CASE Key(u) = Key(t)
    <3>1. CASE req[u].notify
      BY <1>1, <1>7, <2>1, <3>1 DEF Stores, Key
    <3>2. CASE ~req[u].notify
      BY <1>1, <1>7, <2>1, <3>2 DEF Stores
    <3> QED BY <3>1, <3>2
  <2>2. CASE Key(u) # Key(t)
    <3>1. db'[Key(t)] = db[Key(t)] /\ (Key(t) \in silent => Key(t) \in silent')
      BY <1>4, <1>7, <2>2 DEF Stores
    <3>2. \A w \in Threads : pc[w] = "notify" => pc'[w] = "notify"
      BY <1>7 DEF Stores, Frame
    <3> QED BY <1>1, <1>5, <1>6, <3>1, <3>2
  <2> QED BY <2>1, <2>2
<1>8. CASE Notifies(u)
  <2>1. Placed(u) /\ req[u].notify /\ pc[u] = "notify"
    BY <1>8 DEF Notifies, Moves, TypeInv, Placed
  <2>2. conf.backend # "set"
    BY <2>1 DEF NotifiesItsKeys, Placed, Sent
  <2>3. notifyKey(Key(u)) /\ Still
    BY <1>8, <2>2 DEF Notifies
  <2>4. Key(u) # Key(t)
    <3>1. SUFFICES ASSUME Key(u) = Key(t) PROVE Signalled(t)'
      OBVIOUS
    <3>2. PICK n \in 1 .. Len(expected) : expected[n].thread = t /\ expected[n].key = Key(t)
      BY <1>2, Found
    <3>3. n \in Positions(Key(t)) /\ Positions(Key(t)) \in SUBSET Nat
      BY <3>2 DEF Positions
    <3>4. n \in 1 .. Len(expected') /\ expected'[n].thread = t /\ expected'[n].status = "KeyPresent"
      <4>1. Signal(Positions(Key(t)), "KeyPresent")
        BY <2>3, <3>1 DEF notifyKey
      <4> QED BY <3>2, <3>3, <4>1, Signals
    <3>6. \A m \in 1 .. Len(expected') : expected'[m].thread = t => m = n
      BY <3>4 DEF WatchInv
    <3> QED BY <1>2, <3>4, <3>6, PendingEntryNext
  <2>5. \A w \in Threads : pc[w] = "notify" /\ w # u => pc'[w] = "notify"
    BY DEF Frame
  <2> QED BY <1>1, <1>5, <1>6, <2>3, <2>4, <2>5 DEF Still
<1>9. CASE HandsOver(u)
  BY <1>1, <1>4, <1>9 DEF HandsOver, Empty
<1>10. CASE ~Stores(u) /\ ~Notifies(u) /\ ~HandsOver(u)
  <2>1. db'[Key(t)] = Absent \/ db'[Key(t)] = db[Key(t)]
    BY <1>4, <1>10 DEF Kind, Still, Begins, Rejects, Quits, EntersToRead, EntersToWrite,
       Expects, GoesToWait, Waits, Wakes, Relocks, Leaves, Consumes, ReleasesTwice, Walks,
       Erases, StartsMigration, TakesSnapshot
  <2>2. silent' = silent
    BY <1>10 DEF Kind, Still, Begins, Rejects, Quits, EntersToRead, EntersToWrite,
       Expects, GoesToWait, Waits, Wakes, Relocks, Leaves, Consumes, ReleasesTwice, Walks,
       Erases, StartsMigration, TakesSnapshot
  <2>3. \A w \in Threads : pc[w] = "notify" => pc'[w] = "notify"
    <3>1. pc[u] # "notify"
      BY <1>10 DEF Kind, Moves, Begins, Rejects, Quits, EntersToRead, EntersToWrite,
       Expects, GoesToWait, Waits, Wakes, Relocks, Leaves, Consumes, ReleasesTwice, Walks,
       Erases, StartsMigration, TakesSnapshot
    <3> QED BY <3>1 DEF Frame
  <2> QED BY <1>1, <1>5, <1>6, <2>1, <2>2, <2>3
<1> QED BY <1>7, <1>8, <1>9, <1>10

LEMMA WakeupNext ==
  TypeInv /\ WatchInv /\ WatchInv' /\ NotifiesItsKeys(conf) /\ NoLostWakeup /\ [NextAny]_vars
    => NoLostWakeup'
<1> SUFFICES ASSUME TypeInv, WatchInv, WatchInv', NotifiesItsKeys(conf), NoLostWakeup,
                    [NextAny]_vars,
                    NEW t \in Threads, Asleep(t)', ~Signalled(t)', db'[Key(t)'] # Absent
             PROVE  \/ Key(t)' \in silent'
                    \/ \E w \in Threads : pc'[w] = "notify" /\ Key(w)' = Key(t)'
  BY DEF NoLostWakeup, Asleep
<1>1. CASE Finalize \/ UNCHANGED vars
  <2>1. UNCHANGED <<pc, req, idx, silent>> /\ (db' = db \/ db' = Empty)
    BY <1>1, FinalizeFrame
  <2>2. Asleep(t) /\ InWatcher(t) /\ InWatcher(t)' /\ \A w \in Threads : Key(w)' = Key(w)
    BY <2>1 DEF Asleep, Key, InWatcher
  <2>3. Key(t) \in Keys
    BY <2>2 DEF Asleep, TypeInv, Placed, Sleeping, More, Request, Key
  <2>4. ~Signalled(t)
    <3>1. PICK n \in 1 .. Len(expected') : expected'[n].thread = t /\ expected'[n].status = "Pending"
      BY <2>2, PendingEntryNext
    <3>2. CASE UNCHANGED expected
      BY <2>2, <3>1, <3>2, PendingEntry
    <3>3. CASE Signal(1 .. Len(expected), "Timeout")
      <4>1. 1 .. Len(expected) \in SUBSET Nat
        BY DEF WatchInv
      <4> QED BY <3>1, <3>3, <4>1, Signals
    <3> QED BY <1>1, <3>2, <3>3 DEF Finalize, destroy, Delete, DeleteEnd, WakeAll, vars, watcher
  <2>5. db[Key(t)] # Absent
    BY <2>1, <2>2, <2>3 DEF Empty
  <2> QED BY <2>1, <2>2, <2>4, <2>5 DEF NoLostWakeup, Asleep
<1>2. CASE \E u \in Threads : Frame(u) /\ Runnable(u) /\ Kind(u)
  BY <1>2, WakeupStep
<1> QED BY <1>1, <1>2, NextCases

\* A request never sleeps on a key that is there and was announced: between its
\* failed lookup and its sleep no notification is lost (YOKAN_MODE_WAIT and
\* YOKAN_MODE_NOTIFY), on one stream or several, with the lock or without it.
THEOREM WakeupsKept ==
  ASSUME \A c \in Setups : NotifiesItsKeys(c)
  PROVE  SpecAny => []NoLostWakeup
<1>1. TypeInv => NotifiesItsKeys(conf)
  BY DEF TypeInv
<1>2. Init => NoLostWakeup
  BY DEF Init, NoLostWakeup
<1>3. SpecAny => [](TypeInv /\ WatchInv)
  BY TypeInit, TypeNext, WatchInit, WatchNext, PTL DEF SpecAny
<1> QED BY <1>1, <1>2, <1>3, WakeupNext, PTL DEF SpecAny

-----------------------------------------------------------------------------
(* Finalization *)

\* A database that is finalized either runs on one stream without the lock and
\* never gives way inside, or has the lock and nobody asleep: ~MapDatabase frees
\* the lock that sleepers take again.
FinalizedApart(c) ==
  c.shutdown =>
    \/ /\ c.streams = "one" /\ ~c.use_lock
       /\ \A t \in Threads : \A r \in c.requests[t] : r.op \notin {"fetch", "iter", "migrate"}
    \/ /\ c.use_lock
       /\ \A t \in Threads : \A r \in c.requests[t] : r.op # "migrate" /\ ~r.wait /\ ~r.consume

\* Where threads can be once the database is destroyed: asleep or on their way
\* out, which no key that appears delays any more.
FreeInv ==
  /\ down \in {"up", "destroyed", "deleting", "deleted"}
  /\ down # "up" =>
       /\ conf.use_lock => \A t \in Threads : pc[t] = "idle"
       /\ ~conf.use_lock => OneStream
       /\ \A t \in Threads : pc[t] \in {"idle", "waiting", "relock", "unlock", "unlock2"}
  /\ down = "destroyed" => \A t \in Threads : pc[t] \in {"idle", "waiting"}
  /\ down \in {"deleting", "deleted"} =>
       /\ \A n \in 1 .. Len(expected) : expected[n].status = "Timeout"
       /\ \A t \in Threads : pc[t] = "relock" => status[t] = "Timeout"
  /\ down = "deleted" => expected = << >>

\* Nobody is in a database when it is destroyed, but for the sleepers.
LEMMA DestroyStep ==
  ASSUME TypeInv, LockInv, FinalizedApart(conf), destroy
  PROVE  /\ conf.use_lock => \A t \in Threads : pc[t] = "idle"
         /\ ~conf.use_lock => OneStream
         /\ \A t \in Threads : pc[t] \in {"idle", "waiting"}
<1>0. conf.shutdown /\ Quiet /\ (\A t \in Threads : pc[t] # "lock") /\ (conf.use_lock => CanWrite)
  BY DEF destroy
<1>1. CASE /\ conf.streams = "one" /\ ~conf.use_lock
           /\ \A t \in Threads : \A r \in conf.requests[t] : r.op \notin {"fetch", "iter", "migrate"}
  <2>1. ASSUME NEW t \in Threads, pc[t] # "idle" PROVE pc[t] = "waiting"
    <3>1. Placed(t) /\ AtYield(t)
      BY <1>0, <1>1, <2>1 DEF TypeInv, Quiet, OneStream
    <3>2. req[t].op \notin {"fetch", "iter", "migrate"}
      BY <1>1, <3>1 DEF Placed, Sent
    <3> QED BY <1>1, <2>1, <3>1, <3>2 DEF AtYield, Placed
  <2> QED BY <1>1, <2>1 DEF OneStream
<1>2. CASE /\ conf.use_lock
           /\ \A t \in Threads : \A r \in conf.requests[t] : r.op # "migrate" /\ ~r.wait /\ ~r.consume
  <2>1. Locked
    BY <1>2 DEF Locked
  <2>2. IsFiniteSet(ReadHolders)
    BY ThreadsAssumption, FS_Subset DEF ThreadsAssumption, ReadHolders
  <2>3. ReadHolders = {} /\ ~writing
    BY <1>0, <1>2, <2>1, <2>2, FS_EmptySet DEF LockInv, CanWrite
  <2>4. ASSUME NEW t \in Threads, pc[t] # "idle" PROVE FALSE
    <3>1. Placed(t) /\ pc[t] \in Labels /\ pc[t] # "lock"
      BY <1>0, <2>4 DEF TypeInv
    <3>2. req[t].op # "migrate" /\ ~req[t].wait /\ ~req[t].consume
      BY <1>2, <3>1 DEF Placed, Sent
    <3>3. ~HoldsRead(t) /\ ~HoldsWrite(t)
      BY <2>1, <2>3 DEF ReadHolders, LockInv
    <3> QED BY <2>4, <3>1, <3>2, <3>3 DEF Placed, HoldsRead, HoldsWrite, Sleeping, Labels
  <2> QED BY <1>2, <2>4
<1> QED BY <1>0, <1>1, <1>2 DEF FinalizedApart

LEMMA FreeFinalize ==
  ASSUME TypeInv, LockInv, WatchInv, FinalizedApart(conf), FreeInv, Finalize \/ UNCHANGED vars
  PROVE  FreeInv'
<1>0. UNCHANGED <<conf, pc, status>>
  BY FinalizeFrame
<1>1. CASE destroy
  <2>1. down' = "destroyed"
    BY <1>1 DEF destroy
  <2> QED BY <1>0, <1>1, <2>1, DestroyStep DEF FreeInv, OneStream
<1>2. CASE Delete
  <2>1. down = "destroyed" /\ down' = "deleting" /\ Signal(1 .. Len(expected), "Timeout")
    BY <1>2 DEF Delete, WakeAll
  <2>2. 1 .. Len(expected) \in SUBSET Nat
    BY DEF WatchInv
  <2>3. \A n \in 1 .. Len(expected') : expected'[n].status = "Timeout"
    BY <2>1, <2>2, Signals
  <2> QED BY <1>0, <2>1, <2>3 DEF FreeInv, OneStream
<1>3. CASE DeleteEnd
  BY <1>0, <1>3 DEF DeleteEnd, AllAwake, FreeInv, OneStream, watcher
<1>4. CASE UNCHANGED vars
  BY <1>4 DEF vars, FreeInv, OneStream, watcher
<1> QED BY <1>1, <1>2, <1>3, <1>4 DEF Finalize

LEMMA FreeStep ==
  ASSUME TypeInv, WatchInv, FreeInv, NEW t \in Threads, Frame(t), Runnable(t), Kind(t)
  PROVE  FreeInv'
<1>0. conf' = conf /\ down' = down
  BY DEF Frame
<1>1. CASE down = "up"
  BY <1>0, <1>1 DEF FreeInv
<1>2. ASSUME down # "up" PROVE FreeInv'
  <2>1. CASE Rejects(t)
    <3>1. pc'[t] = "idle" /\ expected' = expected
      BY <2>1 DEF Rejects, Moves, watcher
    <3> QED BY <1>0, <3>1 DEF FreeInv, Frame, OneStream
  <2>2. CASE ~Rejects(t)
    <3>1. pc[t] # "idle"
      BY <1>2, <2>2 DEF Kind, Moves, Begins, Quits, EntersToRead, EntersToWrite, Expects, GoesToWait,
         Waits, Wakes, Relocks, Leaves, Consumes, ReleasesTwice, Walks, Erases, Stores, Notifies,
         StartsMigration, TakesSnapshot, HandsOver
    <3>2. ~conf.use_lock /\ OneStream /\ down \in {"deleting", "deleted"}
      BY <1>2, <3>1 DEF FreeInv, Runnable
    <3>3. pc[t] \in {"waiting", "relock", "unlock", "unlock2"}
      BY <1>2, <3>1 DEF FreeInv
    <3>4. Wakes(t) \/ Relocks(t) \/ Leaves(t) \/ ReleasesTwice(t)
      BY <3>3 DEF Kind, Moves, Begins, Rejects, Quits, EntersToRead, EntersToWrite, Expects, GoesToWait,
         Waits, Consumes, Walks, Erases, Stores, Notifies, StartsMigration, TakesSnapshot, HandsOver
    <3>5. CASE Wakes(t)
      <4>1. InWatcher(t) /\ pc'[t] = "relock" /\ Wake(t) /\ status'[t] = expected[EntryOf(t)].status
        BY <3>5 DEF Wakes, Moves, InWatcher
      <4>2. EntryOf(t) \in 1 .. Len(expected) /\ status'[t] = "Timeout"
        BY <3>2, <4>1, Found DEF FreeInv
      <4>3. down # "deleted"
        BY <4>2 DEF FreeInv
      <4>4. expected \in Seq(Entry) /\ expected' = RemoveAt(expected, EntryOf(t))
        BY <4>1 DEF Wake, WatchInv
      <4>5. \A n \in 1 .. Len(expected') : expected'[n].status = "Timeout"
        <5>1. /\ Len(expected') = Len(expected) - 1 /\ Len(expected) \in Nat
              /\ \A n \in 1 .. Len(expected) - 1 :
                   expected'[n] = IF n < EntryOf(t) THEN expected[n] ELSE expected[n + 1]
          BY <4>2, <4>4, Removed
        <5> QED BY <3>2, <4>2, <5>1 DEF FreeInv
      <4> QED BY <1>0, <3>2, <4>1, <4>2, <4>3, <4>5 DEF FreeInv, Frame, OneStream
    <3>6. CASE Relocks(t) \/ Leaves(t) \/ ReleasesTwice(t)
      <4>1. expected' = expected
        BY <3>6 DEF Relocks, Leaves, ReleasesTwice, watcher
      <4>2. pc'[t] \in {"unlock", "unlock2", "idle"}
        BY <3>2, <3>6 DEF Relocks, Leaves, ReleasesTwice, Moves, FreeInv
      <4> QED BY <1>0, <3>2, <4>1, <4>2 DEF FreeInv, Frame, OneStream
    <3> QED BY <3>4, <3>5, <3>6
  <2> QED BY <2>1, <2>2
<1> QED BY <1>1, <1>2

LEMMA FreeNext ==
  TypeInv /\ LockInv /\ WatchInv /\ FinalizedApart(conf) /\ FreeInv /\ [NextAny]_vars => FreeInv'
BY NextCases, FreeFinalize, FreeStep

\* The lock and the map are freed only when nobody inside the database will
\* touch them again, and the watcher when nobody is left in it (~MapDatabase and
\* ~KeyWatcher).
THEOREM FreedUnused ==
  ASSUME \A c \in Setups : FinalizedApart(c)
  PROVE  SpecAny => []NoUseAfterFree
<1>1. TypeInv => FinalizedApart(conf)
  BY DEF TypeInv
<1>2. Init => FreeInv
  BY DEF Init, FreeInv
<1>3. WatchInv /\ FreeInv => NoUseAfterFree
  <2> SUFFICES ASSUME WatchInv, FreeInv PROVE NoUseAfterFree
    OBVIOUS
  <2>1. down \in {"deleting", "deleted"} => \A t \in Threads : ~TouchesMap(t) /\ ~TouchesLock(t)
    BY DEF FreeInv, TouchesMap, TouchesLock
  <2>2. down = "deleted" => \A t \in Threads : ~InWatcher(t)
    BY DEF FreeInv, WatchInv
  <2> QED BY <2>1, <2>2 DEF NoUseAfterFree
<1> QED BY <1>1, <1>2, <1>3, LockAlways, WatchInit, WatchNext, FreeNext, PTL DEF SpecAny

-----------------------------------------------------------------------------
(* Puts are atomic *)

\* Writers are alone: the threads of one stream do not give way in a put, the
\* others are behind a lock that works.
Serial(c) == c.streams = "one" \/ Guarded(c)

\* The value that a set keeps: none, which is one.
Sets == {"set", "unordered_set"}
Stored(c, v) ==
  \A t \in Threads : \A r \in c.requests[t] :
    r.op = "put" => /\ r.mode \notin {"append", "exist_append"}
                    /\ \A n \in 1 .. Len(r.keys) : r.vals[n] = v
SetsKeepOne(c) == c.backend \in Sets => \E v : Stored(c, v)

\* What the database may hold.
Given == Vals \cup {r.vals[n] : r \in Puts, n \in Nat}
Held  == [Keys -> {Absent} \cup Seq(Given)]
HeldInv == db \in Held /\ before \in Held

\* A put is one that was sent.
PutsSent == \A t \in Threads : pc[t] # "idle" /\ req[t].op = "put" => req[t] \in conf.requests[t]

\* A set has no other value.
OneValue ==
  conf.backend \in Sets =>
    \E v : Stored(conf, v) /\ \A k \in Keys : db[k] \in {Absent, <<v>>} /\ before[k] \in {Absent, <<v>>}

\* The thread that writes is alone, and what it has made of the database so far is
\* what the abstract put makes of it with as many pairs.
Alone  == \A t, u \in Threads : HoldsWrite(t) /\ HoldsWrite(u) => t = u
Stage(t) == IF pc[t] = "notify" THEN idx[t] ELSE idx[t] - 1
StageInv ==
  \A t \in Threads : HoldsWrite(t) =>
    /\ Stage(t) \in 0 .. Len(req[t].keys)
    /\ db = Abstract!Stages(req[t], before)[Stage(t)]

\* A set has nothing to do for YOKAN_MODE_EXIST_ONLY, and does not begin.
Undecided == \A t \in Threads : HoldsWrite(t) /\ conf.backend \in Sets /\ req[t].mode = "exist_only"
                                 => pc[t] = "body" /\ idx[t] = 1
Fresh == \A t \in Threads : pc[t] = "lock" => idx[t] = 1

PutInv == HeldInv /\ PutsSent /\ OneValue /\ Alone /\ StageInv /\ Undecided /\ Fresh

-----------------------------------------------------------------------------
(* The stages of a put *)

\* The requests of a setup are well formed.
LEMMA PutTypes ==
  ASSUME NEW c \in Setups, NEW t \in Threads, NEW r \in c.requests[t], r.op = "put"
  PROVE  /\ r \in Puts /\ r \in Request /\ Len(r.keys) \in Nat
         /\ \A n \in 1 .. Len(r.keys) : r.keys[n] \in Keys /\ r.vals[n] \in Given
<1>1. r \in Puts
  BY DEF Puts, Requests
<1>2. r \in Request
  BY SetupsAssumption DEF SetupsAssumption, Request
<1>3. r.keys \in Seq(Keys)
  BY <1>2 DEF Request
<1>4. Len(r.keys) \in Nat /\ \A n \in 1 .. Len(r.keys) : r.keys[n] \in Keys
  BY <1>3
<1>5. \A n \in 1 .. Len(r.keys) : r.vals[n] \in Given
  BY <1>1, <1>4 DEF Given
<1> QED BY <1>1, <1>2, <1>4, <1>5

\* A pair of a batch keeps the database what it may be.
LEMMA PutHeld ==
  ASSUME NEW b, NEW s \in Held, NEW n, b.keys[n] \in Keys, b.vals[n] \in Given
  PROVE  Abstract!Put(b, s, n) \in Held
<1>1. PICK k : k = b.keys[n]
  OBVIOUS
<1>2. PICK x : x = Abstract!Written(b.mode, s[k], b.vals[n])
  OBVIOUS
<1>3. s[k] = Absent \/ s[k] \in Seq(Given)
  BY <1>1 DEF Held
<1>4. x \in Seq(Given)
  <2>1. CASE b.mode \in {"append", "exist_append"} /\ s[k] # Absent
    <3>1. x = Append(s[k], b.vals[n])
      BY <1>2, <2>1 DEF Abstract!Written
    <3> QED BY <1>3, <2>1, <3>1
  <2>2. CASE ~(b.mode \in {"append", "exist_append"} /\ s[k] # Absent)
    <3>1. x = <<b.vals[n]>>
      BY <1>2, <2>2 DEF Abstract!Written
    <3> QED BY <3>1
  <2> QED BY <2>1, <2>2
<1>5. Abstract!Put(b, s, n) = s \/ Abstract!Put(b, s, n) = [s EXCEPT ![k] = x]
  BY <1>1, <1>2 DEF Abstract!Put
<1>6. [s EXCEPT ![k] = x] \in Held
  BY <1>1, <1>4 DEF Held
<1> QED BY <1>5, <1>6

\* The stages of a batch: nothing at first, then one pair after the other.
LEMMA StagesOf ==
  ASSUME NEW b, Len(b.keys) \in Nat, NEW s \in Held,
         \A n \in 1 .. Len(b.keys) : b.keys[n] \in Keys /\ b.vals[n] \in Given
  PROVE  /\ Abstract!Stages(b, s)[0] = s
         /\ \A n \in 1 .. Len(b.keys) :
              Abstract!Stages(b, s)[n] = Abstract!Put(b, Abstract!Stages(b, s)[n - 1], n)
<1> DEFINE L == Len(b.keys)
<1>1. PICK step : step = [p \in (1 .. L) \X Held |-> Abstract!Put(b, p[2], p[1])]
  OBVIOUS
<1>2. \A n \in 1 .. L, x \in Held : step[<<n, x>>] = Abstract!Put(b, x, n)
  BY <1>1
<1>3. step \in [(1 .. L) \X Held -> Held]
  <2>1. \A p \in (1 .. L) \X Held : Abstract!Put(b, p[2], p[1]) \in Held
    BY PutHeld
  <2> QED BY <1>1, <2>1
<1>4. PICK g \in [0 .. L -> Held] : g[0] = s /\ \A n \in 1 .. L : g[n] = step[<<n, g[n - 1]>>]
  <2>1. StagesIn(Held, s, L, step) # {}
    BY <1>3, StagesExist
  <2> QED BY <2>1 DEF StagesIn
<1>5. g = [n \in 0 .. L |-> IF n = 0 THEN s ELSE Abstract!Put(b, g[n - 1], n)]
  <2>1. PICK h : h = [n \in 0 .. L |-> IF n = 0 THEN s ELSE Abstract!Put(b, g[n - 1], n)]
    OBVIOUS
  <2>2. ASSUME NEW n \in 0 .. L PROVE g[n] = h[n]
    <3>1. CASE n = 0
      BY <1>4, <2>1, <3>1
    <3>2. CASE n # 0
      <4>1. n \in 1 .. L /\ n - 1 \in 0 .. L /\ g[n - 1] \in Held
        BY <3>2
      <4>2. g[n] = step[<<n, g[n - 1]>>]
        BY <1>4, <4>1
      <4> QED BY <1>2, <2>1, <3>2, <4>1, <4>2
    <3> QED BY <3>1, <3>2
  <2> QED BY <2>1, <2>2
<1>6. PICK f : f = Abstract!Stages(b, s)
  OBVIOUS
<1>7. f = [n \in 0 .. L |-> IF n = 0 THEN s ELSE Abstract!Put(b, f[n - 1], n)]
  BY <1>5, <1>6 DEF Abstract!Stages
<1>8. f[0] = s
  <2>1. 0 \in 0 .. L
    OBVIOUS
  <2> QED BY <1>7, <2>1
<1>9. ASSUME NEW n \in 1 .. L PROVE f[n] = Abstract!Put(b, f[n - 1], n)
  <2>1. n \in 0 .. L /\ n # 0
    OBVIOUS
  <2> QED BY <1>7, <2>1
<1> QED BY <1>6, <1>8, <1>9

\* A batch that may change nothing changes nothing.
LEMMA StagesIdle ==
  ASSUME NEW b, Len(b.keys) \in Nat, NEW s \in Held,
         \A n \in 1 .. Len(b.keys) : b.keys[n] \in Keys /\ b.vals[n] \in Given,
         \A n \in 1 .. Len(b.keys) : Abstract!Put(b, s, n) = s
  PROVE  Abstract!Stages(b, s)[Len(b.keys)] = s
<1> DEFINE L == Len(b.keys)
           T == {n \in Nat : n <= L => Abstract!Stages(b, s)[n] = s}
<1>1. 0 \in T
  BY StagesOf
<1>2. ASSUME NEW n \in Nat, n \in T PROVE n + 1 \in T
  <2> SUFFICES ASSUME n + 1 <= L PROVE Abstract!Stages(b, s)[n + 1] = s
    OBVIOUS
  <2>1. n + 1 \in 1 .. L /\ n + 1 - 1 = n /\ n <= L
    OBVIOUS
  <2>2. Abstract!Stages(b, s)[n] = s
    BY <1>2, <2>1
  <2>3. Abstract!Stages(b, s)[n + 1] = Abstract!Put(b, Abstract!Stages(b, s)[n + 1 - 1], n + 1)
    BY <2>1, StagesOf
  <2> QED BY <2>1, <2>2, <2>3
<1> HIDE DEF T
<1>3. L \in T
  BY <1>1, <1>2, InductiveSet
<1> QED BY <1>3 DEF T
-----------------------------------------------------------------------------
(* What a step means for a put *)

SetPut(t) == PutDecided(t) \/ EmplaceOnly(t) \/ EmplaceNotify(t) \/ NotifyNext(t) \/ PutEnd(t)

\* What a thread does that is in a put.
LEMMA PutActions ==
  ASSUME TypeInv, NEW t \in Threads, HoldsWrite(t), Received(t) \/ RunAny(t)
  PROVE  IF conf.backend \in Sets THEN SetPut(t) ELSE Put(t)
<1> USE DEF At, Sets, SetPut
<1>0. pc[t] \in {"body", "notify"} /\ req[t].op = "put"
  BY DEF HoldsWrite, TypeInv, Placed
<1>1. ~Received(t)
  BY <1>0 DEF Received, Rejected, Start
<1>2. ~Acquire(t) /\ ~Waiting(t) /\ ~Read(t) /\ ~Scan(t) /\ ~Erase(t) /\ ~Migrate(t)
  <2>1. ~Acquire(t)
    BY <1>0 DEF Acquire, Refused, AcquireRead, AcquireWrite
  <2>2. ~Waiting(t)
    BY <1>0 DEF Waiting, UnlockToWait, WaitKey, WaitReturn, Relock, ReturnTimedOut
  <2>3. ~Read(t)
    BY <1>0 DEF Read, ReadFound, ReadAbsent, ReadExpects, ReadEnd, Consume, SecondUnlock, Reading,
       Reads
  <2>4. ~Scan(t)
    BY <1>0 DEF Scan, ScanVisit, ScanEnd, Scanning, Scans
  <2>5. ~Erase(t)
    BY <1>0 DEF Erase, EraseFound, EraseAbsent, EraseExpects, EraseEnd, Erasing
  <2>6. ~Migrate(t)
    BY <1>0 DEF Migrate, startMigration, Snapshot, MigrateCancel, MigrateEnd
  <2> QED BY <2>1, <2>2, <2>3, <2>4, <2>5, <2>6
<1>3. ~Unsupported(t) /\ ~RefusedEarly(t) /\ ~SecondUnlock(t) /\ ~Snapshot(t) /\ ~MigrateCancel(t)
      /\ ~MigrateEnd(t) /\ ~startMigration(t)
  BY <1>0 DEF Unsupported, RefusedEarly, SecondUnlock, Snapshot, MigrateCancel, MigrateEnd,
     startMigration
<1>4. CASE conf.backend = "map" /\ Run(t)
  BY <1>2, <1>4 DEF Run
<1>5. CASE conf.backend = "unordered_map" /\ unordered_map_Run(t)
  BY <1>0, <1>2, <1>3, <1>5 DEF unordered_map_Run, unordered_map_count, unordered_map_exists,
     unordered_map_length, unordered_map_put, unordered_map_get, unordered_map_fetch, FetchKey,
     unordered_map_erase, UnorderedMapMigrationHandle, unordered_map_startMigration
<1>6. CASE conf.backend = "set" /\ set_Run(t)
  BY <1>0, <1>2, <1>3, <1>6 DEF set_Run, set_count, set_exists, set_length, set_put, set_get,
     set_fetch, FetchKey, set_erase, set_listKeys, set_listKeyValues, set_iter,
     SetMigrationHandle, set_startMigration
<1>7. CASE conf.backend = "unordered_set" /\ unordered_set_Run(t)
  BY <1>0, <1>2, <1>3, <1>7 DEF unordered_set_Run, unordered_set_count, unordered_set_exists,
     unordered_set_length, unordered_set_put, unordered_set_get, unordered_set_fetch, FetchKey,
     unordered_set_erase, UnorderedSetMigrationHandle, unordered_set_startMigration, Waiting
<1> QED BY <1>1, <1>4, <1>5, <1>6, <1>7 DEF RunAny

\* The history variable of a put is written when it takes the lock.
LEMMA BeforeKept ==
  ASSUME TypeInv, NEW t \in Threads, Received(t) \/ RunAny(t)
  PROVE  before' = before \/ (before' = db /\ db' = db /\ AcquireWrite(t))
<1>1. Step(t)
  BY AllSteps
<1>2. CASE Start(t) \/ Rejected(t) \/ Unsupported(t) \/ RefusedEarly(t) \/ PutDecided(t)
           \/ EmplaceOnly(t) \/ EmplaceNotify(t) \/ NotifyNext(t) \/ CallbackFails(t)
  BY <1>2 DEF Start, Rejected, Unsupported, RefusedEarly, PutDecided, EmplaceOnly, EmplaceNotify,
     Emplace, NotifyNext, CallbackFails, data
<1>3. CASE Acquire(t)
  BY <1>3 DEF Acquire, Refused, AcquireRead, AcquireWrite, data
<1>4. CASE Waiting(t)
  BY <1>4 DEF Waiting, UnlockToWait, WaitKey, WaitReturn, Relock, ReturnTimedOut, data
<1>5. CASE Read(t)
  BY <1>5 DEF Read, ReadFound, ReadAbsent, ReadExpects, Expect, ReadEnd, Consume, SecondUnlock, data
<1>6. CASE Scan(t) \/ Erase(t)
  BY <1>6 DEF Scan, ScanVisit, ScanEnd, CallbackFails, Erase, EraseFound, EraseAbsent,
     EraseExpects, Expect, EraseEnd, data
<1>7. CASE Put(t)
  BY <1>7 DEF Put, PutKey, Notify, PutRefusedAlone, PutSkipped, PutEnd, data
<1>8. CASE Migrate(t)
  BY <1>8 DEF Migrate, startMigration, Snapshot, MigrateCancel, MigrateEnd, data
<1> QED BY <1>1, <1>2, <1>3, <1>4, <1>5, <1>6, <1>7, <1>8 DEF Step
\* A step of a put is none for the database, or that of its next pair, or the end of
\* the put: then the database is what the abstract put makes of it.
Pauses(t) == HoldsWrite(t)' /\ req'[t] = req[t] /\ Stage(t)' = Stage(t) /\ db' = db
StoresNext(t) ==
  /\ HoldsWrite(t)' /\ req'[t] = req[t] /\ Stage(t)' = Stage(t) + 1 /\ Stage(t) < Len(req[t].keys)
  /\ db' = Abstract!Put(req[t], db, Stage(t) + 1)
Finishes(t) ==
  /\ ~HoldsWrite(t)' /\ db' = db
  /\ db = Abstract!Stages(req[t], before)[Len(req[t].keys)]

LEMMA PutFacts ==
  ASSUME TypeInv, PutInv, NEW t \in Threads, HoldsWrite(t)
  PROVE  /\ req[t] \in conf.requests[t] /\ req[t].op = "put" /\ req[t] \in Puts
         /\ Len(req[t].keys) \in Nat /\ idx[t] \in Nat \ {0}
         /\ \A n \in 1 .. Len(req[t].keys) : req[t].keys[n] \in Keys /\ req[t].vals[n] \in Given
<1>1. req[t].op = "put" /\ pc[t] # "idle" /\ idx[t] \in Nat \ {0}
  BY DEF HoldsWrite, TypeInv, Placed
<1>2. req[t] \in conf.requests[t] /\ conf \in Setups
  BY <1>1 DEF PutInv, PutsSent, TypeInv
<1> QED BY <1>1, <1>2, PutTypes

LEMMA MapPut ==
  ASSUME TypeInv, PutInv, NEW t \in Threads, HoldsWrite(t), Put(t)
  PROVE  Pauses(t) \/ StoresNext(t) \/ Finishes(t)
<1>0. /\ Len(req[t].keys) \in Nat /\ idx[t] \in Nat \ {0} /\ req[t].op = "put"
      /\ \A n \in 1 .. Len(req[t].keys) : req[t].keys[n] \in Keys /\ req[t].vals[n] \in Given
      /\ DOMAIN pc = Threads /\ DOMAIN idx = Threads /\ DOMAIN db = Keys
  BY PutFacts DEF TypeInv
<1>1. Stage(t) \in 0 .. Len(req[t].keys) /\ db = Abstract!Stages(req[t], before)[Stage(t)]
      /\ before \in Held
  BY DEF PutInv, StageInv, HeldInv
<1>2. More(t) <=> idx[t] <= Len(req[t].keys)
  BY DEF More
<1>3. Admitted(t) <=> Abstract!Accepts(req[t].mode, db[Key(t)])
  BY DEF Admitted, Abstract!Accepts
<1>4. NewValue(t) = Abstract!Written(req[t].mode, db[Key(t)], req[t].vals[idx[t]])
  BY DEF NewValue, Abstract!Written
<1>5. Abstract!Put(req[t], db, idx[t]) =
        IF Admitted(t) THEN [db EXCEPT ![Key(t)] = NewValue(t)] ELSE db
  BY <1>3, <1>4 DEF Abstract!Put, Key
<1>6. CASE PutKey(t)
  <2>1. pc[t] = "body" /\ More(t) /\ Admitted(t) /\ db' = [db EXCEPT ![Key(t)] = NewValue(t)]
        /\ req' = req
    BY <1>6 DEF PutKey, Putting, locals, NextKey
  <2>2. Stage(t) = idx[t] - 1
    BY <2>1 DEF Stage
  <2>3. HoldsWrite(t)' /\ Stage(t)' = idx[t]
    <3>1. CASE req[t].notify
      BY <1>0, <1>6, <3>1 DEF PutKey, Goto, locals, HoldsWrite, Stage
    <3>2. CASE ~req[t].notify
      BY <1>0, <1>6, <2>1, <3>2 DEF PutKey, NextKey, HoldsWrite, Stage
    <3> QED BY <3>1, <3>2
  <2> QED BY <1>0, <1>2, <1>5, <2>1, <2>2, <2>3 DEF StoresNext
<1>7. CASE Notify(t)
  <2>1. pc[t] = "notify" /\ pc'[t] = "body" /\ req' = req /\ idx'[t] = idx[t] + 1 /\ db' = db
    BY <1>0, <1>7 DEF Notify, At, Goto, NextKey, data
  <2> QED BY <1>0, <2>1 DEF Pauses, Stage, HoldsWrite
<1>8. CASE PutRefusedAlone(t)
  <2>1. pc[t] = "body" /\ More(t) /\ ~Admitted(t) /\ Len(req[t].keys) = 1 /\ db' = db
        /\ pc'[t] = Back(t)
    BY <1>0, <1>8 DEF PutRefusedAlone, Putting, Return, Goto, data
  <2>2. ~HoldsWrite(t)'
    BY <2>1 DEF Back, HoldsWrite
  <2>3. idx[t] = 1 /\ Stage(t) = 0
    BY <1>0, <1>2, <2>1 DEF Stage
  <2>4. Abstract!Stages(req[t], before)[1] = Abstract!Put(req[t], Abstract!Stages(req[t], before)[0], 1)
    <3>1. 1 \in 1 .. Len(req[t].keys) /\ 1 - 1 = 0
      BY <2>1
    <3>2. \A n \in 1 .. Len(req[t].keys) :
            Abstract!Stages(req[t], before)[n] =
              Abstract!Put(req[t], Abstract!Stages(req[t], before)[n - 1], n)
      BY <1>0, <1>1, StagesOf
    <3> QED BY <3>1, <3>2
  <2>5. Abstract!Stages(req[t], before)[1] = db
    BY <1>1, <1>5, <2>1, <2>3, <2>4
  <2> QED BY <2>1, <2>2, <2>5 DEF Finishes
<1>9. CASE PutSkipped(t)
  <2>1. pc[t] = "body" /\ pc' = pc /\ More(t) /\ ~Admitted(t) /\ db' = db /\ req' = req
        /\ idx'[t] = idx[t] + 1
    BY <1>0, <1>9 DEF PutSkipped, Putting, NextKey, data
  <2>2. HoldsWrite(t)' /\ Stage(t) = idx[t] - 1 /\ Stage(t)' = idx[t]
    BY <1>0, <2>1 DEF HoldsWrite, Stage
  <2> QED BY <1>0, <1>2, <1>5, <2>1, <2>2 DEF StoresNext
<1>10. CASE PutEnd(t)
  <2>1. pc[t] = "body" /\ ~More(t) /\ db' = db /\ pc'[t] = Back(t)
    BY <1>0, <1>10 DEF PutEnd, Putting, Return, Goto, data
  <2>2. ~HoldsWrite(t)'
    BY <2>1 DEF Back, HoldsWrite
  <2>3. Stage(t) = Len(req[t].keys)
    BY <1>0, <1>1, <1>2, <2>1 DEF Stage
  <2> QED BY <1>1, <2>1, <2>2, <2>3 DEF Finishes
<1> QED BY <1>6, <1>7, <1>8, <1>9, <1>10 DEF Put

\* The same for a set, where a key that is there is left as it is.
LEMMA SetPutStep ==
  ASSUME TypeInv, PutInv, NEW t \in Threads, HoldsWrite(t), SetPut(t), conf.backend \in Sets
  PROVE  /\ Pauses(t) \/ StoresNext(t) \/ Finishes(t)
         /\ req[t].mode = "exist_only" => Finishes(t)
<1>0. /\ Len(req[t].keys) \in Nat /\ idx[t] \in Nat \ {0} /\ req[t].op = "put"
      /\ \A n \in 1 .. Len(req[t].keys) : req[t].keys[n] \in Keys /\ req[t].vals[n] \in Given
      /\ DOMAIN pc = Threads /\ DOMAIN idx = Threads /\ DOMAIN db = Keys
  BY PutFacts DEF TypeInv
<1>1. Stage(t) \in 0 .. Len(req[t].keys) /\ db = Abstract!Stages(req[t], before)[Stage(t)]
      /\ before \in Held /\ db \in Held
  BY DEF PutInv, StageInv, HeldInv
<1>2. More(t) <=> idx[t] <= Len(req[t].keys)
  BY DEF More
<1>3. PICK v : /\ req[t].mode \notin {"append", "exist_append"}
               /\ \A n \in 1 .. Len(req[t].keys) : req[t].vals[n] = v
               /\ \A k \in Keys : db[k] \in {Absent, <<v>>}
  <2>1. PICK v : Stored(conf, v) /\ \A k \in Keys : db[k] \in {Absent, <<v>>}
    BY DEF PutInv, OneValue
  <2> QED BY <2>1, PutFacts DEF Stored
<1>4. ASSUME NEW n \in 1 .. Len(req[t].keys)
      PROVE  Abstract!Put(req[t], db, n) =
               IF Abstract!Accepts(req[t].mode, db[req[t].keys[n]])
                 THEN [db EXCEPT ![req[t].keys[n]] = <<v>>] ELSE db
  <2>1. req[t].vals[n] = v
    BY <1>3
  <2> QED BY <1>3, <2>1 DEF Abstract!Put, Abstract!Written
<1>5. ASSUME NEW k \in Keys, db[k] = <<v>> PROVE [db EXCEPT ![k] = <<v>>] = db
  BY <1>1, <1>5 DEF Held
<1>6. ASSUME NEW n \in 1 .. Len(req[t].keys), req[t].mode = "exist_only"
      PROVE  Abstract!Put(req[t], db, n) = db
  <2>1. req[t].keys[n] \in Keys
    BY <1>0
  <2>2. CASE db[req[t].keys[n]] = Absent
    <3>1. ~Abstract!Accepts(req[t].mode, db[req[t].keys[n]])
      BY <1>6, <2>2 DEF Abstract!Accepts
    <3> QED BY <1>4, <3>1
  <2>3. CASE db[req[t].keys[n]] = <<v>>
    BY <1>4, <1>5, <2>1, <2>3
  <2> QED BY <1>3, <2>1, <2>2, <2>3
<1>u. req[t].mode = "exist_only" => pc[t] = "body" /\ idx[t] = 1
  BY DEF PutInv, Undecided
<1>7. CASE PutDecided(t)
  <2>1. pc[t] = "body" /\ idx[t] = 1 /\ Decided(t) /\ db' = db /\ pc'[t] = Back(t)
    BY <1>0, <1>7 DEF PutDecided, Putting, Return, Goto, data
  <2>2. ~HoldsWrite(t)'
    BY <2>1 DEF Back, HoldsWrite
  <2>3. Stage(t) = 0
    BY <2>1 DEF Stage
  <2>4. db = before
    BY <1>0, <1>1, <2>3, StagesOf
  <2>5. \A n \in 1 .. Len(req[t].keys) : Abstract!Put(req[t], db, n) = db
    <3>1. CASE req[t].mode = "exist_only"
      BY <1>6, <3>1
    <3>2. CASE req[t].mode # "exist_only"
      <4>1. Len(req[t].keys) = 1 /\ req[t].mode = "new_only" /\ db[req[t].keys[1]] # Absent
        BY <2>1, <3>2 DEF Decided, Refusal
      <4>2. ~Abstract!Accepts(req[t].mode, db[req[t].keys[1]])
        BY <4>1 DEF Abstract!Accepts
      <4>3. 1 .. Len(req[t].keys) = {1}
        BY <4>1
      <4> QED BY <1>4, <4>2, <4>3
    <3> QED BY <3>1, <3>2
  <2>6. Abstract!Stages(req[t], before)[Len(req[t].keys)] = before
    BY <1>0, <1>1, <2>4, <2>5, StagesIdle
  <2> QED BY <2>1, <2>2, <2>4, <2>6 DEF Finishes
<1>8. CASE Emplace(t) /\ (EmplaceOnly(t) \/ EmplaceNotify(t))
  <2>1. /\ pc[t] = "body" /\ More(t) /\ ~(idx[t] = 1 /\ Decided(t)) /\ req' = req
        /\ db' = [db EXCEPT ![Key(t)] = IF @ = Absent THEN <<req[t].vals[idx[t]]>> ELSE @]
    BY <1>8 DEF Emplace, Putting, EmplaceOnly, EmplaceNotify, NextKey, locals
  <2>2. Stage(t) = idx[t] - 1
    BY <2>1 DEF Stage
  <2>3. HoldsWrite(t)' /\ Stage(t)' = idx[t]
    <3>1. CASE EmplaceNotify(t)
      BY <1>0, <3>1 DEF EmplaceNotify, Goto, locals, HoldsWrite, Stage
    <3>2. CASE EmplaceOnly(t)
      BY <1>0, <2>1, <3>2 DEF EmplaceOnly, NextKey, HoldsWrite, Stage
    <3> QED BY <1>8, <3>1, <3>2
  <2>4. idx[t] \in 1 .. Len(req[t].keys) /\ Key(t) \in Keys /\ req[t].vals[idx[t]] = v
    BY <1>0, <1>2, <1>3, <2>1 DEF Key
  <2>5. req[t].mode # "exist_only"
    BY <1>u, <2>1 DEF Decided
  <2>6. db' = Abstract!Put(req[t], db, idx[t])
    <3>1. CASE db[Key(t)] = Absent
      <4>1. db' = [db EXCEPT ![Key(t)] = <<v>>]
        BY <2>1, <2>4, <3>1
      <4>2. Abstract!Accepts(req[t].mode, db[Key(t)])
        BY <1>3, <2>5, <3>1 DEF Abstract!Accepts
      <4> QED BY <1>4, <2>4, <4>1, <4>2 DEF Key
    <3>2. CASE db[Key(t)] # Absent
      <4>1. db' = db
        <5>1. db' = [db EXCEPT ![Key(t)] = db[Key(t)]]
          BY <1>0, <2>1, <2>4, <3>2
        <5> QED BY <1>1, <5>1 DEF Held
      <4>2. db[Key(t)] = <<v>>
        BY <1>3, <2>4, <3>2
      <4>3. [db EXCEPT ![Key(t)] = <<v>>] = db
        BY <1>5, <2>4, <4>2
      <4> QED BY <1>4, <2>4, <4>1, <4>3 DEF Key
    <3> QED BY <3>1, <3>2
  <2>7. Stage(t) + 1 = idx[t] /\ Stage(t) < Len(req[t].keys)
    BY <1>0, <2>2, <2>4
  <2>8. StoresNext(t)
    BY <2>1, <2>3, <2>6, <2>7 DEF StoresNext
  <2> QED BY <2>5, <2>8
<1>9. CASE NotifyNext(t)
  <2>1. pc[t] = "notify" /\ pc'[t] = "body" /\ req' = req /\ idx'[t] = idx[t] + 1 /\ db' = db
    BY <1>0, <1>9 DEF NotifyNext, At, Goto, NextKey, data
  <2> QED BY <1>0, <1>u, <2>1 DEF Pauses, Stage, HoldsWrite
<1>10. CASE PutEnd(t)
  <2>1. pc[t] = "body" /\ ~More(t) /\ db' = db /\ pc'[t] = Back(t)
    BY <1>0, <1>10 DEF PutEnd, Putting, Return, Goto, data
  <2>2. ~HoldsWrite(t)'
    BY <2>1 DEF Back, HoldsWrite
  <2>3. Stage(t) = Len(req[t].keys)
    BY <1>0, <1>1, <1>2, <2>1 DEF Stage
  <2> QED BY <1>1, <2>1, <2>2, <2>3 DEF Finishes
<1> QED BY <1>7, <1>8, <1>9, <1>10 DEF SetPut, EmplaceOnly, EmplaceNotify
LEMMA PutStep ==
  ASSUME TypeInv, PutInv, NEW t \in Threads, HoldsWrite(t), Received(t) \/ RunAny(t)
  PROVE  /\ Pauses(t) \/ StoresNext(t) \/ Finishes(t)
         /\ conf.backend \in Sets /\ req[t].mode = "exist_only" => Finishes(t)
         /\ before' = before
<1>1. before' = before
  BY BeforeKept DEF AcquireWrite, At, HoldsWrite
<1>2. CASE conf.backend \in Sets
  BY <1>1, <1>2, PutActions, SetPutStep
<1>3. CASE conf.backend \notin Sets
  BY <1>1, <1>3, PutActions, MapPut
<1> QED BY <1>2, <1>3

\* A thread begins to write when it takes the lock.
LEMMA WriterEnters ==
  ASSUME TypeInv, NEW t \in Threads, Kind(t), ~HoldsWrite(t), HoldsWrite(t)' PROVE EntersToWrite(t)
<1> USE DEF HoldsWrite, Moves, Kept
<1>1. CASE Relocks(t)
  BY <1>1 DEF Relocks, TypeInv, Placed, Sleeping, Reads
<1>2. CASE EntersToRead(t)
  BY <1>2 DEF EntersToRead
<1>3. CASE Walks(t) \/ Erases(t) \/ Stores(t) \/ Notifies(t)
  BY <1>3 DEF Walks, Erases, Stores, Notifies, TypeInv, Placed
<1> QED BY <1>1, <1>2, <1>3 DEF Kind, Begins, Rejects, Quits, Expects, GoesToWait, Waits, Wakes,
           Leaves, Consumes, ReleasesTwice, StartsMigration, TakesSnapshot, HandsOver

LEMMA EntersActions ==
  ASSUME TypeInv, NEW t \in Threads, EntersToWrite(t), Received(t) \/ RunAny(t)
  PROVE  before' = db /\ db' = db /\ Stage(t)' = idx[t] - 1 /\ req'[t] = req[t] /\ pc'[t] = "body"
         /\ idx'[t] = idx[t]
<1>1. pc[t] = "lock" /\ pc'[t] = "body" /\ req[t].op = "put" /\ db' = db /\ idx'[t] = idx[t]
      /\ req'[t] = req[t]
  BY DEF EntersToWrite, Moves, Kept, Still
<1>2. AcquireWrite(t)
  <2> USE DEF At, Goto
  <2>1. Step(t)
    BY AllSteps
  <2>2. pc \in [Threads -> Labels]
    BY DEF TypeInv
  <2>3. ~Start(t) /\ ~Rejected(t)
    BY <1>1 DEF Start, Rejected
  <2>4. ~Waiting(t)
    BY <1>1 DEF Waiting, UnlockToWait, WaitKey, WaitReturn, Relock, ReturnTimedOut
  <2>5. ~Read(t)
    BY <1>1 DEF Read, ReadFound, ReadAbsent, ReadExpects, ReadEnd, Consume, SecondUnlock, Reading
  <2>6. ~Scan(t) /\ ~Erase(t)
    BY <1>1 DEF Scan, ScanVisit, ScanEnd, Scanning, Erase, EraseFound, EraseAbsent, EraseExpects,
       EraseEnd, Erasing
  <2>7. ~Put(t)
    BY <1>1 DEF Put, PutKey, Notify, PutRefusedAlone, PutSkipped, PutEnd, Putting
  <2>8. ~Migrate(t)
    BY <1>1 DEF Migrate, startMigration, Snapshot, MigrateCancel, MigrateEnd
  <2>9. ~PutDecided(t) /\ ~EmplaceOnly(t) /\ ~EmplaceNotify(t) /\ ~NotifyNext(t)
    BY <1>1 DEF PutDecided, EmplaceOnly, EmplaceNotify, Emplace, NotifyNext, Putting
  <2>10. ~Unsupported(t) /\ ~RefusedEarly(t)
    BY <1>1, <2>2 DEF Unsupported, RefusedEarly
  <2>11. ~Refused(t) /\ ~AcquireRead(t)
    BY <1>1, <2>2 DEF Refused, AcquireRead, Back, Reads, Scans
  <2> QED BY <1>1, <2>1, <2>3, <2>4, <2>5, <2>6, <2>7, <2>8, <2>9, <2>10, <2>11 DEF Step, Acquire
<1> QED BY <1>1, <1>2 DEF AcquireWrite, Stage

\* Where somebody else writes, a thread of another stream does nothing to the database,
\* and one of the same stream nothing at all.
LEMMA OtherWrites ==
  ASSUME TypeInv, LockInv, LockInv', Serial(conf), NEW t \in Threads, Frame(t), Runnable(t), Kind(t),
         Received(t) \/ RunAny(t), NEW u \in Threads, u # t, HoldsWrite(u)
  PROVE  /\ ~HoldsWrite(t) /\ ~HoldsWrite(t)' /\ db' = db /\ before' = before
         /\ HoldsWrite(u)' /\ req'[u] = req[u] /\ idx'[u] = idx[u] /\ pc'[u] = pc[u]
         /\ Stage(u)' = Stage(u)
<1>1. req'[u] = req[u] /\ idx'[u] = idx[u] /\ pc'[u] = pc[u]
  BY DEF Frame
<1>2. HoldsWrite(u)' /\ Stage(u)' = Stage(u)
  BY <1>1 DEF HoldsWrite, Stage
<1>3. ~OneStream
  <2>1. ~AtYield(u)
    BY DEF HoldsWrite, AtYield, TypeInv, Placed
  <2> QED BY <2>1 DEF Runnable
<1>4. Locked /\ Locked' /\ conf.use_lock
  BY <1>3 DEF Serial, OneStream, Guarded, Locked, Frame
<1>5. ~HoldsWrite(t) /\ ~HoldsRead(t) /\ writing /\ ~HoldsWrite(t)'
  BY <1>2, <1>4 DEF LockInv, ReadHolders
<1>6. db' = db
  <2>1. SUFFICES ASSUME db' # db PROVE FALSE
    OBVIOUS
  <2> QED BY <1>5, <2>1, Changes DEF HoldsRead
<1>7. before' = before
  BY <1>4, <1>5, BeforeKept DEF AcquireWrite, WriteLock, Wrlock, CanWrite
<1> QED BY <1>1, <1>2, <1>5, <1>6, <1>7

\* Finalization begins when nobody writes, and leaves the rest alone.
LEMMA FinalizePuts ==
  ASSUME TypeInv, LockInv, Serial(conf), Finalize \/ UNCHANGED vars
  PROVE  /\ UNCHANGED <<conf, pc, req, idx, before>>
         /\ db' = db \/ (db' = Empty /\ \A t \in Threads : ~HoldsWrite(t))
<1>1. UNCHANGED <<conf, pc, req, idx, before>>
  BY FinalizeFrame DEF Finalize, destroy, Delete, DeleteEnd, vars, data
<1>2. CASE destroy
  <2>1. ASSUME NEW t \in Threads PROVE ~HoldsWrite(t)
    <3>1. CASE OneStream
      BY <1>2, <3>1 DEF destroy, Quiet, HoldsWrite, AtYield, TypeInv, Placed
    <3>2. CASE ~OneStream
      BY <1>2, <3>2 DEF destroy, Serial, OneStream, Guarded, Locked, LockInv, CanWrite
    <3> QED BY <3>1, <3>2
  <2> QED BY <1>1, <1>2, <2>1 DEF destroy
<1>3. CASE ~destroy
  BY <1>1, <1>3 DEF Finalize, Delete, DeleteEnd, vars, data
<1> QED BY <1>2, <1>3

\* What becomes of the database in a step of a thread.
LEMMA DatabaseStep ==
  ASSUME TypeInv, PutInv, NEW t \in Threads, Frame(t), Kind(t), Received(t) \/ RunAny(t)
  PROVE  \/ db' = db
         \/ HoldsWrite(t) /\ StoresNext(t)
         \/ ~HoldsWrite(t) /\ Erases(t) /\ Key(t) \in Keys
         \/ ~HoldsWrite(t) /\ HandsOver(t)
<1>1. CASE HoldsWrite(t)
  BY <1>1, PutStep DEF Pauses, Finishes
<1>2. CASE ~HoldsWrite(t)
  <2>1. ~Stores(t)
    BY <1>2 DEF Stores, HoldsWrite
  <2>2. Erases(t) => Key(t) \in Keys
    BY DEF Erases, Moves, TypeInv, Placed, Request, Key, More
  <2> QED BY <1>2, <2>1, <2>2 DEF Kind, Still, Begins, Rejects, Quits, EntersToRead,
             EntersToWrite, Expects, GoesToWait, Waits, Wakes, Relocks, Leaves, Consumes,
             ReleasesTwice, Walks, Notifies, StartsMigration, TakesSnapshot
<1> QED BY <1>1, <1>2
-----------------------------------------------------------------------------
(* The invariant *)

LEMMA PutInit ==
  ASSUME \A c \in Setups : SetsKeepOne(c) PROVE Init => PutInv
<1> SUFFICES ASSUME Init PROVE PutInv
  OBVIOUS
<1>1. \A t \in Threads : pc[t] = "idle" /\ ~HoldsWrite(t)
  BY DEF Init, HoldsWrite
<1>2. Empty \in Held /\ \A k \in Keys : Empty[k] = Absent
  BY DEF Empty, Held
<1>3. HeldInv /\ PutsSent /\ Alone /\ StageInv /\ Undecided /\ Fresh
  BY <1>1, <1>2 DEF Init, HeldInv, PutsSent, Alone, StageInv, Undecided, Fresh
<1>4. OneValue
  BY <1>2 DEF OneValue, Init, SetsKeepOne
<1> QED BY <1>3, <1>4 DEF PutInv

LEMMA PutFinalize ==
  ASSUME TypeInv, LockInv, Serial(conf), PutInv, Finalize \/ UNCHANGED vars PROVE PutInv'
<1>0. /\ UNCHANGED <<conf, pc, req, idx, before>>
      /\ db' = db \/ (db' = Empty /\ \A t \in Threads : ~HoldsWrite(t))
  BY FinalizePuts
<1>1. \A t \in Threads : (HoldsWrite(t)' <=> HoldsWrite(t)) /\ Stage(t)' = Stage(t)
  BY <1>0 DEF HoldsWrite, Stage
<1>2. Empty \in Held /\ \A k \in Keys : Empty[k] = Absent
  BY DEF Empty, Held
<1>3. HeldInv'
  BY <1>0, <1>2 DEF PutInv, HeldInv
<1>4. PutsSent' /\ Fresh'
  BY <1>0 DEF PutInv, PutsSent, Fresh
<1>5. Alone' /\ Undecided'
  BY <1>0, <1>1 DEF PutInv, Alone, Undecided
<1>6. OneValue'
  <2> SUFFICES ASSUME conf.backend \in Sets
               PROVE  \E v : Stored(conf, v) /\ \A k \in Keys : db'[k] \in {Absent, <<v>>}
                                                              /\ before[k] \in {Absent, <<v>>}
    BY <1>0 DEF OneValue, Stored
  <2> QED BY <1>0, <1>2 DEF PutInv, OneValue
<1>7. StageInv'
  <2> SUFFICES ASSUME NEW t \in Threads, HoldsWrite(t)'
               PROVE  /\ Stage(t)' \in 0 .. Len(req'[t].keys)
                      /\ db' = Abstract!Stages(req'[t], before')[Stage(t)']
    BY DEF StageInv
  <2> QED BY <1>0, <1>1 DEF PutInv, StageInv
<1> QED BY <1>3, <1>4, <1>5, <1>6, <1>7 DEF PutInv

\* The values of a set after one more pair.
LEMMA SetValues ==
  ASSUME TypeInv, PutInv, NEW t \in Threads, HoldsWrite(t), conf.backend \in Sets,
         Stage(t) < Len(req[t].keys), NEW v, Stored(conf, v), \A k \in Keys : db[k] \in {Absent, <<v>>}
  PROVE  \A k \in Keys : Abstract!Put(req[t], db, Stage(t) + 1)[k] \in {Absent, <<v>>}
<1>1. PICK n : n = Stage(t) + 1
  OBVIOUS
<1>2. Len(req[t].keys) \in Nat /\ n \in 1 .. Len(req[t].keys)
  BY <1>1, PutFacts DEF PutInv, StageInv
<1>3. req[t].keys[n] \in Keys /\ req[t].vals[n] = v /\ req[t].mode \notin {"append", "exist_append"}
  BY <1>2, PutFacts DEF Stored
<1>4. Abstract!Written(req[t].mode, db[req[t].keys[n]], req[t].vals[n]) = <<v>>
  BY <1>3 DEF Abstract!Written
<1>5. Abstract!Put(req[t], db, n) \in {db, [db EXCEPT ![req[t].keys[n]] = <<v>>]}
  BY <1>4 DEF Abstract!Put
<1>6. DOMAIN db = Keys
  BY DEF TypeInv
<1> QED BY <1>1, <1>3, <1>5, <1>6

LEMMA PutInvStep ==
  ASSUME TypeInv, LockInv, LockInv', Serial(conf), PutInv, NEW t \in Threads, Frame(t), Runnable(t),
         Kind(t), Received(t) \/ RunAny(t)
  PROVE  PutInv'
<1>0. conf' = conf
  BY DEF Frame
<1>1. before' = before \/ (before' = db /\ db' = db)
  BY BeforeKept
<1>2. HeldInv'
  <2>1. CASE HoldsWrite(t) /\ StoresNext(t)
    <3>1. Stage(t) \in 0 .. Len(req[t].keys) /\ Stage(t) < Len(req[t].keys)
      BY <2>1 DEF PutInv, StageInv, StoresNext
    <3>2. Stage(t) + 1 \in 1 .. Len(req[t].keys)
      BY <2>1, <3>1, PutFacts
    <3>3. db' \in Held
      BY <2>1, <3>2, PutFacts, PutHeld DEF StoresNext, PutInv, HeldInv
    <3> QED BY <1>1, <3>3 DEF PutInv, HeldInv
  <2>2. CASE Erases(t) /\ Key(t) \in Keys
    <3>1. db' \in Held
      <4>1. db' = [db EXCEPT ![Key(t)] = Absent] /\ db \in Held
        BY <2>2 DEF Erases, PutInv, HeldInv
      <4> QED BY <4>1 DEF Held
    <3> QED BY <1>1, <3>1 DEF PutInv, HeldInv
  <2>3. CASE HandsOver(t)
    <3>1. db' \in Held
      BY <2>3 DEF HandsOver, Empty, Held
    <3> QED BY <1>1, <3>1 DEF PutInv, HeldInv
  <2> QED BY <1>1, <2>1, <2>2, <2>3, DatabaseStep DEF PutInv, HeldInv
<1>3. OneValue'
  <2> SUFFICES ASSUME conf.backend \in Sets
               PROVE  \E v : Stored(conf, v) /\ \A k \in Keys : db'[k] \in {Absent, <<v>>}
                                                              /\ before'[k] \in {Absent, <<v>>}
    BY <1>0 DEF OneValue, Stored
  <2>1. PICK v : Stored(conf, v) /\ \A k \in Keys : db[k] \in {Absent, <<v>>}
                                                  /\ before[k] \in {Absent, <<v>>}
    BY DEF PutInv, OneValue
  <2>2. \A k \in Keys : before'[k] \in {Absent, <<v>>}
    BY <1>1, <2>1
  <2>3. \A k \in Keys : db'[k] \in {Absent, <<v>>}
    <3>1. CASE HoldsWrite(t) /\ StoresNext(t)
      BY <2>1, <3>1, SetValues DEF StoresNext
    <3>2. CASE Erases(t)
      BY <2>1, <3>2 DEF Erases
    <3>3. CASE HandsOver(t)
      BY <3>3 DEF HandsOver, Empty
    <3> QED BY <2>1, <3>1, <3>2, <3>3, DatabaseStep
  <2> QED BY <2>1, <2>2, <2>3
<1>4. PutsSent'
  <2> SUFFICES ASSUME NEW u \in Threads, pc'[u] # "idle", req'[u].op = "put"
               PROVE  req'[u] \in conf.requests[u]
    BY <1>0 DEF PutsSent
  <2>1. CASE u # t
    BY <2>1 DEF Frame, PutInv, PutsSent
  <2>2. CASE u = t
    <3>1. CASE Begins(t)
      BY <2>2, <3>1 DEF Begins
    <3>2. CASE Consumes(t)
      BY <2>2, <3>2 DEF Consumes, TypeInv, Placed, Request, Moves
    <3>3. CASE pc[t] # "idle" /\ req'[t] = req[t]
      BY <2>2, <3>3 DEF PutInv, PutsSent
    <3> QED BY <2>2, <3>1, <3>2, <3>3 DEF Kind, Moves, Kept, Rejects, Quits, EntersToRead,
               EntersToWrite, Expects, GoesToWait, Waits, Wakes, Relocks, Leaves, ReleasesTwice,
               Walks, Erases, Stores, Notifies, StartsMigration, TakesSnapshot, HandsOver
  <2> QED BY <2>1, <2>2
<1>5. Fresh'
  <2> SUFFICES ASSUME NEW u \in Threads, pc'[u] = "lock" PROVE idx'[u] = 1
    BY DEF Fresh
  <2>1. CASE u # t
    BY <2>1 DEF Frame, PutInv, Fresh
  <2>2. CASE u = t
    BY <2>2 DEF Kind, Moves, Kept, Begins, Rejects, Quits, EntersToRead,
               EntersToWrite, Expects, GoesToWait, Waits, Wakes, Relocks, Leaves, Consumes,
               ReleasesTwice, Walks, Erases, Stores, Notifies, StartsMigration, TakesSnapshot,
               HandsOver
  <2> QED BY <2>1, <2>2
<1>6. \A u \in Threads : u # t => (HoldsWrite(u)' <=> HoldsWrite(u))
  BY DEF Frame, HoldsWrite
<1>7. CASE \E u \in Threads : u # t /\ HoldsWrite(u)
  <2>1. PICK u \in Threads : u # t /\ HoldsWrite(u)
    BY <1>7
  <2>2. /\ ~HoldsWrite(t)' /\ db' = db /\ before' = before
        /\ req'[u] = req[u] /\ idx'[u] = idx[u] /\ pc'[u] = pc[u] /\ Stage(u)' = Stage(u)
    BY <2>1, OtherWrites
  <2>3. \A w \in Threads : HoldsWrite(w)' => w = u
    BY <1>6, <2>1, <2>2 DEF PutInv, Alone
  <2>4. Alone'
    BY <2>3 DEF Alone
  <2>5. StageInv'
    BY <2>1, <2>2, <2>3 DEF PutInv, StageInv
  <2>6. Undecided'
    BY <1>0, <2>1, <2>2, <2>3 DEF PutInv, Undecided
  <2> QED BY <1>2, <1>3, <1>4, <1>5, <2>4, <2>5, <2>6 DEF PutInv
<1>8. CASE \A u \in Threads : u # t => ~HoldsWrite(u)
  <2>1. \A u \in Threads : HoldsWrite(u)' => u = t
    BY <1>6, <1>8
  <2>2. Alone'
    BY <2>1 DEF Alone
  <2>3. ASSUME HoldsWrite(t)'
        PROVE  /\ Stage(t)' \in 0 .. Len(req'[t].keys)
               /\ db' = Abstract!Stages(req'[t], before')[Stage(t)']
               /\ conf.backend \in Sets /\ req'[t].mode = "exist_only" => pc'[t] = "body" /\ idx'[t] = 1
    <3>1. CASE ~HoldsWrite(t)
      <4>1. EntersToWrite(t)
        BY <2>3, <3>1, WriterEnters
      <4>2. before' = db /\ db' = db /\ Stage(t)' = idx[t] - 1 /\ req'[t] = req[t] /\ pc'[t] = "body"
            /\ idx'[t] = idx[t]
        BY <4>1, EntersActions
      <4>3. idx[t] = 1 /\ req[t] \in conf.requests[t] /\ req[t].op = "put"
        BY <4>1 DEF EntersToWrite, Moves, PutInv, PutsSent, Fresh
      <4>4. /\ Len(req[t].keys) \in Nat
            /\ \A n \in 1 .. Len(req[t].keys) : req[t].keys[n] \in Keys /\ req[t].vals[n] \in Given
        BY <4>3, PutTypes DEF TypeInv
      <4>5. Abstract!Stages(req[t], db)[0] = db
        BY <4>4, StagesOf DEF PutInv, HeldInv
      <4> QED BY <4>2, <4>3, <4>4, <4>5
    <3>2. CASE HoldsWrite(t) /\ Pauses(t)
      <4>1. before' = before /\ (conf.backend \in Sets => req[t].mode # "exist_only")
        BY <2>3, <3>2, PutStep DEF Finishes
      <4> QED BY <3>2, <4>1 DEF Pauses, PutInv, StageInv
    <3>3. CASE HoldsWrite(t) /\ StoresNext(t)
      <4>1. before' = before /\ (conf.backend \in Sets => req[t].mode # "exist_only")
        BY <2>3, <3>3, PutStep DEF Finishes
      <4>2. /\ Stage(t) \in 0 .. Len(req[t].keys) /\ db = Abstract!Stages(req[t], before)[Stage(t)]
            /\ before \in Held
        BY <3>3 DEF PutInv, StageInv, HeldInv
      <4>3. /\ Len(req[t].keys) \in Nat
            /\ \A n \in 1 .. Len(req[t].keys) : req[t].keys[n] \in Keys /\ req[t].vals[n] \in Given
        BY <3>3, PutFacts
      <4>4. PICK n : n = Stage(t) + 1
        OBVIOUS
      <4>5. n \in 1 .. Len(req[t].keys) /\ n - 1 = Stage(t) /\ Stage(t)' = n /\ req'[t] = req[t]
        BY <3>3, <4>2, <4>3, <4>4 DEF StoresNext
      <4>6. Abstract!Stages(req[t], before)[n] =
              Abstract!Put(req[t], Abstract!Stages(req[t], before)[n - 1], n)
        <5>1. \A m \in 1 .. Len(req[t].keys) :
                Abstract!Stages(req[t], before)[m] =
                  Abstract!Put(req[t], Abstract!Stages(req[t], before)[m - 1], m)
          BY <4>2, <4>3, StagesOf
        <5> QED BY <4>5, <5>1
      <4>7. db' = Abstract!Put(req[t], db, n)
        BY <3>3, <4>4 DEF StoresNext
      <4>8. db' = Abstract!Stages(req[t], before)[n]
        BY <4>2, <4>5, <4>6, <4>7
      <4>9. n \in 0 .. Len(req[t].keys)
        BY <4>3, <4>5
      <4> QED BY <4>1, <4>5, <4>8, <4>9
    <3> QED BY <2>3, <3>1, <3>2, <3>3, PutStep DEF Finishes
  <2>4. StageInv' /\ Undecided'
    BY <1>0, <2>1, <2>3 DEF StageInv, Undecided
  <2> QED BY <1>2, <1>3, <1>4, <1>5, <2>2, <2>4 DEF PutInv
<1> QED BY <1>7, <1>8

LEMMA PutNext ==
  TypeInv /\ LockInv /\ TypeInv' /\ LockInv' /\ Serial(conf) /\ PutInv /\ [NextAny]_vars => PutInv'
<1> SUFFICES ASSUME TypeInv, LockInv, LockInv', Serial(conf), PutInv, [NextAny]_vars PROVE PutInv'
  OBVIOUS
<1>1. CASE Finalize \/ UNCHANGED vars
  BY <1>1, PutFinalize
<1>2. ASSUME NEW t \in Threads, Received(t) \/ RunAny(t) PROVE PutInv'
  <2>1. Frame(t) /\ Runnable(t) /\ Kind(t)
    BY <1>2, AllSteps, StepKind
  <2> QED BY <1>2, <2>1, PutInvStep
<1> QED BY <1>1, <1>2 DEF NextAny

-----------------------------------------------------------------------------
(* The steps of the abstract store *)

LEMMA SeenIs ==
  /\ (\A t \in Threads : ~HoldsWrite(t)) => Seen = db
  /\ (\E t \in Threads : HoldsWrite(t)) => Seen = before
<1>1. \A t \in Threads : HoldsWrite(t) <=> (pc[t] = "notify" \/ Putting(t))
  BY DEF HoldsWrite, Putting
<1> QED BY <1>1 DEF Seen

LEMMA SeenWillBe ==
  /\ (\A t \in Threads : ~HoldsWrite(t)') => Seen' = db'
  /\ (\E t \in Threads : HoldsWrite(t)') => Seen' = before'
<1>1. \A t \in Threads : HoldsWrite(t)' <=> (pc'[t] = "notify" \/ Putting(t)')
  BY DEF HoldsWrite, Putting
<1> QED BY <1>1 DEF Seen

LEMMA StoreInit == Init => Abstract!Init
<1> SUFFICES ASSUME Init PROVE Abstract!Init
  OBVIOUS
<1>1. \A t \in Threads : ~HoldsWrite(t)
  BY DEF Init, HoldsWrite
<1>2. Seen = Empty
  BY <1>1, SeenIs DEF Init
<1> QED BY <1>2 DEF Abstract!Init

\* Everything is removed, or one key.
LEMMA Emptied ==
  ASSUME Seen' = Empty PROVE Abstract!Next
<1>1. Abstract!EraseAll(Keys)
  BY DEF Abstract!EraseAll, Empty
<1> QED BY <1>1 DEF Abstract!Next

LEMMA ErasedOne ==
  ASSUME Seen \in Held, NEW k \in Keys, Seen' = [Seen EXCEPT ![k] = Absent] PROVE Abstract!Next
<1>1. Abstract!EraseAll({k})
  BY DEF Abstract!EraseAll, Held
<1> QED BY <1>1 DEF Abstract!Next

LEMMA PutAtOnce ==
  ASSUME NEW r \in Puts, Seen' = Abstract!Stages(r, Seen)[Len(r.keys)] PROVE Abstract!Next
BY DEF Abstract!Next, Abstract!PutAll

LEMMA StoreStep ==
  TypeInv /\ LockInv /\ LockInv' /\ Serial(conf) /\ PutInv /\ [NextAny]_vars
    => [Abstract!Next]_Seen
<1> SUFFICES ASSUME TypeInv, LockInv, LockInv', Serial(conf), PutInv, [NextAny]_vars, Seen' # Seen
             PROVE  Abstract!Next
  OBVIOUS
<1>1. CASE Finalize \/ UNCHANGED vars
  <2>1. /\ UNCHANGED <<conf, pc, req, idx, before>>
        /\ db' = db \/ (db' = Empty /\ \A t \in Threads : ~HoldsWrite(t))
    BY <1>1, FinalizePuts
  <2>2. \A t \in Threads : HoldsWrite(t)' <=> HoldsWrite(t)
    BY <2>1 DEF HoldsWrite
  <2>3. db' = Empty /\ \A t \in Threads : ~HoldsWrite(t)
    BY <2>1, <2>2, SeenIs, SeenWillBe
  <2> QED BY <2>2, <2>3, SeenWillBe, Emptied
<1>2. ASSUME NEW t \in Threads, Received(t) \/ RunAny(t) PROVE Abstract!Next
  <2>1. Frame(t) /\ Runnable(t) /\ Kind(t)
    BY <1>2, AllSteps, StepKind
  <2>2. ASSUME NEW u \in Threads, u # t PROVE ~HoldsWrite(u)
    <3>1. SUFFICES ASSUME HoldsWrite(u) PROVE FALSE
      OBVIOUS
    <3>2. before' = before /\ HoldsWrite(u)'
      BY <1>2, <2>1, <2>2, <3>1, OtherWrites
    <3> QED BY <3>1, <3>2, SeenIs, SeenWillBe
  <2>3. \A u \in Threads : u # t => ~HoldsWrite(u)'
    BY <2>1, <2>2 DEF Frame, HoldsWrite
  <2>4. CASE HoldsWrite(t)
    <3>1. before' = before /\ Seen = before
      BY <1>2, <2>4, PutStep, SeenIs
    <3>2. Finishes(t)
      BY <1>2, <2>4, <3>1, PutStep, SeenWillBe DEF Pauses, StoresNext
    <3>3. Seen' = db'
      BY <2>3, <3>2, SeenWillBe DEF Finishes
    <3>4. Seen' = Abstract!Stages(req[t], Seen)[Len(req[t].keys)]
      BY <3>1, <3>2, <3>3 DEF Finishes
    <3> QED BY <2>4, <3>4, PutFacts, PutAtOnce
  <2>5. CASE ~HoldsWrite(t)
    <3>1. Seen = db
      BY <2>2, <2>5, SeenIs
    <3>2. ~HoldsWrite(t)'
      <4>1. SUFFICES ASSUME HoldsWrite(t)' PROVE FALSE
        OBVIOUS
      <4>2. before' = db
        BY <1>2, <2>1, <2>5, <4>1, WriterEnters, EntersActions
      <4> QED BY <3>1, <4>1, <4>2, SeenWillBe
    <3>3. Seen' = db'
      BY <2>3, <3>2, SeenWillBe
    <3>4. CASE Erases(t) /\ Key(t) \in Keys
      <4>1. Seen' = [Seen EXCEPT ![Key(t)] = Absent] /\ Seen \in Held
        BY <3>1, <3>3, <3>4 DEF Erases, PutInv, HeldInv
      <4> QED BY <3>4, <4>1, ErasedOne
    <3>5. CASE HandsOver(t)
      BY <3>3, <3>5, Emptied DEF HandsOver
    <3> QED BY <1>2, <2>1, <2>5, <3>1, <3>3, <3>4, <3>5, DatabaseStep
  <2> QED BY <2>4, <2>5
<1> QED BY <1>1, <1>2 DEF NextAny

\* Seen from outside a put happens at once, and keys are removed one by one or all
\* together: the backends in memory implement the abstract store, for any threads,
\* keys, values and requests, where the threads of a database share one stream or a
\* lock that works, and a set is given no values to append.
THEOREM ImplementsStore ==
  ASSUME \A c \in Setups : Serial(c) /\ SetsKeepOne(c)
  PROVE  SpecAny => ImplementsKVStore
<1>1. TypeInv => Serial(conf)
  BY DEF TypeInv
<1>2. Init => PutInv
  BY PutInit
<1>3. ImplementsKVStore <=> Abstract!Init /\ [][Abstract!Next]_Seen
  BY DEF ImplementsKVStore, Abstract!Spec
<1> QED BY <1>1, <1>2, <1>3, StoreInit, StoreStep, PutNext, LockAlways, TypeNext, LockNext, PTL
        DEF SpecAny

=============================================================================
