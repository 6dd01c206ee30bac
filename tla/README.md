# TLA+ models of Yokan (mochi-rkv)

Yokan is a remote key/value and document store: a *provider* on a server owns one
database, made by one of several *backends*; clients reach it through Mercury RPCs
and RDMA. The files of this directory model the parts of it that are hard to get
right by testing, check them with TLC and prove theorems about them with TLAPS.
Paths below are relative to the root of the repository.

## 1. Inventory

| Part | State it keeps | Operations | Hard behaviour | What makes it correct |
|---|---|---|---|---|
| log backend, one collection (`src/backends/log.cpp`, class `Collection`) | a metadata file (header, one entry per id), chunk files with an offset in their first word, the mapped length | `append`, `update`, `erase`, `read`, opening and closing | a kill between any two stores, rotation of chunks, in-place updates, a file that outgrows its mapping | extents are disjoint, stored documents stay as they were written, the count is right, success means stored |
| log backend, `LogDatabase` (same file) | the collections of a directory, an LRU cache of chunks | `coll*`, `doc*`, `docIter`, migration | drop and create again, iteration next to writers, cache shared by readers | a dropped collection is gone, `docIter` visits each stored document once |
| map backend (`src/backends/map.cpp`) | a sorted map, a readers-writer lock, a watcher, `m_migrated` | `count`, `exists`, `length`, `put`, `get`, `fetch`, `erase`, `list*`, `iter`, migration, `destroy` | threads that wait for keys, callbacks that give way while the lock is held, migration and finalization next to requests | puts are atomic, no wakeup is lost, migration hands over everything, every request ends |
| locks, `KeyWatcher` (`include/yokan/util/locks.hpp`, `watcher.hpp`) | count of readers, writer flag; entries of waiting threads | lock, unlock; `addKey`, `waitKey`, `notifyKey`, destructor | unlock has no owner; waiters of one key | a lock is released once, a waiter leaves when notified |
| other in-memory backends (`unordered_map`, `set`, `unordered_set`, `array`) | a container and the same lock | as above, or documents for `array` | the same | the same |
| backends over embedded databases (`leveldb`, `lmdb`, `rocksdb`, `berkeleydb`, `gdbm`, `tkrzw`, `unqlite`) | a library handle | as above | check-then-act sequences of library calls, iteration next to writers | modes are respected |
| `DocumentStoreMixin` (`include/yokan/doc-mixin.hpp`) | per collection a next id and a size, cached and stored under keys | `coll*`, `doc*` over a key/value store | ids reserved apart from the documents, cached metadata, crashes | an id is given once, the size counts the documents |
| bulk caches (`src/buffer`) | RDMA buffers in use and free | `get`, `release`, `finalize` | limits, eviction, failed allocation | a buffer serves one request at a time, all are freed |
| provider and migration (`src/server/provider.cpp`, `migration.hpp`) | the pointer to the database, registered RPCs | register, finalize, migrate, receive a database | two providers, failed transfers, requests in flight | a database lives at one place, none is lost |
| server handlers (`src/server/*.cpp`) | per request: input, bulk handles, a buffer | one handler per RPC, direct or with RDMA | error paths | one response, everything released once |
| client library (`src/client/*.cpp`) | handles, call-back contexts of `fetch` and `iter` | one function per RPC | callbacks from the server while the call is pending | callbacks in order, none after the call returned |
| filters, linker, bedrock module, language bindings, benchmarks, lua-cjson | none that is shared | | | not planned |

A handler calls the backend from a user-level thread (ULT) of Argobots, one per
request. ULTs of one execution stream give way to each other only when they block
or make a remote call; those of several streams run in parallel. Backends are
chosen by configuration, and collections exist either natively (log, array) or by
`DocumentStoreMixin` on top of the key/value functions.

`PROJECT.json` lists every component with its status and every hazard at its line.

## 2. Plan

Modelled and checked, in the order in which they were written:

1. `LogCollection`, `DocStore`: durability of documents. *Every safety property and the
   refinement are proved* (`LogCollectionProofs`, `LogRefinementProofs`).
2. `RWLock`, `KeyWatcher`, `MapDatabase`, `KVStore`: concurrency of the default backend;
   `UnorderedMap`, `SetDatabase`, `UnorderedSet` as variants of it. *Every safety property
   and the refinement of `KVStore` are proved for the four* (`MapDatabaseProofs`, `Induction`).
3. `Listing`, `LibraryBackend` and one module for each embedded database, against `KVStore`.
   *Every safety property and the refinement are proved for the seven* (`BackendsProofs`).
4. `BulkCache`, `Handlers`, `ClientFunctions`, composed by `RPC`, and `Callbacks` for the
   functions with callbacks. *Every safety property of the two is proved* (`RPCProofs`,
   `CallbacksProofs`).
5. `Provider`: several providers, migration, finalization, requests in flight. *Every
   safety property is proved* (`ProviderProofs`).
6. `DocRequests`, `DocMixin`, `ArrayDatabase`, `LogDatabase`, composed by `Documents`.

Left, proofs before all:

- `Documents`: an id is given once, by each of its three backends;
- two streams inside of one `Collection` of the log backend (log.cpp:345, 382), and
  several streams for the backends of documents.

## 3. The log backend

### LogCollection

`LogCollection.tla` is the class `LogDatabase::Collection`. Variables keep the names
of the code: the header (`coll_size`, `next_id`, `last_chunk_id`), the entries
(`meta`), the chunks (`tail`, the first word of each, and `data`, the rest), how many
slots of the metadata file are `mapped`, and the locals of the running operation
(`docs`, `ids`, `i`, `next_offset`, `entries`). `pc` names the store that comes next.

| Action | Code |
|---|---|
| `AppendBegin`, `AppendNext`, `AppendEntry(Fails)`, `AppendId`, `AppendSize`, `AppendEnd` | `append` (404-454), one action per store |
| `TailData`, `TailFull`, `TailWritten` | the write behind the tail of the last chunk, the same in `append` and `update` |
| `UpdateBegin`, `FillEntry(Fails)`, `FillId`, `FillEnd` | `docUpdate` (844-865) and the entries an update creates up to its largest id |
| `ScanUnmapped`, `ScanSkip`, `ScanOverwrite`, `ScanFault`, `ScanEntry`, `ScanSize`, `ScanEnd` | the first loop of `update`: documents that fit in place |
| `UpdateSkip`, `UpdateNext`, `UpdateEntry`, `UpdateSize`, `UpdateEnd` | its second loop: the others |
| `EraseEntry`, `EraseSize` | `erase` |
| `Close`, `Crash`, `Open` | destructor, kill, constructor |
| `read` (operator) | `read` |

Abstractions: a document is a size in words and one value that fills it; the copying
of a document and the store of an entry are one step each; files are mapped with
`MAP_SHARED` and flushing is not compiled in, so a kill of the *process* keeps every store that
was executed, and a crash of the machine is outside of the model; operations run one at a
time, as the lock of the collection makes them (with `use_lock`), and `docUpdate`'s look at
`last_id` belongs to the update; requests with a document larger than a chunk are
refused by the code before it does anything and are left out.

`committed` and `torn` are history variables: what each document was last committed
as (in `append` the store of `next_id`, otherwise that of the entry), and which
documents a kill caught between the new data and the new entry of an in-place update.

`DocStore.tla` is what a collection promises: consecutive ids, one document changes at
a time, in one step or visibly damaged. `LogCollection` is shown to implement it by
mapping every id to the words its entry points at.

### Runs

| Run | Question | Bounds |
|---|---|---|
| `log_integrity` | types, `ExtentsDisjoint`, `StoredDocsIntact`, `CollSizeExactButForCrashes`, `UpdateOKMeansStored`, `ImplementsDocStore` | 3 ids, 3 chunks of 4 words (3 usable), documents of 1 or 2 words, an append whose second document fits no chunk, 1 kill |
| `log_limits` | documents that fit no chunk, empty documents, entries beyond twice the mapping: `OperationsEnd` | 4 ids, 2 slots mapped at first |

Three ids are
the fewest that let a third document be placed by two others that were updated and
erased; three chunks let the middle one be neither first nor last; chunks of three
usable words rotate after one or two documents, and documents of one and two words
make an update fit or not fit in place. A second kill adds no interleaving within one
operation, and `CollSizeExactButForCrashes` counts them.

`log_integrity` leaves out updates of an id twice in one batch and of documents as large
as a chunk, because they break the properties (section 10).

`OperationsEnd` assumes `WF_vars(Step)`: the thread that holds the lock neither blocks
nor gives way inside of an operation, so it goes on; nothing is assumed of clients,
kills and restarts. Deadlock is checked in both.

Runs with a star, here and below, end in a violation: they show a disagreement between
the code and what a comment or a header says of it, listed under "findings".

### Proofs

`LogCollectionProofs.tla` proves for *every* chunk size, batch of requests, number of
ids, chunks and kills that satisfy `ConstantsAssumption` and `BatchesAssumption`:

- `TypeCorrect`: `Spec => []TypeOK`. `TypeOK` is not inductive: that the offset stays
  inside a chunk needs to know that the document at hand fits where it is being
  written, that the bound on ids and chunks leaves room for the rest of the batch, and
  which locals are live at which `pc`. `TypeInv` adds these (`Control`, `Room`).
- `ExtentsNeverShared`: `Spec => []ExtentsDisjoint`. The invariant `Layout` adds that
  every extent of the last chunk ends before the offset kept in the chunk, and that no
  entry points beyond the last chunk; a document published at the tail is then apart
  from all others (`ApartKept`, `LayoutPublish`).
- `StoredDocsAlwaysIntact`: `Spec => []StoredDocsIntact`. `ContentInv` adds what is known of the
  document between the copying of its words and the store of its entry, and uses
  `Layout` to show that copying touches no other document.

Each has the same three parts: `Init` establishes the invariant, one lemma for each group
of actions preserves it, and the last step combines them (`PTL`). TLC checked the
invariants before.

`LogRefinementProofs.tla` proves `LogImplementsDocStore`: `Spec => ImplementsDocStore`.
The invariant `RInv` adds to `ContentInv` that what a reader finds under an id is always
one of three views: nothing, the document as it was committed, or damaged words
(`Known`); each action then changes one view, appends one, or none (`RefineStep`).

The second part of the module is about the two loops of `update`, of which the second
decides by the copies of the entries that the first one took:

- `UpdateStoresItsBatch`: `UpdateOKMeansStored`, from the invariant `UInv` (every document
  below `i`, or that fits in place, is stored). It assumes `DocsFitChunks`: a document
  as large as a chunk makes the second loop end early with success (log.cpp:553, 570);
- `CountExactButForCrashes`: `CollSizeExactButForCrashes`, from the invariant `CInv` (the
  count is that of the entries, but for the one being stored now and one per kill; the
  copies not yet used are `Current`). It assumes `IdsNamedOnce`: of an id named twice
  the second copy is stale (495, 550).

Only model-checked: liveness.

## 4. The map backend

### RWLock, KeyWatcher, MapDatabase

`RWLock.tla` is `ABT_rwlock` as the scoped locks use it; the lock itself belongs to
Argobots and is modelled from its use: a flag and an unsigned count of readers.
`KeyWatcher.tla` holds the entries of waiting threads and the mutex, which matters
only to the thread that never gives it back. `MapDatabase.tla` extends both: `db`,
`m_migrated`, and for every thread the request it runs, the key it is at (`idx`), what
was copied to its caller (`got`) and where it is (`pc`).

| Action | Code |
|---|---|
| `Start` | a handler of the server calls the backend |
| `Refused`, `AcquireRead`, `AcquireWrite` | the scoped lock and `if(m_migrated)` |
| `ReadFound`, `ReadAbsent`, `ReadExpects`, `ReadEnd` | one turn of the loops of `exists`, `length`, `get`, `fetch` |
| `ScanVisit`, `ScanEnd` | `listKeys`, `listKeyValues`, `iter` (`count` visits nothing) |
| `UnlockToWait`, `WaitKey`, `WaitReturn`, `Relock`, `ReturnTimedOut` | `unlock`, `waitKey`, `lock`, `goto retry` or `TimedOut` |
| `Consume`, `SecondUnlock` | the end of `get` with `YOKAN_MODE_CONSUME`, which calls `erase` |
| `EraseFound`, `EraseAbsent`, `EraseExpects`, `EraseEnd` | `erase` |
| `PutKey`, `Notify`, `PutRefusedAlone`, `PutSkipped`, `PutEnd` | `put` with its modes |
| `startMigration`, `Snapshot`, `MigrateCancel`, `MigrateEnd` | the migration handle, from its construction to its destruction |
| `destroy`, `Delete`, `DeleteEnd` | finalization of the provider |

A *setup* says whether the threads share one execution stream, whether the database
has a lock, whether it is finalized, and which requests each thread may send. With one
stream a thread runs until it blocks, waits, or is in the callback of `fetch` or
`iter` or in the transfer of a migration, which are remote calls (`AtYield`); with
several, any thread takes the next step. A request at `"lock"` has been received: its
handler may still be transferring its keys.

Abstractions: values are sequences of what was put or appended; whether a buffer holds
them is a flag of the request; a listing is the sequence of keys it visits; allocators
and comparators are left out. On several streams an `erase` next to a reader is
undefined behaviour, so nothing is explored beyond the first such step: no setup
of the passing run has one. A request received but not yet in the database when
finalization begins is left to `Provider`.

`UnorderedMap.tla`, `SetDatabase.tla` and `UnorderedSet.tla` replace those steps of
`MapDatabase` that differ: hashed containers refuse to list, sets keep the one empty
value and have no append, `fetch` stops at a callback that fails and may consume,
`unordered_set` neither waits nor notifies. `InMemoryBackends.tla` lets a setup name one
of the four; the properties are those of `MapDatabase`.

`KVStore.tla` is what a key/value backend promises: a put of many pairs is one step,
each key judged by the mode. `MapDatabase` is shown to implement it, a put taking
effect when its loop ends.

### Runs

| Run | Question | Setups |
|---|---|---|
| `map_store` | `NoLostWakeup`, `MapStableWhileRead`, `HandoverComplete`, `NothingStoredAfterHandover`, `NoUseAfterFree`, `RequestsEnd`, `ShutdownEnds`, `ImplementsKVStore` | `Concurrent` (several streams, the lock, two sleepers on different keys), `Migrating` (one stream, the lock), `Draining` (one stream, no lock, finalization), and two setups for each of the other backends: without the lock, and migrating |
| `map_consume_hangs`* | a consuming `get` releases the lock twice; the next `put` never gets it | one consumer, one writer |

Three threads, two keys, two values and two requests per thread (`MaxRequests`): a
waiter, the writer that races with its lookup and a third party (a second waiter, a
migration, an eraser); a batch needs two keys to be seen half done, and a second
request finds what the first one left, a wrapped count or a migrated database. The
count of readers wraps at 7 (`UnsignedMax`) instead of 2^64-1; three threads never
come near it unless it wraps below zero.

What `map_store` leaves out, because it breaks the properties, is in section 10, and two
more: an `iter` or `fetch` in its callback while a migration clears the
map under the lock of the readers (map.cpp:824-827), and any `erase` next to them. So
`Migrating` has no such request, `Concurrent` no `erase`, and no setup has two waiters
of one key or a consumer behind a lock.

Fairness: `WF_vars(Run(t))` for every thread, since Argobots runs every ULT that can run, and
of the two steps that follow `destroy`; none for clients. A request is allowed to sleep
forever on a key that nobody announces (`AtRest`); `NoLostWakeup` says that it does not
when somebody has. With one stream a thread that spins stops everybody, as it does in the code.
Deadlock is not checked (`CHECK_DEADLOCK FALSE`): when all requests are spent, or only
sleepers remain, the database rests.

### Proofs

`MapDatabaseProofs.tla` proves every safety property of `map_store` for the
specification that the run checks (`SpecAny`, which lets the setup choose among the four backends), with
any number of threads, keys and requests. `NextCases` names what a step of any of them
does to the variables (`Kind`), so that each invariant looks at twenty kinds of steps and not
at the actions of four modules. The invariants: `TypeInv`; `LockInv`, which ties the lock
to where the threads are; `WatchInv`, the entries of the watcher to the sleepers;
`MigratedInv`, `SnapshotInv` and `FreeInv` for a theorem each.

Each theorem names the setups it is about, since the code does not keep its property
in the others (section 10). TLC has evaluated these hypotheses on the setups of `map_store`,
which satisfy all of them.

| Theorem | Property | Hypothesis, and what it excludes |
|---|---|---|
| `MapStable` | `MapStableWhileRead` | `ReadsUndisturbed`: next to a reader nobody erases or migrates, which is done under the lock of readers (map.cpp:560, 824), and others put only behind the lock, or where the reader does not give way |
| `NothingStored` | `NothingStoredAfterHandover` | `MigratesLocked`: a migration is behind the lock, without consumers, which unlock twice (511) |
| `HandoverKeepsAll` | `HandoverComplete` | the same, and `MigratesUnerased`: nobody erases (560) |
| `WakeupsKept` | `NoLostWakeup` | `NotifiesItsKeys`: `set` does not notify (set.cpp:352) |
| `FreedUnused` | `NoUseAfterFree` | `FinalizedApart`: at finalization nobody sleeps behind the lock (map.cpp:855), or there is one stream and no lock |
| `ImplementsStore` | `ImplementsKVStore` | `Serial`: one stream, or a lock that works (`use_lock`, no consumers); `SetsKeepOne`: a set is given one value and no append mode, as it keeps none |

`ImplementsStore` needs `PutInv`. While a thread holds the lock of writers, the abstract store
still has what the database had `before` the put (`Seen`); the whole put happens when
the lock is released. `StageInv` says that the database is the stage of the abstract put that
the loop has come to (`Stages(b, s)[n]`: what the first `n` pairs make of `s`), `Alone` that one
thread writes, `OneValue` that the values of a set do not matter, `PutsSent`, `Fresh` and
`Undecided` that the loop begins with a put that was sent, at its first pair. An erasure and the end of
a migration are a step of the abstract store each, as `erase` gives up its keys one by one.

`Induction.tla` has the induction that the theorem needs: `InductiveSet` states it for a set of numbers,
which the provers can use, and `StagesExist` concludes that a recursive function on
`0 .. L` exists and satisfies its equation.

`ConsumedIsReturned` has no theorem: where somebody may write between the lookup and the
erasure of a consumer it fails, elsewhere nothing can go wrong. Only model-checked: liveness.

## 5. The backends over embedded databases

`LibraryBackend.tla` has what the seven backends share: requests as threads, the lock
that excludes a migration, handles (transactions, iterators, cursors) and the content of
the library's database. A module for each backend (`LevelDB`, `RocksDB`, `LMDB`,
`BerkeleyDB`, `GDBM`, `Tkrzw`, `UnQLite`) says which calls of the library each of its
operations makes, in which order, and what it does on an error. `Listing.tla` has the
copying loop of `listKeys` and `listKeyValues` with its packed and unpacked buffers.

The libraries are external: one call is one atomic step that does not fail unless it is
misused. What differs between them and matters is kept: iterators of leveldb and
rocksdb and transactions of lmdb are snapshots, cursors of berkeleydb and iterators of
tkrzw are live; a cursor of berkeleydb locks its page and a record processor of tkrzw
its record; a reader slot of lmdb belongs to the OS thread. A put is atomic where the
backend uses a batch or a transaction (`AtomicVals` marks the values of such puts for
the refinement of `KVStore`), and a sequence of single puts otherwise. Configurations,
the recovery from files and comparators are left out.

| Run | Question | Bounds |
|---|---|---|
| `backends` | `HandlesReleased`, `ReadsCurrent` (a lookup returns a value the key had during the request), `ListingExact` (nothing invented, nothing skipped), `HandoverComplete`, `RequestsEnd`, `ImplementsKVStore` | 3 threads with one request each, 3 keys of two sizes, 2 values of two sizes, 28 setups |

One request per thread is enough: the requests of a thread share nothing but the
database, whose initial content has a key absent and two present. Every operation of
every backend runs next to a writer or a migration, with good and bad arguments, with
slots and buffers too small by one word. The setups marked `leaks` hold the requests that
leave handles open (section 10); they are explored for the other properties. Fairness: the
threads of Argobots run. Deadlock is not checked: at the end everybody has had his request.

### Proofs

`BackendsProofs.tla` proves the four safety properties of the run and the refinement for
any number of threads, keys, values and requests. Seven backends have some 150 actions, but these come
down to seventeen kinds of steps of one thread (`Kind`: it receives, is refused, enters,
looks a key up, visits one, writes one or all, is done, hands over...), which say only
what the invariants look at. `StepCases` shows that every action of every backend is of
one of these kinds; all else is proved about kinds.

| Theorem | Property | Invariant, and what it rests on |
|---|---|---|
| `ReadsCurrentHolds` | `ReadsCurrent` | `HistInv`: what a request can see, the database or its snapshot, is covered by its history (nothing in it that was not there, all in it that was always there); `GotInv`: every slot filled so far is true of that history, and slot n is for key n |
| `HandoverCompleteHolds` | `HandoverComplete` | `LockInv`: the counter of readers is the number of read sections that threads are in, a writer is alone; `ViewInv`: the database does not change under a handle. If `Handing`: the lock is used, and gdbm gets no consumers, which leave a lock twice (section 10) |
| `HandlesReleasedHolds` | `HandlesReleased` | `OpenInv`: open are exactly the handles that the operation under way takes; `KeptInv`: the keys that no request removes are in the database and in every snapshot. If `Tidy`: no request that is known to leave a handle (section 10): with lmdb a walk needs a key that stays at or behind its first |
| `ListingExactHolds` | `ListingExact` | `Walked`, in `ListInv`: the walk has kept, in order, all keys behind it that pass the filter and were always there; then the slots hold an item or a mark each (`SlotsOf`), and a slot marked `YOKAN_NO_MORE_KEYS` means that the walk ended by itself. If `Orderly`: no filter stops before a key that it would let pass, an exclusive start with berkeleydb is at a key that stays, with lmdb before one |
| `ImplementsKVStoreHolds` | `ImplementsKVStore` | `PutInv`: half of a put of gdbm or unqlite is what the abstract put makes of the database with as many pairs, and nobody else is in the middle of one; `PutOne`: each backend refuses the keys that the mode refuses and stores what the mode says. If `Storing`: gdbm and unqlite have the lock (without gdbm's consumers) or one stream; and `Marked`: a put names at most one mode of writing, and its values tell whether it is one step or one for each pair |

The hypotheses speak of the setup alone, which is constant. All 28 setups of the run
satisfy `Handing`, `Storing` and `Marked`; one, for lmdb, satisfies neither `Tidy` nor
`Orderly`: one of its requests removes key 3 and others start behind key 2. There the
properties hold only because a thread has one request and is the one that would remove
the key. TLC checked the invariants on the run before.

In the refinement an outside observer sees `Visible`: the database, but as it was before
a put of gdbm or unqlite that is under way. Every step is then a put of a batch (lmdb,
leveldb and rocksdb with `use_write_batch`, the end of a put of gdbm or unqlite), a put
of one pair (the others), an erasure of some keys, or a stutter. On one stream no other
thread runs between two pairs of a put (`StepRuns`), with the lock they wait (`OthersWait`).
Only model-checked: liveness.

## 6. Requests

### BulkCache, Handlers, ClientFunctions, RPC

A handler of the server and a function of the client are mostly sequences of the same
few steps. `Handlers.tla` gives for each RPC the sequence of its steps (get the
input, find the origin, look up the database, take a buffer, pull, check, call, push,
answer) with the regions of the message it pulls and pushes and where it looks for them;
`ClientFunctions.tla` gives for each function which memory it exposes in which order and
which arguments it refuses. `RPC.tla` runs them: a client calls, the ULT on the server
takes its steps, each of which may fail, and on the way out the deferred actions run
in the opposite order (`src/common/defer.hpp`). A transfer that was started
(`margo_bulk_itransfer`) is under way until `Complete`. `BulkCache.tla` is `src/buffer`:
`get`, `release` and `finalize` of the default, keep_all and lru caches; a buffer keeps
what the request before left in it (`Junk` at first).

The content of a region is the client whose call it belongs to; offsets are positions in
the list of regions, so that a handler that looks in the wrong place finds somebody
else's data, or junk.

### Callbacks

`Callbacks.tla` is one call of `fetch`, `iter`, `doc_fetch` or `doc_iter`: the handler
walks through the database and sends the items in batches, as RPCs to the client,
filling the next batch while the client works on the last; the client pulls, runs the
caller's function on each item and answers. Any of these calls may fail, and the
function of the caller may stop the iteration or report an error.

| Run | Question | Bounds |
|---|---|---|
| `rpc` | `DatabaseSeesRequest`, `AnswersArrive`, `TransfersSafe`, `BuffersAccounted`, `RejectedMeansUntouched`, `CallsReturn` | 2 clients, 4 buffers, calls of one or two words; every function next to another, each with each kind of failure or flaw it can meet; two calls for each client with the caches that keep buffers |
| `callbacks` | `BatchesDoNotOutliveTheirMemory`, `ItemsDelivered`, `OutcomeTold`, `CallReturns` | 3 items in batches of 1, 2 or all, with or without RDMA and a pool of its own, five sets of failures, a callback that stops or fails at each item |
| `fetch_wrong_key`* | the second batch of a fetch comes with the keys of the first | 3 keys, batches of 2 |

Two clients suffice for a buffer to be given on; the lru cache has a capacity of one or
none, so it evicts. Three items make a first, a middle and a last batch, or a full
and a partial one. Fairness: threads run, and a transfer that was started completes, as
Mercury promises or it reports an error. Deadlock is not checked: after the calls there is
nothing to do.

`rpc` leaves out the failure of the second asynchronous push in `get` and `doc_load`, and
`yk_get_multi` with one key that is absent; `callbacks` leaves out batches of different keys
in `fetch`, and a callback that refuses a full batch of `iter` before the last two (section 10).

### Proofs

`CallbacksProofs.tla` proves for any number of items, size of the batches, options, callback
and set of failures, in all of the functions:

- `BatchesStayInTheirMemory`: `BatchesDoNotOutliveTheirMemory`. Its invariant `MemInv`
  says that what is exposed is the batch sent and the one about to be sent, and that only
  the one sent can be at work on the client.
- `ItemsInOrder`: `ItemsDelivered`. `CollectInv` says that the batch about to be sent is the next
  part of the items (`Part`), for handlers that look keys up as for those the database
  calls; `SentInv` that the batch sent last is such a part and how much of it is left;
  `DelInv` that what was delivered comes before what is left; `SkipInv` that, without a
  failure or a pool, nothing before it is missing. The hypotheses name what the code gets
  wrong: `CountsItems` (doc_iter_direct adds up bytes, server/doc_iter.cpp:247), `KeysRight`
  (`fetch` reads the keys of the first batch, client/fetch.cpp:389) and `StopsLate` (a full batch that was
  not sent is sent again after a callback said no).
- `OutcomeToldHolds`: `OutcomeTold`. `StopInv` says that a callback that said no was the last
  to run; `ToldInv` that what the client knows of a batch (`Truthful`, `Complete`) is what its callbacks
  said, and that without a pool or a failure the items delivered and those left of the batch add
  up to what was sent (`Lossless`; with a pool the tasks still to run are a set, counted by its
  cardinality); `FlawInv` that a flawed request never gets past the checks. The hypotheses
  (`Hearable`) are `CountsItems`, `StopsLate`, `StopsSay` (a callback stops with something other than
  success) and `FlawFound` (each flaw is one that the function refuses or a check of its handler finds).

The setups of `callbacks` satisfy all of these hypotheses.

`RPCProofs.tla` proves the safety properties of `rpc` for any number of
clients, any sequences of calls, and *any* functions and handlers made of the steps of `RPC`, not
only those of `ClientFunctions` and `Handlers`. What is assumed of them (`SetupsAssumption`, which
TLC evaluates): the client exposes a place for each region the handler looks at, and a handler takes at
most one buffer, before the first step that needs it. The inductive invariant is `Inv`:

- `Control`: a ULT takes steps only while its client waits for it, and the cache is finalized
  only when nobody calls;
- `Deferred`: a ULT has a buffer from the step that takes it to the deferred action that
  releases it, and that action is on its stack once: the steps say who holds a buffer, so no path of
  errors leaks one or releases it twice;
- `Stored`: the lists of the cache and what is cached are the same; an lru list is not
  longer than the capacity, a default cache has none;
- `Held`: a buffer is in use exactly if one ULT has it, which has it alone;
- `Counted`: `numInUse` is the number of these ULTs.

The theorems, each with the hypothesis about the functions and handlers that it needs:

- `BuffersAccountedHolds`: from `Inv`. `CountsRight`: the default cache does not fail to allocate,
  for it counts the buffer before it knows (default_bulk_cache.cpp:50).
- `TransfersSafeHolds`: `Flights` says that the ULT a transfer belongs to is between its start
  and the wait for it. `PushesAndWaits`: the handler only pushes in between, and these pushes do not
  fail (otherwise `get` and `doc_load` return without the wait, section 10).
- `RejectedMeansUntouchedHolds`: `Screening` says which of the checks a call that is still under
  way has passed. `Guarded`: a check of the client or of the handler catches each flaw before
  the database is called (`CaughtInTime`), and after that call nothing is refused (`ChecksFirst`).
- `DatabaseSeesRequestHolds`: `Requests` says that until something is written the memory of the
  client, the input and what was pulled into the buffer are those of this call.
  `SendsAll`: what a handler checks or gives to the database it has got with its input or pulled
  from the place where this function puts it.
- `AnswersArriveHolds`: `AnswersArrive`. `AnswersSent` follows an answer (`Answering`): what the steps
  so far have filled is in the buffer or the output, what was pushed is on its way or has arrived, a
  response has nothing but answers in it, and it is sent once; and a call that nothing hinders
  (`Unhindered`) has exposed its memory and has no error. `AnswersAll`: the handler calls the database once
  and brings each region that is owed afterwards; `Permitted`: the memory is exposed for the transfers that
  the handler makes, which leaves out `yk_get_multi` with one absent value (section 10);
  `PushesAndWaits`, as above; `JunkApart`: what lies in a new buffer is nobody's answer.

All setups of `rpc`, and every function is in one, satisfy these hypotheses.

## 7. Providers and migration

`Provider.tla` has providers, databases and migrations as entities of their own, so that
a pointer may be stale. `TakeDatabase` and `CallDatabase` are the two halves of a handler:
between them the database may be migrated or deleted. A migration is the sequence of
calls of `yk_provider_migrate_database` and of its ULT on the source
(`CheckDatabase`, `get_remi_provider_id_from_remote`, `Freeze`, `FillFileset`, `Release`,
`DeleteSource`) and of the REMI callbacks on the target
(`before_migration_cb`, `CopyFiles`, `after_migration_cb`). What a database does under
its lock is one step. `Drop` is the destructor of the migration handle: without a `cancel()` before it,
the database has migrated and its data is erased. A finalized target still has the RPC that
asks for its REMI provider, whose handler then reads freed memory: any answer may come
(`Freed`). REMI is external: it runs the two callbacks around the copy and
removes the files of the source afterwards.

| Run | Question | Bounds |
|---|---|---|
| `provider` | `AckedWritesKept`, `NoSplitBrain`, `MigrationSettled`, `EverybodyAnswered` | 3 providers, 3 requests, 2 migrations: there and back, both ways at once, to a target that is busy, lacks REMI or is the source itself; a failure of each call; finalization |
| `migrate_race`* | two sources, one target: the second database replaces the first | 2 migrations |

Three providers are a source, a target and a third that is a second target, without REMI, or
(in `migrate_race`) the target of the other two. Fairness: registration, requests and migrations go on; nothing is assumed
of finalization. An answer of REMI that is lost after the target has attached the
database is not modelled: the code would give the source back and two copies would serve.

### Proofs

`ProviderProofs.tla` proves the safety properties for any number of providers, databases,
requests and migrations, whichever remote call fails. `PInv` has the types, where each
database is (`Placement`: it has one provider), where each migration is, seen from its two
providers and its database (`Migrating`), and who holds each lock (`Locks`).

- `MigrationsSettle`: `MigrationSettled`, from `PInv`;
- `WritesSurvive`: `AckedWritesKept`, with `Kept`: what is acknowledged is never only in a
  source that waits to be deleted. Both properties leave out the setups in which filling the fileset fails, where
  the code loses what was acknowledged (section 10);
- `NeverTwoServe`: `NoSplitBrain`, with `Copies`: of two open databases that have a write in
  common one waits to be deleted.

The three assume `MigrationsApart`: two migrations that REMI lets begin, or whose target is
finalized at some time, have different sources and different targets. The code checks neither (migration.hpp:27,
provider.cpp:582, 690); `migrate_race` shows the second. `NeverTwoServe` also
assumes that a key stands for one write.

## 8. Documents

`DocRequests.tla` has the threads, their requests and what clients were told (`acked`,
`given`); each backend extends it with the steps of its functions.

- `DocMixin.tla`: `include/yokan/doc-mixin.hpp`, one call of the key/value store being one
  step (the store promises what `KVStore` says). `db.disk` and `db.docs` are what is
  stored, `db.cache` the cached metadata. A kill keeps the former and loses the latter.
- `ArrayDatabase.tla`: `src/backends/array.cpp`, with offsets, sizes and padding.
- `LogDatabase.tla`: the collections of `src/backends/log.cpp`; one call of a
  `Collection` is one step, as `LogCollection` implements `DocStore`. `docUpdate` and
  `docIter` are several calls.

`Documents.tla` composes them: a setup names one. The database is on one execution
stream, which is what makes accesses to plain memory (the metadata cache of the mixin)
well defined.

| Run | Question | Bounds |
|---|---|---|
| `documents` | `AckedDocsKept` (and no id is given twice), `SizeExact`, `ReadsComplete`, `OperationsReturn` | 2 threads, 4 or 5 different requests, documents of 1 or 2 words, a failure of each call of the layer below, kills; integers wrap at 7 |
| `update_new`* | an update that may create documents moves the next id back | 3 requests |

Each request of a setup is issued once, by either thread, in any order that the setup allows:
stores next to stores, updates, erasures, listings and loads; a creation and a drop;
a migration. Two threads give every pair of requests every interleaving of their
calls; the third and later requests see what they left. Wrapping at 7 makes `last_id` of an
empty collection larger than any id, as 2^64-1 is. Setups are `orderly`: requests on a
collection come after its creation and an id is used after it was returned, as a client
can only know it then. `create` and `drop` run alone, and so does a migration of the log
backend; section 10 says why. Fairness: threads run. Deadlock is not checked.

## 9. Findings

Four runs end in a violation of what the repository says of itself:

- `map_consume_hangs`: `get` with `YOKAN_MODE_CONSUME` unlocks a scoped lock by hand
  (map.cpp:511) and its destructor unlocks again;
- `fetch_wrong_key`: `keys[i]` where `keys[in.start + i]` is meant (client/fetch.cpp:389);
- `update_new`: `next_id` set to the largest id updated plus one, even downwards
  (doc-mixin.hpp:197);
- `migrate_race`: the check for an existing database and the attachment of the new one are
  apart (migration.hpp:27, 101).

## 10. What the code does not keep, outside of the runs

The properties below fail on the instance named with them, or the runs leave the case
out. Each line says what to put in a `.cfg` to see it where the model has it.

Log backend:
- an update of an erased id takes the null chunk (log.cpp:394, 508): `NeverFaults` with
  `AppendBatches <- OneBatch`, `UpdateBatches <- OneUpdate`;
- in an empty collection `last_id` wraps and an update creates documents (859):
  `NewIdsOnlyOnRequest` with `OneUpdate`;
- after a restart entries beyond the initial mapping cannot be read (366):
  `StoredDocsReadable` with `InitSlots = 2` and three ids;
- an update with a document of the size of a chunk reports success and stores nothing
  (459): `UpdateOKMeansStored` with `UpdateBatches <- FullUpdates`;
- an id that is named twice in an update and whose entry is empty is counted twice (550, 563-564);
- `docIter` and `docList` on an empty collection count to the wrapped last id (1049): the runs list a
  collection once it has had a document (`conf.nonempty`);
- the migration handle gives up its lock before it destroys the database (1073-1077): a
  document stored in between is lost; `collDrop` leaves the files of the collection (771).

In-memory backends:
- a value that does not fit the buffer of a consumer is erased (map.cpp:512):
  `ConsumedIsReturned` with `SmallSetup`; what another request stores between the lookup and
  the erasure of a consumer is erased too (511-512): `ConsumedIsReturned` with `ConsumeRaceSetup`;
- a key erased during the transfer is still handed over (560): `HandoverComplete` with `EraseSetup`;
- the second waiter of a key spins with the mutex (watcher.hpp:110): `RequestsEnd` with `TwoWaitersSetup`;
- a sleeper takes the freed lock at finalization (map.cpp:855): `NoUseAfterFree` with `ShutdownSetup`;
- `set` notifies of the next key instead of the one it stored (set.cpp:352): `NoLostWakeup`
  with `SetNotifySetup` and `SPECIFICATION SpecAny`;
- a recovered array has `m_count` 0, so its size is off after a migration.

Embedded databases:
- lmdb's `count` leaves its transaction open and its walk over nothing the cursor, `iter` of lmdb
  and leveldb leave theirs when the callback fails; an exclusive start at the last key is an error with lmdb; a read next to a reader in a callback of the same OS thread gets
  `MDB_BAD_RSLOT`;
- gdbm's consuming `get` unlocks twice as `map` does; berkeleydb's exclusive start skips
  a key when the start is not there; a callback of berkeleydb or tkrzw runs with a page or
  record locked, and a request of the same stream that needs it waits forever.

Requests:
- `yk_get_multi` for one absent key pushes `KEY_NOT_FOUND` bytes (server/get.cpp:131):
  `AnswersArrive` with `GetOneSetup`;
- `get` and `doc_load` return when their second push cannot be started and release the buffer the
  first one still reads (server/get.cpp:141): `TransfersSafe` without `PushesOnce`;
- `length_direct` does not check that there is a database; `coll_exists`, `coll_last_id`
  and `coll_size` copy an uninitialised local on an error; the default cache counts a buffer
  it failed to allocate (default_bulk_cache.cpp:50);
- an iteration whose full batch is refused sends it again: `ItemsDelivered` without
  `MayStopAt`; the start index of `doc_iter_direct` is in bytes (server/doc_iter.cpp:247); a
  fetch of no keys divides by zero (server/fetch.cpp:42).

Providers:
- errors between `startMigration` and the transfer return without `cancel()`, and the
  destructor of the handle erases the database (provider.cpp:616-663, map.cpp:824-827): the
  source has migrated to nowhere, what was acknowledged is lost, and clients are told
  "Database has migrated". `MigratedMeansMoved` with `FilesetSetups`; `MigrationSettled`
  and `AckedWritesKept` leave out the setups where filling the fileset fails;
- three RPCs stay registered after finalization: `NothingStale` with `DestroySetup`; handlers
  that hold the pointer outlive the database (475, 688); a registration that fails after REMI's
  leaves the REMI class with a deleted provider.

Documents:
- `docList` of an unsorted store ends at the first id without a document;
- `collDrop` next to `docStore` brings the collection back; `docErase` of an id whose store has
  not returned makes the size wrong; these need clients that are not `orderly`;
- a document of the array backend that does not fit its part of the buffer of a load that is not
  packed does not move the pointer on (array.cpp:374-377): the next ones are written too early.

## 11. Not modelled

- the null backend (returns constants) and the factory of backends; filters and
  `doc-mixin.cpp` (pure matching: a listing has the set of keys its filter accepts);
- the bedrock module, the C++ and Python interfaces, benchmarks and ycsb: callers without
  shared state; lua-cjson: vendored;
- the wire format, logging, JSON configurations, allocators, comparators, dynamic linking;
- `yk_client_init`, `yk_client_finalize` and the reference counts of handles;
- crashes of the machine, as nothing is flushed by the default build; the chunk cache of
  the log backend and two streams inside of one `Collection`.

Out of the prover's reach, and left to TLC: liveness (`OperationsEnd`, `RequestsEnd`,
`ShutdownEnds`, `CallsReturn`, `CallReturns`, `EverybodyAnswered`, `OperationsReturn`) and
`ENABLED`. Induction over numbers is within
reach where it is stated for sets, as in `Induction.tla`.

## 12. Running

| Configuration | Module |
|---|---|
| `LogIntegrity.cfg`, `LogLimits.cfg` | `MCLogCollection` |
| `MapStore.cfg`, `MapConsumeHangs.cfg` | `MCMapDatabase` |
| `Backends.cfg` | `MCBackends` |
| `RPC.cfg` | `MCRPC` |
| `Callbacks.cfg`, `FetchWrongKey.cfg` | `MCCallbacks` |
| `Provider.cfg`, `MigrateRace.cfg` | `MCProvider` |
| `Documents.cfg`, `UpdateNew.cfg` | `MCDocuments` |

`tlc -config X.cfg Module` checks one; `tlapm M.tla` checks the proofs of `LogCollectionProofs`,
`LogRefinementProofs`, `Induction`, `MapDatabaseProofs`, `BackendsProofs`, `RPCProofs`,
`CallbacksProofs` and `ProviderProofs`. The
largest has 350 000 distinct states, the slowest takes about two minutes. The
definitions named "Mutant of ..." are plausible mistakes; `PROJECT.json` pairs each with
the property that catches it.
