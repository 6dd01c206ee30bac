----------------------------- MODULE MCBackends ------------------------------
(***************************************************************************)
(* Small instances of Backends: three threads, three keys (the third twice  *)
(* as large), two sizes of values; setups for each backend on several       *)
(* streams and on one.  Puts that are atomic store u, the others v.         *)
(***************************************************************************)
EXTENDS Backends

CONSTANTS t1, t2, t3, u, v

MCThreads    == {t1, t2, t3}
MCKeys       == 1 .. 3
MCVals       == {u, v}
MCAtomicVals == {u}
MCKeySize    == <<1, 1, 2>>
MCValSize    == [x \in MCVals |-> IF x = u THEN 1 ELSE 2]

R(op, keys) ==
  [op |-> op, keys |-> keys, vals |-> << >>, mode |-> "none", modes |-> {}, good |-> Len(keys),
   packed |-> FALSE, room |-> <<1, 1, 1>>, vroom |-> <<2, 1, 1>>, from |-> 0, accept |-> MCKeys,
   stop |-> {}, max |-> 3, fails |-> FALSE]

With(r, modes)       == [r EXCEPT !.modes = modes]
Wrong(r)             == [r EXCEPT !.good = 1]
PutOf(keys, w, mode) == [R("put", keys) EXCEPT !.vals = [n \in DOMAIN keys |-> w], !.mode = mode,
                           !.modes = IF mode = "none" THEN {} ELSE {mode}]
Failing(r)           == [r EXCEPT !.fails = TRUE]
From(r, k, modes)    == [r EXCEPT !.from = k, !.modes = modes]
PackedIn(r, s, vs)   == [r EXCEPT !.packed = TRUE, !.room = s, !.vroom = vs, !.max = Len(s)]

\* Listings: a filter that stops; slots too small for the third key; packed
\* buffers with room for two keys and one value, and for one key and none.
Stopping(op) == [R(op, << >>) EXCEPT !.stop = {3}, !.accept = {1, 2}]
Tight(op)    == PackedIn(From(R(op, << >>), 1, {"inclusive"}), <<1, 1, 0, 0>>, <<1, 1, 0, 0>>)
Tighter(op)  == PackedIn(R(op, << >>), <<1, 0, 0, 0>>, <<0, 0, 0, 0>>)
Walk         == [R("iter", << >>) EXCEPT !.max = 2, !.accept = {2, 3}]

Setup(backend, streams, use_lock, r1, r2, r3) ==
  [backend |-> backend, streams |-> streams, use_lock |-> use_lock, batch |-> TRUE,
   ordered |-> TRUE, files |-> TRUE, leaks |-> FALSE, initial |-> <<Absent, <<u>>, <<v>> >>,
   requests |-> [t \in MCThreads |-> IF t = t1 THEN r1 ELSE IF t = t2 THEN r2 ELSE r3]]

Writers(w) == {PutOf(<<1, 3>>, w, "none"), R("erase", <<1, 2>>)}
Faulty(w)  == {Wrong(R("erase", <<2, 3>>)), Wrong(PutOf(<<1, 2>>, w, "none")),
               Wrong(R("exists", <<1, 3>>)), Wrong(R("length", <<2, 1>>)), R("count", << >>)}
Lookups    == {R("exists", <<1, 2>>), R("length", <<2, 1>>), R("get", <<1, 2, 3>>)}
Lists      == {R("listKeys", << >>), Stopping("listKeyValues"), Walk}
OtherLists == {Stopping("listKeys"), From(R("listKeys", << >>), 2, {}), R("listKeyValues", << >>)}
              \cup {Tight(op) : op \in ListOps} \cup {Tighter(op) : op \in ListOps}
Fetches    == {R("fetch", <<1, 2>>), Failing(R("fetch", <<1, 2>>))}
Consumers  == {With(R("get", <<1, 2>>), {"consume"}), With(R("get", <<1>>), {"wait"})}
FetchAway  == With(R("fetch", <<3>>), {"consume"})
Migration  == {R("migrate", << >>)}

NewPuts(w)   == {PutOf(<<1, 2>>, w, "new_only"), PutOf(<<2>>, w, "new_only")}
ExistPuts(w) == {PutOf(<<1>>, w, "exist_only"), PutOf(<<1, 3>>, w, "exist_only")}
Appending(w) == {PutOf(<<2, 2>>, w, "append")}

\* Several streams: a writer, a reader and a migration.
Busy(b, puts, reads) == Setup(b, "many", TRUE, puts, reads, Migration)

\* One stream: a thread that writes, a migration or other writers, and all the
\* other requests.
Alone(b, w, second, lists) ==
  Setup(b, "one", TRUE, Writers(w), second,
        Faulty(w) \cup Lookups \cup Fetches \cup Consumers \cup {FetchAway}
        \cup (IF lists THEN OtherLists \cup {Walk} ELSE {}))

\* The requests that leave handles open: a failing callback, a listing of
\* nothing, an exclusive start on the last key, count.
Leaky(b) == [Setup(b, "one", TRUE, {R("erase", <<1, 2, 3>>)},
   {Failing(R("iter", << >>)), From(R("iter", << >>), 3, {}), R("count", << >>)},
   {R("exists", <<2>>), From(R("iter", << >>), 1, {"inclusive"})}) EXCEPT !.leaks = TRUE]

MCPuts == {r \in UNION {Writers(w) \cup Faulty(w) : w \in MCVals} : r.op = "put"}
          \cup NewPuts(u) \cup NewPuts(v) \cup ExistPuts(u) \cup Appending(u) \cup Appending(v)

PassingSetups ==
  {Busy("leveldb", Writers(u), Lookups \cup Lists), Alone("leveldb", u, Migration, TRUE),
   [Alone("leveldb", v, {}, TRUE) EXCEPT !.batch = FALSE],
   [Busy("leveldb", Writers(v), Lists) EXCEPT !.batch = FALSE], Leaky("leveldb"),
   Busy("rocksdb", Writers(u), Lists), Alone("rocksdb", u, Migration, TRUE),
   [Alone("rocksdb", v, {}, TRUE) EXCEPT !.batch = FALSE], Leaky("rocksdb"),
   Busy("lmdb", Writers(u), Lookups \cup Lists),
   [Alone("lmdb", u, Migration, TRUE) EXCEPT !.requests[t3] = @ \ Faulty(u)],
   [Alone("lmdb", u, {}, TRUE) EXCEPT !.requests[t3] = Faulty(u), !.leaks = TRUE], Leaky("lmdb"),
   Setup("lmdb", "one", TRUE, Writers(u), {R("length", <<2>>)}, Lookups \cup {R("listKeys", << >>)}),
   [Busy("berkeleydb", Writers(v) \cup NewPuts(v), Lookups \cup Lists)
      EXCEPT !.use_lock = FALSE, !.requests[t3] = {R("exists", <<1, 3>>)}],
   [Alone("berkeleydb", v, {R("length", <<1>>)}, FALSE) EXCEPT !.use_lock = FALSE],
   [Setup("berkeleydb", "one", FALSE, {Failing(R("iter", << >>)), R("iter", << >>)},
          {From(R("listKeys", << >>), 2, {}), Tight("listKeys"), Tighter("listKeyValues")}, {})
      EXCEPT !.use_lock = FALSE],
   [Setup("berkeleydb", "one", FALSE, {R("listKeys", << >>), R("iter", << >>)},
          {R("listKeyValues", << >>)}, {}) EXCEPT !.ordered = FALSE],
   Busy("gdbm", Writers(u) \cup NewPuts(u) \cup ExistPuts(u), Lookups),
   [Alone("gdbm", u, {}, FALSE) EXCEPT !.use_lock = FALSE],
   Busy("tkrzw", Writers(v) \cup NewPuts(v) \cup Appending(v), {R("get", <<1, 2, 3>>)} \cup Lists),
   [Alone("tkrzw", v, Migration, TRUE) EXCEPT !.requests[t1] = {R("exists", <<1>>)}],
   Setup("tkrzw", "one", TRUE, Writers(v), Migration, Faulty(v)),
   [Setup("tkrzw", "one", TRUE, {R("listKeys", << >>), R("iter", << >>)}, {R("listKeyValues", << >>)},
          Migration) EXCEPT !.ordered = FALSE, !.files = FALSE],
   Setup("tkrzw", "one", TRUE, {Failing(R("iter", << >>)), From(R("iter", << >>), 2, {})}, {}, Migration),
   Busy("unqlite", Writers(u) \cup Appending(u), Lookups),
   Alone("unqlite", u, Migration, FALSE),
   [Alone("unqlite", u, Migration, FALSE) EXCEPT !.files = FALSE]}
=============================================================================
