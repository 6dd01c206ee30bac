--------------------------- MODULE MCMapDatabase ----------------------------
(***************************************************************************)
(* Small instances of the backends in memory: three threads, two keys, and *)
(* setups that say which requests each thread may send.                    *)
(***************************************************************************)
EXTENDS InMemoryBackends

CONSTANTS t1, t2, t3, a, b, u, v

MCThreads == {t1, t2, t3}
MCKeys    == {a, b}
MCVals    == {u, v}

Request(op, keys) ==
  [op |-> op, keys |-> keys, vals |-> << >>, mode |-> "none",
   wait |-> FALSE, notify |-> FALSE, consume |-> FALSE, small |-> FALSE,
   fails |-> FALSE]

PutOf(keys, vals, mode, notify) ==
  [Request("put", keys) EXCEPT !.vals = vals, !.mode = mode, !.notify = notify]

Await(op, keys)   == [Request(op, keys) EXCEPT !.wait = TRUE]
ConsumeOf(keys)   == [Request("get", keys) EXCEPT !.consume = TRUE]

Setup(streams, use_lock, shutdown, r1, r2, r3) ==
  [backend |-> "map", streams |-> streams, use_lock |-> use_lock, shutdown |-> shutdown,
   requests |-> [t \in MCThreads |-> IF t = t1 THEN r1 ELSE IF t = t2 THEN r2 ELSE r3]]

\* Several streams: writers, readers and listings on the lock, two sleepers on
\* different keys.
Concurrent == Setup("many", TRUE, FALSE,
  {PutOf(<<b, a>>, <<u, v>>, "append", TRUE), PutOf(<<b, b>>, <<v, u>>, "new_only", TRUE)},
  {Await("fetch", <<b>>), Request("iter", <<a, b>>)},
  {Await("length", <<a>>), PutOf(<<a, b>>, <<v, v>>, "exist_append", FALSE)})

\* One stream and the lock: a migration, and requests that it blocks.
Migrating == Setup("one", TRUE, FALSE,
  {PutOf(<<a, b>>, <<u, v>>, "none", TRUE), PutOf(<<a>>, <<v>>, "new_only", FALSE),
   Request("count", << >>)},
  {Await("get", <<a>>), PutOf(<<b>>, <<v>>, "exist_only", TRUE)},
  {Request("migrate", << >>), Request("exists", <<a, b>>)})

\* One stream and no lock: consumers, erasures and sleepers at finalization.
Draining == Setup("one", FALSE, TRUE,
  {PutOf(<<a, b>>, <<u, v>>, "none", TRUE), PutOf(<<b, a>>, <<u, v>>, "append", FALSE),
   Request("erase", <<a, b>>)},
  {[ConsumeOf(<<a>>) EXCEPT !.wait = TRUE], ConsumeOf(<<a, b>>)},
  {Await("erase", <<b>>), Request("list", <<a, b>>)})

\* The other backends: sleepers and consumers, callbacks that fail, a migration.
Failing(r)   == [r EXCEPT !.fails = TRUE]
Of(back, s)  == [s EXCEPT !.backend = back]
SetPuts      == {PutOf(<<a, b>>, <<u, u>>, "new_only", FALSE), PutOf(<<a>>, <<u>>, "new_only", FALSE)}
OtherPuts    == {PutOf(<<a>>, <<u>>, "exist_only", FALSE), PutOf(<<b, a>>, <<u, u>>, "none", FALSE)}

\* Without the lock, a thread in a callback must be the only one that writes; with
\* it, the one that migrates.
FetchAway(keys) == [ConsumeOf(keys) EXCEPT !.op = "fetch", !.wait = TRUE]
Unordered == Of("unordered_map", Setup("one", FALSE, FALSE,
  {PutOf(<<b, a>>, <<u, v>>, "append", TRUE), Request("erase", <<a>>), FetchAway(<<a, b>>),
   Failing(Request("fetch", <<a, b>>))},
  {Request("length", <<a, b>>), Request("list", << >>)}, {Await("exists", <<b>>)}))

UnorderedMigrating == Of("unordered_map", Setup("one", TRUE, FALSE,
  {PutOf(<<a>>, <<v>>, "new_only", FALSE), Request("exists", <<a>>), Request("count", << >>)},
  {PutOf(<<a, b>>, <<u, v>>, "none", TRUE), Await("get", <<b>>)},
  {Request("migrate", << >>), Request("fetch", <<a>>)}))

SetDraining == Of("set", Setup("one", FALSE, TRUE,
  SetPuts \cup {Request("erase", <<a, b>>)}, OtherPuts \cup {ConsumeOf(<<a>>)},
  {Await("get", <<b>>), Request("list", <<a, b>>)}))

SetMigrating == Of("set", Setup("one", TRUE, FALSE,
  SetPuts, OtherPuts \cup {Request("exists", <<a, b>>)},
  {Request("migrate", << >>), Failing(Request("iter", <<a, b>>)), Failing(Request("fetch", <<a>>))}))

UnorderedSets == Of("unordered_set", Setup("one", FALSE, FALSE,
  SetPuts \cup {Request("erase", <<a, b>>), Failing(Request("fetch", <<a>>)),
                [FetchAway(<<a>>) EXCEPT !.wait = FALSE], ConsumeOf(<<a>>)},
  {Await("get", <<a>>), Request("get", <<a>>)}, {Request("iter", << >>)}))

UnorderedSetMigrating == Of("unordered_set", Setup("one", TRUE, FALSE,
  SetPuts \cup {Request("length", <<a>>)},
  OtherPuts \cup {Request("exists", <<a, b>>)},
  {Request("migrate", << >>), Request("fetch", <<b>>), Request("count", << >>)}))

PassingSetups == {Concurrent, Migrating, Draining, Unordered, UnorderedMigrating, SetDraining,
                  SetMigrating, UnorderedSets, UnorderedSetMigrating}

----------------------------------------------------------------------------
(* Setups in which the code does not keep the properties; the README says   *)
(* which property and why.                                                  *)

\* A sleeper on a key of a set, and the put that should wake it.
SetNotifySetup == {Of("set", Setup("one", TRUE, FALSE,
  {PutOf(<<a>>, <<u>>, "none", TRUE)}, {Await("get", <<a>>)}, {Request("count", << >>)}))}

\* A consumer and a writer behind the lock.
ConsumeSetup == {Setup("one", TRUE, FALSE, {PutOf(<<a>>, <<u>>, "none", FALSE)},
                       {ConsumeOf(<<a>>)}, {Request("count", << >>)})}

\* A consumer, and a writer that may come between its lookup and its erasure.
ConsumeRaceSetup == {Setup("many", TRUE, FALSE,
  {PutOf(<<a>>, <<u>>, "none", FALSE), PutOf(<<a>>, <<v>>, "none", FALSE)},
  {ConsumeOf(<<a>>)}, {Request("count", << >>)})}

\* A consumer whose buffer is too small.
SmallSetup == {Setup("one", FALSE, FALSE, {PutOf(<<a>>, <<u>>, "none", FALSE)},
  {[ConsumeOf(<<a>>) EXCEPT !.small = TRUE]}, {Request("count", << >>)})}

\* An erasure during a migration.
EraseSetup == {Setup("one", TRUE, FALSE, {PutOf(<<a>>, <<u>>, "none", FALSE)},
                     {Request("erase", <<a>>)}, {Request("migrate", << >>)})}

\* Two requests asleep on one key.
TwoWaitersSetup == {Setup("one", TRUE, FALSE, {Request("count", << >>)},
  {Await("get", <<a>>)}, {Await("get", <<a>>)})}

\* A sleeper at finalization, with the lock.
ShutdownSetup == {Setup("one", TRUE, TRUE, {Request("count", << >>)},
  {Await("get", <<a>>)}, {Request("count", << >>)})}
=============================================================================
