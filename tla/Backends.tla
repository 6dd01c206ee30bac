------------------------------ MODULE Backends -------------------------------
(***************************************************************************)
(* The backends over embedded databases, side by side: a setup names one of *)
(* them and the requests that run against it.                               *)
(***************************************************************************)
EXTENDS LevelDB, RocksDB, LMDB, BerkeleyDB, GDBM, Tkrzw, UnQLite

Step(t) ==
  \/ conf.backend = "leveldb" /\ leveldb_Step(t)
  \/ conf.backend = "rocksdb" /\ rocksdb_Step(t)
  \/ conf.backend = "lmdb" /\ lmdb_Step(t)
  \/ conf.backend = "berkeleydb" /\ berkeleydb_Step(t)
  \/ conf.backend = "gdbm" /\ gdbm_Step(t)
  \/ conf.backend = "tkrzw" /\ tkrzw_Step(t)
  \/ conf.backend = "unqlite" /\ unqlite_Step(t)

Next == \E t \in Threads : Step(t)

\* Argobots runs every thread that can run; a thread that has no request need
\* not get one.
Fairness == \A t \in Threads : WF_vars(th[t].pc # "idle" /\ Step(t))

Spec == Init /\ [][Next]_vars /\ Fairness
-----------------------------------------------------------------------------
(* Properties *)

ListOps  == {"listKeys", "listKeyValues"}

\* Between requests no transaction, iterator or cursor of the library is left
\* open (lmdb.cpp:280-319, leveldb.cpp:421-655, berkeleydb.cpp:545-818), in the
\* setups without the requests that are known to leave one.
HandlesReleased == conf.leaks \/ \A t \in Threads : th[t].pc = "idle" => open[t] = [txn |-> 0, cursor |-> 0]

\* What a lookup reports was the state of the key at some time of the request,
\* whatever the others wrote meanwhile; a key that was there all the time is
\* not missed.
Answers(t) == th[t].got
ReadsCurrent ==
  \A t \in Threads : th[t].req.op \in {"exists", "length", "get", "fetch"} =>
    \A n \in DOMAIN Answers(t) :
      LET k == th[t].req.keys[n]  a == Answers(t)[n]
          values == {p[2] : p \in {q \in ever[t] : q[1] = k}}
      IN CASE th[t].req.op = "exists" -> (a => values # {}) /\ (k \in always[t] => a)
           [] th[t].req.op = "length" -> \/ a = Absent /\ k \notin always[t]
                                         \/ \E v \in values : a = Length(v)
           [] OTHER -> \/ a = Absent /\ k \notin always[t]
                       \/ a = TooSmall /\ values # {}
                       \/ a = TooSmall /\ th[t].req.packed
                       \/ a \in values

\* A listing is in order, each key and value it names was in the database
\* during the request, passes the filter and lies behind from_key.
Wanted(t) == {k \in th[t].req.accept : k > th[t].req.from \/ (Has(t, "inclusive") /\ k = th[t].req.from)}
Slots(t)  == [n \in DOMAIN th[t].got |-> th[t].got[n][1]]
Named(t)  == {Slots(t)[n] : n \in DOMAIN Slots(t)} \cap Keys
Listings  == {t \in Threads : th[t].pc = "idle" /\ th[t].req.op \in ListOps
                              /\ th[t].status \in {"OK", "NotFound"}}
SoundListing(t) ==
  /\ \A m, n \in DOMAIN Slots(t) : m < n /\ {Slots(t)[m], Slots(t)[n]} \subseteq Keys
                                     => Slots(t)[m] < Slots(t)[n]
  /\ Named(t) \subseteq Wanted(t)
  /\ \A n \in DOMAIN th[t].got : th[t].got[n][1] \in Keys =>
       LET got == th[t].got[n][2] IN
       \E p \in ever[t] : p[1] = th[t].got[n][1]
                          /\ (th[t].req.op = "listKeyValues" => got \in {p[2], TooSmall})
ListingSound == \A t \in Listings : SoundListing(t)

\* A listing that says there are no more keys has passed over none that was
\* there all the time: the client pages through the database with from_key
\* until it sees YOKAN_NO_MORE_KEYS (include/yokan/database.h:755-756).
Count(t, S) == Cardinality({n \in DOMAIN Slots(t) : Slots(t)[n] \in S})
CompleteListing(t) ==
  /\ th[t].status = "OK"
  /\ Count(t, {NoMore}) > 0 =>
       /\ Wanted(t) \cap always[t] \subseteq Named(t) \/ Count(t, {TooSmall}) > 0
       /\ Count(t, Keys \cup {TooSmall}) >= Cardinality(Wanted(t) \cap always[t])
ListingComplete == \A t \in Listings : CompleteListing(t)

\* What a client sees of the keys when it pages through the database, next to
\* writers: nothing that was not there, and nothing left out.
ListingExact == ListingSound /\ ListingComplete

\* What a migration hands over is what the database holds when it is given up:
\* no update is acknowledged by the source and missing from the target.
HandoverComplete ==
  [][~migrated /\ migrated' => \E t \in Threads : th[t].pc = "transfer" /\ th[t].view = db]_vars

\* Every request ends.
RequestsEnd == \A t \in Threads : th[t].pc # "idle" ~> th[t].pc = "idle"

\* Seen from outside, a put that is a batch, a transaction or a write section
\* happens at once; the others happen pair by pair.
Sound    == {r \in Puts : r.good = Len(r.keys)}
Atomic   == {r \in Sound : \A n \in DOMAIN r.vals : r.vals[n] \in AtomicVals}
Single(r, n) == [keys |-> <<r.keys[n]>>, vals |-> <<r.vals[n]>>, mode |-> r.mode]
Visible  == IF \E t \in Threads : th[t].op = "put" /\ th[t].pc = "body"
                                   /\ conf.backend \in {"gdbm", "unqlite"} THEN before ELSE db
Abstract == INSTANCE KVStore WITH
  store    <- Visible,
  Batches  <- Atomic \cup UNION {{Single(r, n) : n \in DOMAIN r.keys} : r \in Sound \ Atomic},
  Contents <- {s.initial : s \in Setups}
ImplementsKVStore == Abstract!Spec
=============================================================================
