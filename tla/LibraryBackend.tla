--------------------------- MODULE LibraryBackend ---------------------------
(***************************************************************************)
(* What the backends over embedded databases have in common: requests that  *)
(* run as user-level threads, a lock that excludes a migration, and calls   *)
(* of a library, each of which is one step.  The modules of the backends    *)
(* say which calls their operations make; MCBackends puts them together.    *)
(*                                                                          *)
(* Keys are numbers, in their order; a value is a sequence of words.  The   *)
(* libraries do not fail, except where a backend misuses them.  A request   *)
(* is a record: op, keys, vals, mode (for a put), modes, good (how many of  *)
(* the keys lie inside of their buffer), packed, room and vroom (sizes of   *)
(* the slots for keys and values), from (0: none), accept and stop (what    *)
(* filter->check and filter->shouldStop say of a key), max and fails (the   *)
(* callback reports an error).                                              *)
(***************************************************************************)
EXTENDS RWLock, Listing

CONSTANTS
  Threads, Keys, Vals,
  KeySize, ValSize,   \* size of each key, of each word of a value
  Absent,             \* KeyNotFound, in place of a value
  Nothing,            \* no snapshot
  AtomicVals,         \* the values that atomic puts store
  Setups,             \* records: backend, streams, use_lock, batch, ordered, files, leaks,
                      \* initial and the requests of each thread
  Puts,               \* the puts among the requests of all setups
  MaxRequests         \* bound: requests issued by a thread

\* Two read sections for each thread: a consumer has that of its erase as well.
ASSUME ThreadsAssumption == IsFiniteSet(Threads) /\ 2 * Cardinality(Threads) <= UnsignedMax

Request(r) ==
  /\ r.op \in {"count", "exists", "length", "get", "fetch", "put", "erase", "migrate",
               "listKeys", "listKeyValues", "iter"}
  /\ r.keys \in Seq(Keys) /\ r.good \in 0 .. Len(r.keys)
  /\ r.room \in Seq(Nat) /\ r.vroom \in Seq(Nat) /\ r.from \in Nat /\ r.max \in Nat
  /\ r.op = "put" => r.vals \in Seq(Vals) /\ Len(r.vals) = Len(r.keys)
  /\ r.op \in {"listKeys", "listKeyValues"} => r.max = Len(r.room) /\ Len(r.vroom) = Len(r.room)

\* What a database may hold.
Databases == [Keys -> {Absent} \cup Seq(Vals)]

ASSUME KeysAssumption  == Keys \subseteq Nat \ {0} /\ IsFiniteSet(Keys)
ASSUME NamesAssumption ==
  Absent \notin Seq(Vals) /\ Nothing \notin Databases /\ {TooSmall, NoMore} \cap Keys = {} /\ TooSmall # NoMore

ASSUME SetupsAssumption ==
  \A s \in Setups : s.initial \in Databases /\ \A t \in Threads : \A r \in s.requests[t] : Request(r)

VARIABLES
  conf,           \* the setup, constant during a behaviour
  db,             \* content of the library's database
  migrated,       \* m_migrated
  th,             \* per thread: pc, request, and the locals of the operation
  open,           \* per thread: handles of the library not yet released
  ever, always,   \* history: pairs present at some time, keys all the time, of a request
  before          \* history: db when the put that holds the write lock began

data  == <<db, ever, always, before>>
calm  == <<conf, migrated>>
vars  == <<conf, db, migrated, th, open, ever, always, before, lock>>

Empty        == [k \in Keys |-> Absent]
Present(d)   == {k \in Keys : d[k] # Absent}
Pairs(d)     == {<<k, d[k]>> : k \in Present(d)}
Length(v)    == Total([n \in 1 .. Len(v) |-> ValSize[v[n]]])

Set(t, r)    == th' = [th EXCEPT ![t] = [x \in DOMAIN @ |-> IF x \in DOMAIN r THEN r[x] ELSE @[x]]]
Open(t, h)   == open' = [open EXCEPT ![t] = [x \in DOMAIN @ |-> IF x \in h THEN @[x] + 1 ELSE @[x]]]
Close(t, h)  == open' = [open EXCEPT ![t] = [x \in DOMAIN @ |-> IF x \in h THEN @[x] - 1 ELSE @[x]]]

\* Every change of the database is seen by the requests that run.
Write(d) == /\ db' = d
            /\ ever' = [t \in Threads |-> ever[t] \cup Pairs(d)]
            /\ always' = [t \in Threads |-> always[t] \cap Present(d)]
-----------------------------------------------------------------------------
(* Scheduling, as in MapDatabase *)

OneStream == conf.streams = "one"
HasLock   == conf.use_lock

\* A get or fetch that has called erase.
Consuming(t) == th[t].op # th[t].req.op

AtYield(t)  == \/ th[t].pc \in {"idle", "call", "transfer"}
               \/ th[t].pc \in {"enter", "mlock"} /\ HasLock /\ (Consuming(t) => writing)
Runnable(t) == OneStream => \A u \in Threads \ {t} : AtYield(u)

At(t, l)  == th[t].pc = l /\ Runnable(t)
In(t, op) == th[t].op = op /\ At(t, "body")
Key(t)    == th[t].req.keys[th[t].idx]
More(t)   == th[t].idx <= Len(th[t].req.keys)
Good(t)   == th[t].idx <= th[t].req.good
Sane(t)   == th[t].req.good = Len(th[t].req.keys)
Seen(t)   == IF th[t].view = Nothing THEN db ELSE th[t].view
Has(t, m) == m \in th[t].req.modes

ReadLock  == IF HasLock THEN Rdlock ELSE UNCHANGED lock
WriteLock == IF HasLock THEN Wrlock ELSE UNCHANGED lock
Release   == IF HasLock THEN Unlock ELSE UNCHANGED lock
-----------------------------------------------------------------------------
(* Requests *)

Idle == [pc |-> "idle", op |-> "none", req |-> [op |-> "none"], idx |-> 1, got |-> << >>,
         view |-> Nothing, at |-> 1, status |-> "OK", left |-> MaxRequests]

Init ==
  /\ conf \in Setups
  /\ db = conf.initial /\ before = db /\ migrated = FALSE
  /\ th = [t \in Threads |-> Idle]
  /\ open = [t \in Threads |-> [txn |-> 0, cursor |-> 0]]
  /\ ever = [t \in Threads |-> {}] /\ always = [t \in Threads |-> {}]
  /\ LockInit

\* A handler refuses a mode that the backend does not support.
Receive(t, supported) ==
  /\ At(t, "idle") /\ th[t].left > 0
  /\ \E r \in conf.requests[t] :
       Set(t, [Idle EXCEPT !.op = r.op, !.req = r, !.left = th[t].left - 1,
                 !.pc     = IF r.modes \subseteq supported THEN "enter" ELSE "idle",
                 !.status = IF r.modes \subseteq supported THEN "OK" ELSE "Mode"])
  /\ ever' = [ever EXCEPT ![t] = Pairs(db)]
  /\ always' = [always EXCEPT ![t] = Present(db)]
  /\ UNCHANGED <<calm, db, before, open, lock>>

\* The erase that a consuming get or fetch calls returns into its caller, whose
\* scoped lock is destroyed after that of erase.
Back(t) == IF Consuming(t) THEN "unlock2" ELSE "idle"

Leave(t, s)  == Set(t, [pc |-> Back(t), status |-> s, view |-> Nothing])

\* Mutant of Return: the lock is not left.
ReturnLocked(t, s) == UNCHANGED lock /\ Leave(t, s)

Return(t, s) == Release /\ Leave(t, s)

SecondUnlock(t) ==
  /\ At(t, "unlock2")
  /\ Release /\ Set(t, [pc |-> "idle"])
  /\ UNCHANGED <<calm, data, open>>

\* An operation that only returns a status.
Refuse(t, op, s) ==
  /\ At(t, "enter") /\ th[t].op = op
  /\ Leave(t, s)
  /\ UNCHANGED <<calm, data, open, lock>>

\* The scoped lock, then if(m_migrated).
EnterRefused(t, op) ==
  /\ At(t, "enter") /\ th[t].op = op /\ migrated
  /\ HasLock => ~writing
  /\ Leave(t, "Migrated")
  /\ UNCHANGED <<calm, data, open, lock>>

\* The same, for an operation that then only returns a status.
RefuseLocked(t, op, s) == EnterRefused(t, op) \/ (~migrated /\ (HasLock => ~writing) /\ Refuse(t, op, s))

EnterAt(t, op, at) ==
  /\ At(t, "enter") /\ th[t].op = op /\ ~migrated
  /\ ReadLock /\ Set(t, [pc |-> "body", at |-> at])
  /\ UNCHANGED <<calm, data, open>>

Enter(t, op) == EnterRefused(t, op) \/ EnterAt(t, op, 1)

\* A put that adds up the sizes before it takes the lock of the writers.
EnterWriting(t, op) ==
  /\ At(t, "enter") /\ th[t].op = op
  /\ IF ~Sane(t) THEN Leave(t, "InvalidArg") /\ UNCHANGED <<lock, before>>
     ELSE IF migrated
       THEN (HasLock => CanWrite) /\ Leave(t, "Migrated") /\ UNCHANGED <<lock, before>>
       ELSE WriteLock /\ Set(t, [pc |-> "body"]) /\ before' = db
  /\ UNCHANGED <<calm, db, ever, always, open>>

\* A snapshot of the library (NewIterator, mdb_txn_begin) and the handles it takes.
Snapshot(t, op, h, at) ==
  /\ At(t, "enter") /\ th[t].op = op /\ ~migrated
  /\ ReadLock /\ Open(t, h) /\ Set(t, [pc |-> "body", view |-> db, at |-> at])
  /\ UNCHANGED <<calm, data>>

\* Sizes that go beyond the buffer: if(offset + ksizes[i] > keys.size).
Overrun(t, op) ==
  /\ In(t, op) /\ More(t) /\ ~Good(t) /\ Return(t, "InvalidArg")
  /\ UNCHANGED <<calm, data, open>>

\* The sizes of a batch are added up before anything is written.
Insane(t, op) ==
  /\ In(t, op) /\ ~Sane(t) /\ Return(t, "InvalidArg")
  /\ UNCHANGED <<calm, data, open>>
-----------------------------------------------------------------------------
(* exists and length look their keys up one by one *)

Found(t) == Seen(t)[Key(t)] # Absent
Size(t)  == IF Found(t) THEN Length(Seen(t)[Key(t)]) ELSE Absent

Look(t, op, x) ==
  /\ In(t, op) /\ More(t) /\ Good(t)
  /\ Set(t, [idx |-> th[t].idx + 1, got |-> Append(th[t].got, x)])
  /\ UNCHANGED <<calm, data, open, lock>>

\* Mutant of Done: the transaction is not ended.
DoneOpen(t, op, h) == /\ In(t, op) /\ ~More(t) /\ ~(op # "erase" /\ Has(t, "consume"))
                      /\ Return(t, "OK") /\ UNCHANGED <<calm, data, open>>

Done(t, op, h) == /\ In(t, op) /\ ~More(t) /\ ~(op # "erase" /\ Has(t, "consume"))
                  /\ Return(t, "OK") /\ Close(t, h)
                  /\ UNCHANGED <<calm, data>>

LookEach(t, op, x) == Enter(t, op) \/ Look(t, op, x) \/ Overrun(t, op) \/ Done(t, op, {})
-----------------------------------------------------------------------------
(* get and fetch *)

Remaining(t) ==
  Total(th[t].req.vroom) - Total([n \in DOMAIN th[t].got |->
     IF th[t].got[n] \in {Absent, TooSmall} THEN 0 ELSE Length(th[t].got[n])])
Fits(t) == Size(t) <= IF th[t].req.packed THEN Remaining(t) ELSE th[t].req.vroom[th[t].idx]

\* Mutant of Copy: a key that is not found takes no slot.
CopyShifting(t) ==
  /\ In(t, "get") /\ More(t)
  /\ Set(t, [idx |-> th[t].idx + 1,
              got |-> IF ~Found(t) THEN th[t].got
                      ELSE Append(th[t].got, IF Fits(t) THEN Seen(t)[Key(t)] ELSE TooSmall)])
  /\ UNCHANGED <<calm, data, open, lock>>

\* The value if it fits in its slot or in what is left of the packed buffer;
\* once a packed value does not fit, all others are marked too.
Copy(t) ==
  /\ In(t, "get") /\ More(t)
  /\ LET r == th[t] n == Len(r.req.keys) IN
     IF Found(t) /\ ~Fits(t) /\ r.req.packed
       THEN Set(t, [idx |-> n + 1,
                    got |-> r.got \o [m \in 1 .. n - r.idx + 1 |-> TooSmall]])
       ELSE Set(t, [idx |-> r.idx + 1,
                    got |-> Append(r.got, IF ~Found(t) THEN Absent
                                          ELSE IF Fits(t) THEN Seen(t)[Key(t)] ELSE TooSmall)])
  /\ UNCHANGED <<calm, data, open, lock>>

\* fetch hands every value to a callback, which sends it to the client.
Call(t) ==
  /\ In(t, "fetch") /\ More(t)
  /\ Set(t, [pc |-> "call", idx |-> th[t].idx + 1, got |-> Append(th[t].got, Seen(t)[Key(t)])])
  /\ UNCHANGED <<calm, data, open, lock>>

CallOK(t, op) ==
  /\ At(t, "call") /\ th[t].op = op /\ ~th[t].req.fails
  /\ Set(t, [pc |-> "body"])
  /\ UNCHANGED <<calm, data, open, lock>>

\* h: the handles that are released before the status of the callback is returned.
CallFailed(t, op, h) ==
  /\ At(t, "call") /\ th[t].op = op /\ th[t].req.fails
  /\ Return(t, "Callback") /\ Close(t, h)
  /\ UNCHANGED <<calm, data>>

Answered(t, op, h) == CallOK(t, op) \/ CallFailed(t, op, h)

\* YOKAN_MODE_CONSUME: erase is called with the same keys, inside of the scoped
\* lock or, if unlocks, after it was left.
Consume(t, op, unlocks, h) ==
  /\ In(t, op) /\ ~More(t) /\ Has(t, "consume")
  /\ IF unlocks THEN Release ELSE UNCHANGED lock
  /\ Close(t, h)
  /\ Set(t, [pc |-> "enter", op |-> "erase", idx |-> 1, view |-> Nothing])
  /\ UNCHANGED <<calm, data>>

GetEach(t, unlocks)   == Enter(t, "get") \/ Copy(t) \/ Consume(t, "get", unlocks, {})
                         \/ Done(t, "get", {})
FetchEach(t, unlocks) == Enter(t, "fetch") \/ Call(t) \/ Answered(t, "fetch", {})
                         \/ Consume(t, "fetch", unlocks, {}) \/ Done(t, "fetch", {})
-----------------------------------------------------------------------------
(* put and erase *)

Stored(d, k, v)   == [d EXCEPT ![k] = <<v>>]

\* Mutant of Appended: what was there is dropped.
AppendedOver(d, k, v) == Stored(d, k, v)

Appended(d, k, v) == [d EXCEPT ![k] = IF @ = Absent THEN <<v>> ELSE Append(@, v)]

\* What d becomes with the first n pairs of a put, and with all of them.
Stages(d, r) ==
  LET stage[n \in 0 .. Len(r.keys)] ==
        IF n = 0 THEN d ELSE Stored(stage[n - 1], r.keys[n], r.vals[n])
  IN  stage
Batch(d, r) == Stages(d, r)[Len(r.keys)]

\* All the pairs in one call (a batch or a transaction).
PutBatch(t) ==
  /\ In(t, "put") /\ Sane(t)
  /\ Write(Batch(db, th[t].req))
  /\ Return(t, "OK")
  /\ UNCHANGED <<calm, before, open>>

\* One pair: v is the value at hand, d what the library's call makes of db.
Value(t) == th[t].req.vals[th[t].idx]
PutPair(t, d) ==
  /\ In(t, "put") /\ Sane(t) /\ More(t)
  /\ Write(d) /\ Set(t, [idx |-> th[t].idx + 1])
  /\ UNCHANGED <<calm, before, open, lock>>

\* A key the mode refuses is an error only when it is alone.
PutRefused(t, s) ==
  /\ In(t, "put") /\ Sane(t) /\ More(t)
  /\ IF Len(th[t].req.keys) = 1 THEN Return(t, s)
     ELSE Set(t, [idx |-> th[t].idx + 1]) /\ UNCHANGED lock
  /\ UNCHANGED <<calm, data, open>>

EraseBatch(t) ==
  /\ In(t, "erase") /\ Sane(t)
  /\ Write([k \in Keys |-> IF \E n \in DOMAIN th[t].req.keys : th[t].req.keys[n] = k
                             THEN Absent ELSE db[k]])
  /\ Return(t, "OK")
  /\ UNCHANGED <<calm, before, open>>

EraseKey(t) ==
  /\ In(t, "erase") /\ More(t) /\ Good(t)
  /\ Write([db EXCEPT ![Key(t)] = Absent]) /\ Set(t, [idx |-> th[t].idx + 1])
  /\ UNCHANGED <<calm, before, open, lock>>
EraseEach(t) == Enter(t, "erase") \/ EraseKey(t) \/ Overrun(t, "erase") \/ Done(t, "erase", {})
-----------------------------------------------------------------------------
(* listKeys, listKeyValues and iter *)

\* Mutant of FirstPos: YOKAN_MODE_INCLUSIVE is ignored.
FirstPosExclusive(t) == th[t].req.from + 1

\* Mutant of FirstPos: fromKey itself is never left out.
FirstPosInclusive(t) == Max({th[t].req.from, 1})

\* Where the walk begins.
FirstPos(t) == IF th[t].req.from # 0 /\ Has(t, "inclusive") THEN th[t].req.from
               ELSE th[t].req.from + 1

Ahead(t) == {k \in Present(Seen(t)) : k >= th[t].at}
Full(t)  == th[t].req.max # 0 /\ Len(th[t].got) = th[t].req.max
Over(t)  == \/ Full(t) \/ Ahead(t) = {}
            \/ Ahead(t) # {} /\ Min(Ahead(t)) \in th[t].req.stop \ th[t].req.accept

\* One key: passed over, kept, or (iter) handed to the callback.
Visit(t, op, to) ==
  /\ In(t, op) /\ ~Over(t)
  /\ LET k == Min(Ahead(t)) IN
     IF k \in th[t].req.accept
       THEN Set(t, [pc |-> to, at |-> k + 1, got |-> Append(th[t].got, <<k, Seen(t)[k]>>)])
       ELSE Set(t, [at |-> k + 1])
  /\ UNCHANGED <<calm, data, open, lock>>

Listed(t)  == [n \in DOMAIN th[t].got |-> th[t].got[n][1]]
Values(t)  == [n \in DOMAIN th[t].got |-> th[t].got[n][2]]
KSizes(t)  == [n \in DOMAIN th[t].got |-> KeySize[th[t].got[n][1]]]
VSizes(t)  == [n \in DOMAIN th[t].got |-> Length(th[t].got[n][2])]
Short(t)   == Fitting(KSizes(t), Total(th[t].req.room)) < Len(th[t].got)
VShort(t)  == Fitting(VSizes(t), Total(th[t].req.vroom)) < Len(th[t].got)

\* What the caller's arrays hold in the end.  Packed, listKeys may give up at
\* the first key that does not fit, listKeyValues when neither array has room.
KeySlots(t, givesUp) ==
  LET r == th[t].req IN
  IF r.packed THEN CopyPacked(Listed(t), KSizes(t), Len(r.room), Total(r.room), givesUp)
  ELSE CopySlots(Listed(t), KSizes(t), r.room)
ValSlots(t, givesUp) ==
  LET r == th[t].req IN
  IF r.packed THEN CopyPacked(Values(t), VSizes(t), Len(r.vroom), Total(r.vroom), givesUp)
  ELSE CopySlots(Values(t), VSizes(t), r.vroom)

Listing(t, op, givesUp, h) ==
  /\ In(t, op) /\ Over(t)
  /\ Release /\ Close(t, h)
  /\ LET ks == KeySlots(t, givesUp)
         vs == IF op = "listKeys" THEN ks ELSE ValSlots(t, givesUp)
     IN Set(t, [pc |-> "idle", view |-> Nothing,
                got |-> [n \in DOMAIN ks |-> <<ks[n], vs[n]>>]])
  /\ UNCHANGED <<calm, data>>

IterEnd(t, h) ==
  /\ In(t, "iter") /\ Over(t)
  /\ Return(t, "OK") /\ Close(t, h)
  /\ UNCHANGED <<calm, data>>
-----------------------------------------------------------------------------
(* Migration: the handle holds the lock of the writers until it is destroyed *)

\* m_migrated is looked at before the lock is taken.
CheckMigrated(t) ==
  /\ At(t, "enter") /\ th[t].op = "migrate"
  /\ Set(t, IF migrated THEN [pc |-> "idle", status |-> "Migrated"]
            ELSE [pc |-> "mlock", status |-> "OK"])
  /\ UNCHANGED <<calm, data, open, lock>>

\* Mutant of HandOver: the lock is left once the files are listed.
HandOverUnlocked(t) ==
  /\ At(t, "mlock") /\ (HasLock => CanWrite)
  /\ Set(t, [pc |-> "transfer", view |-> db])
  /\ UNCHANGED <<calm, data, open, lock>>

\* The constructor of the handle; the files hold what the database holds.
HandOver(t) ==
  /\ At(t, "mlock") /\ WriteLock
  /\ Set(t, [pc |-> "transfer", view |-> db])
  /\ UNCHANGED <<calm, data, open>>

Cancel(t) == /\ At(t, "transfer") /\ Return(t, "Canceled")
             /\ UNCHANGED <<calm, data, open>>

\* The destructor: the files are removed and m_migrated is set.
Removed(t) ==
  /\ At(t, "transfer")
  /\ migrated' = TRUE /\ Write(Empty) /\ Return(t, "OK")
  /\ UNCHANGED <<conf, before, open>>
=============================================================================
