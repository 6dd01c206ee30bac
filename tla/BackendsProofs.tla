--------------------------- MODULE BackendsProofs ---------------------------
(***************************************************************************)
(* The safety properties of the backends over embedded databases, for any   *)
(* number of threads, keys, values and requests.  The actions of the seven  *)
(* modules come down to a few kinds of steps of a thread (Kind); each       *)
(* invariant looks at these.                                                *)
(***************************************************************************)
EXTENDS Backends, FiniteSetTheorems, SequenceTheorems, Induction, TLAPS

-----------------------------------------------------------------------------
(* Types *)

Fields  == {"pc", "op", "req", "idx", "got", "view", "at", "status", "left"}
Places  == {"idle", "enter", "body", "call", "unlock2", "mlock", "transfer"}
Handles == {"txn", "cursor"}
Lookups == {"exists", "length", "get", "fetch"}
Walks   == {"listKeys", "listKeyValues", "iter"}

\* A sequence, of whatever.
IsList(s) == s \in Seq({s[n] : n \in DOMAIN s})

\* Where a thread is in its request; an erase may be that of a consumer.
Placed(t) ==
  LET r == th[t] IN
  /\ r.req \in conf.requests[t] /\ Request(r.req)
  /\ r.op \in {r.req.op, "erase"}
  /\ r.op # r.req.op => r.req.op \in {"get", "fetch"} /\ Has(t, "consume") /\ r.pc \in {"enter", "body", "unlock2"}
  /\ r.pc = "unlock2" => r.op # r.req.op
  /\ r.pc \in {"mlock", "transfer"} => r.op = "migrate" /\ conf.backend # "berkeleydb"
  /\ r.pc = "call" => r.op \in {"fetch", "iter"}
  /\ r.pc = "body" => r.op # "migrate"
  /\ r.pc \in {"enter", "unlock2", "mlock"} => r.view = Nothing

TypeInv ==
  /\ conf \in Setups /\ migrated \in BOOLEAN
  /\ DOMAIN th = Threads
  /\ \A t \in Threads :
       /\ DOMAIN th[t] = Fields /\ th[t].pc \in Places
       /\ th[t].idx \in Nat \ {0}
       /\ IsList(th[t].got)
       /\ th[t].pc # "idle" => Placed(t)
       /\ th[t].req = [op |-> "none"] \/ th[t].req \in conf.requests[t]
  /\ open \in [Threads -> [Handles -> Int]]
  /\ DOMAIN ever = Threads /\ DOMAIN always = Threads

-----------------------------------------------------------------------------
(* Kinds of steps *)

\* What an operation takes from the library until it returns.
Takes(t) ==
  IF conf.backend \in {"leveldb", "rocksdb", "berkeleydb"} /\ th[t].op \in Walks THEN {"cursor"}
  ELSE IF conf.backend = "lmdb" /\ th[t].op \in Lookups \cup {"count"} THEN {"txn"}
  ELSE IF conf.backend = "lmdb" /\ th[t].op \in Walks THEN {"txn", "cursor"}
  ELSE {}

\* Where the code returns without releasing it.
Leaves(t) ==
  \/ th[t].op = "iter" /\ th[t].req.fails /\ conf.backend \in {"leveldb", "rocksdb", "lmdb"}
  \/ conf.backend = "lmdb" /\ th[t].op = "count"
  \/ conf.backend = "lmdb" /\ th[t].op \in {"exists", "length"} /\ More(t) /\ ~Good(t)
  \/ conf.backend = "lmdb" /\ th[t].op \in Walks /\ NothingAhead(t)

Closes(t) == \E h \in SUBSET Handles : Close(t, h) /\ (h = Takes(t) \/ Leaves(t))

\* Reads that see the database as it was when they began.
Snaps(t) ==
  \/ conf.backend \in {"leveldb", "rocksdb"} /\ th[t].op \in Walks
  \/ conf.backend = "lmdb" /\ th[t].op \in Lookups \cup Walks \cup {"count"}

\* Puts that are one write section of the lock.
Whole(t) == th[t].op = "put" /\ conf.backend \in {"gdbm", "unqlite"}

\* Puts that are one step of the database, seen from outside.
AtOnce == \/ conf.backend \in {"lmdb", "gdbm", "unqlite"}
          \/ conf.backend \in {"leveldb", "rocksdb"} /\ conf.batch

Supported ==
  CASE conf.backend = "berkeleydb" -> berkeleydb_supportsMode
    [] conf.backend = "gdbm"       -> gdbm_supportsMode
    [] conf.backend = "tkrzw"      -> tkrzw_supportsMode
    [] conf.backend = "unqlite"    -> unqlite_supportsMode
    [] OTHER                       -> leveldb_supportsMode

Same(t)  == th'[t].op = th[t].op /\ th'[t].req = th[t].req
Still(t) == th'[t].idx = th[t].idx /\ th'[t].got = th[t].got
Goes(t, from, to) == th[t].pc = from /\ th'[t].pc = to

Receives(t) ==
  /\ th[t].pc = "idle"
  /\ th'[t].req \in conf.requests[t] /\ th'[t].op = th'[t].req.op
  /\ th'[t].pc = IF th'[t].req.modes \subseteq Supported THEN "enter" ELSE "idle"
  /\ th'[t].status = IF th'[t].req.modes \subseteq Supported THEN "OK" ELSE "Mode"
  /\ th'[t].idx = 1 /\ th'[t].got = << >> /\ th'[t].view = Nothing
  /\ ever' = [ever EXCEPT ![t] = Pairs(db)] /\ always' = [always EXCEPT ![t] = Present(db)]
  /\ UNCHANGED <<migrated, db, before, open, lock>>

Refuses(t) ==
  /\ Goes(t, "enter", Back(t)) /\ Same(t) /\ Still(t) /\ th'[t].view = Nothing
  /\ th'[t].status \in {"Migrated", "NotSupported", "Other", "InvalidArg"}
  /\ UNCHANGED <<migrated, data, open, lock>>

Enters(t) ==
  /\ Goes(t, "enter", "body") /\ Same(t) /\ Still(t) /\ ~Whole(t) /\ th[t].op # "migrate"
  /\ th'[t].view = IF Snaps(t) THEN db ELSE th[t].view
  /\ th'[t].status = th[t].status
  /\ th[t].op \in Walks =>
       th'[t].at = IF conf.backend = "berkeleydb" THEN SetRange(t) ELSE FirstPos(t)
  /\ Open(t, Takes(t))
  /\ conf.backend # "berkeleydb" => ~migrated /\ ReadLock
  /\ UNCHANGED <<migrated, data>>

EntersWriting(t) ==
  /\ Goes(t, "enter", "body") /\ Same(t) /\ Still(t) /\ Whole(t) /\ Sane(t) /\ ~migrated
  /\ th'[t].view = th[t].view
  /\ WriteLock /\ before' = db
  /\ UNCHANGED <<migrated, db, ever, always, open>>

\* What a lookup says of the key it has come to.
Says(t, a) ==
  CASE th[t].op = "exists" -> a = Found(t)
    [] th[t].op = "length" -> a = Size(t)
    [] th[t].op = "get"    -> a = (IF Found(t) THEN Seen(t)[Key(t)] ELSE Absent) \/ (Found(t) /\ a = TooSmall)
    [] OTHER               -> a = Seen(t)[Key(t)]

Looks(t) ==
  /\ Goes(t, "body", IF th[t].op = "fetch" THEN "call" ELSE "body") /\ Same(t)
  /\ th[t].op \in Lookups /\ More(t) /\ th'[t].view = th[t].view
  /\ \/ /\ th'[t].idx = th[t].idx + 1
        /\ \E a : Says(t, a) /\ th'[t].got = Append(th[t].got, a)
     \/ /\ th[t].op = "get" /\ th[t].req.packed
        /\ th'[t].idx = Len(th[t].req.keys) + 1
        /\ th'[t].got = th[t].got \o [m \in 1 .. Len(th[t].req.keys) - th[t].idx + 1 |-> TooSmall]
  /\ UNCHANGED <<migrated, data, open, lock>>

Visits(t) ==
  /\ th[t].pc = "body" /\ Same(t) /\ th[t].op \in Walks /\ ~Over(t)
  /\ th'[t].view = th[t].view /\ th'[t].idx = th[t].idx /\ th'[t].status = th[t].status
  /\ th'[t].at = Min(Ahead(t)) + 1
  /\ IF Min(Ahead(t)) \in th[t].req.accept
       THEN /\ th'[t].pc = IF th[t].op = "iter" THEN "call" ELSE "body"
            /\ th'[t].got = Append(th[t].got, <<Min(Ahead(t)), Seen(t)[Min(Ahead(t))]>>)
       ELSE th'[t].pc = "body" /\ th'[t].got = th[t].got
  /\ UNCHANGED <<migrated, data, open, lock>>

Resumes(t) ==
  /\ Goes(t, "call", "body") /\ Same(t) /\ Still(t)
  /\ th'[t].view = th[t].view /\ th'[t].at = th[t].at
  /\ UNCHANGED <<migrated, data, open, lock>>

\* A key that the mode of a put refuses.
KeyRefused(t) ==
  CASE conf.backend = "gdbm" -> \/ Has(t, "exist_only") /\ ~Found(t)
                                \/ Has(t, "new_only") /\ ~Has(t, "exist_only") /\ Found(t)
    [] conf.backend = "berkeleydb" -> Has(t, "new_only") /\ Found(t)
    [] conf.backend = "tkrzw"      -> ~Has(t, "append") /\ Has(t, "new_only") /\ Found(t)
    [] OTHER                       -> FALSE

Ends(t) ==
  /\ th[t].pc \in {"body", "call"} /\ th'[t].pc = Back(t) /\ Same(t) /\ Still(t)
  /\ th[t].op \notin ListOps
  /\ Whole(t) => ~More(t) \/ (Len(th[t].req.keys) = 1 /\ More(t) /\ KeyRefused(t))
  /\ th'[t].view = Nothing /\ Release /\ Closes(t)
  /\ UNCHANGED <<migrated, data>>

Lists(t) ==
  /\ Goes(t, "body", "idle") /\ Same(t) /\ th[t].op \in ListOps /\ Over(t)
  /\ th'[t].view = Nothing /\ th'[t].idx = th[t].idx
  /\ \/ /\ th'[t].status = th[t].status
        /\ \E g \in BOOLEAN :
             LET ks == KeySlots(t, g)
                 vs == IF th[t].op = "listKeys" THEN ks ELSE ValSlots(t, g)
             IN  th'[t].got = [n \in DOMAIN ks |-> <<ks[n], vs[n]>>]
     \/ /\ conf.backend = "lmdb" /\ NothingAhead(t)
        /\ th'[t].status = IF FromIsLast(t) THEN "NotFound" ELSE "OK"
        /\ th'[t].got = [n \in DOMAIN th[t].req.room |-> <<NoMore, NoMore>>]
  /\ Release /\ Closes(t)
  /\ UNCHANGED <<migrated, data>>

Consumes(t) ==
  /\ Goes(t, "body", "enter") /\ th[t].op \in {"get", "fetch"} /\ Has(t, "consume") /\ ~More(t)
  /\ th'[t].op = "erase" /\ th'[t].req = th[t].req
  /\ th'[t].idx = 1 /\ th'[t].got = th[t].got /\ th'[t].view = Nothing
  /\ IF conf.backend = "gdbm" THEN Release ELSE UNCHANGED lock
  /\ Close(t, Takes(t))
  /\ UNCHANGED <<migrated, data>>

\* What a batch makes of the database.
Erased(t) == [k \in Keys |-> IF \E n \in DOMAIN th[t].req.keys : th[t].req.keys[n] = k
                               THEN Absent ELSE db[k]]

WritesAll(t) ==
  /\ Goes(t, "body", Back(t)) /\ Same(t) /\ Still(t) /\ ~Whole(t)
  /\ conf.backend \in {"leveldb", "rocksdb", "lmdb"}
  /\ \/ th[t].op = "put" /\ AtOnce /\ Sane(t) /\ Write(Batch(db, th[t].req))
     \/ th[t].op = "erase" /\ Write(Erased(t))
  /\ th'[t].view = Nothing /\ Release
  /\ UNCHANGED <<migrated, before, open>>

\* What a single put or erase makes of it.
WritesOne(t) ==
  /\ Goes(t, "body", "body") /\ Same(t) /\ More(t)
  /\ \/ /\ th[t].op = "put" /\ (AtOnce => Whole(t)) /\ ~KeyRefused(t) /\ Sane(t)
        /\ Write(IF conf.backend \in {"tkrzw", "unqlite"} /\ Has(t, "append")
                   THEN Appended(db, Key(t), Value(t)) ELSE Stored(db, Key(t), Value(t)))
     \/ th[t].op = "erase" /\ Write([db EXCEPT ![Key(t)] = Absent])
  /\ th'[t].idx = th[t].idx + 1 /\ th'[t].got = th[t].got /\ th'[t].view = th[t].view
  /\ UNCHANGED <<migrated, before, open, lock>>

Skips(t) ==
  /\ Goes(t, "body", "body") /\ Same(t) /\ th[t].op = "put" /\ More(t) /\ KeyRefused(t)
  /\ th'[t].idx = th[t].idx + 1 /\ th'[t].got = th[t].got /\ th'[t].view = th[t].view
  /\ UNCHANGED <<migrated, data, open, lock>>

Unlocks(t) ==
  /\ Goes(t, "unlock2", "idle") /\ Same(t) /\ Still(t) /\ th'[t].view = th[t].view
  /\ Release
  /\ UNCHANGED <<migrated, data, open>>

Checks(t) ==
  /\ Goes(t, "enter", "mlock") /\ Same(t) /\ Still(t) /\ th'[t].view = th[t].view
  /\ th[t].op = "migrate" /\ conf.backend # "berkeleydb"
  /\ UNCHANGED <<migrated, data, open, lock>>

HandsOver(t) ==
  /\ Goes(t, "mlock", "transfer") /\ Same(t) /\ Still(t) /\ th'[t].view = db
  /\ WriteLock
  /\ UNCHANGED <<migrated, data, open>>

GivesUp(t) ==
  /\ Goes(t, "transfer", Back(t)) /\ Same(t) /\ Still(t) /\ th'[t].view = Nothing
  /\ Release
  /\ \/ UNCHANGED <<migrated, data>>
     \/ migrated' = TRUE /\ Write(Empty) /\ before' = before
  /\ UNCHANGED open

Kind(t) ==
  \/ Receives(t) \/ Refuses(t) \/ Enters(t) \/ EntersWriting(t) \/ Looks(t) \/ Visits(t)
  \/ Resumes(t) \/ Ends(t) \/ Lists(t) \/ Consumes(t) \/ WritesAll(t) \/ WritesOne(t)
  \/ Skips(t) \/ Unlocks(t) \/ Checks(t) \/ HandsOver(t) \/ GivesUp(t)

\* The others do nothing meanwhile.
Frame(t) ==
  /\ conf' = conf
  /\ DOMAIN th' = Threads /\ DOMAIN th'[t] = Fields
  /\ \A u \in Threads \ {t} : th'[u] = th[u]

-----------------------------------------------------------------------------
(* Every step of a backend is of one kind *)

\* What Set does to the fields of a thread.
LEMMA SetFields ==
  ASSUME TypeInv, NEW t \in Threads, NEW r, DOMAIN r \subseteq Fields, Set(t, r)
  PROVE  /\ DOMAIN th' = Threads /\ DOMAIN th'[t] = Fields
         /\ \A u \in Threads \ {t} : th'[u] = th[u]
         /\ \A x \in Fields : th'[t][x] = IF x \in DOMAIN r THEN r[x] ELSE th[t][x]
<1>1. DOMAIN th = Threads /\ DOMAIN th[t] = Fields
  BY DEF TypeInv
<1>2. /\ DOMAIN th' = Threads /\ \A u \in Threads \ {t} : th'[u] = th[u]
      /\ th'[t] = [x \in DOMAIN th[t] |-> IF x \in DOMAIN r THEN r[x] ELSE th[t][x]]
  BY <1>1 DEF Set
<1> QED BY <1>1, <1>2

\* What each form of Set does to the fields that matter.
LEMMA SetPc ==
  ASSUME TypeInv, NEW t \in Threads, NEW p,
         Set(t, [pc |-> p]), conf' = conf
  PROVE  /\ Frame(t)
         /\ th'[t].pc = p /\ th'[t].op = th[t].op /\ th'[t].req = th[t].req
         /\ th'[t].idx = th[t].idx /\ th'[t].got = th[t].got /\ th'[t].view = th[t].view
         /\ th'[t].at = th[t].at /\ th'[t].status = th[t].status
<1>1. PICK r : r = [pc |-> p]
  OBVIOUS
<1>2. DOMAIN r = {"pc"} /\ Set(t, r)
  BY <1>1
<1>3. DOMAIN r \subseteq Fields
  BY <1>2 DEF Fields
<1> QED BY <1>1, <1>2, <1>3, SetFields DEF Fields, Frame

LEMMA SetPcAt ==
  ASSUME TypeInv, NEW t \in Threads, NEW p, NEW a,
         Set(t, [pc |-> p, at |-> a]), conf' = conf
  PROVE  /\ Frame(t)
         /\ th'[t].pc = p /\ th'[t].op = th[t].op /\ th'[t].req = th[t].req
         /\ th'[t].idx = th[t].idx /\ th'[t].got = th[t].got /\ th'[t].view = th[t].view
         /\ th'[t].at = a /\ th'[t].status = th[t].status
<1>1. PICK r : r = [pc |-> p, at |-> a]
  OBVIOUS
<1>2. DOMAIN r = {"pc", "at"} /\ Set(t, r)
  BY <1>1
<1>3. DOMAIN r \subseteq Fields
  BY <1>2 DEF Fields
<1> QED BY <1>1, <1>2, <1>3, SetFields DEF Fields, Frame

LEMMA SetPcViewAt ==
  ASSUME TypeInv, NEW t \in Threads, NEW p, NEW v, NEW a,
         Set(t, [pc |-> p, view |-> v, at |-> a]), conf' = conf
  PROVE  /\ Frame(t)
         /\ th'[t].pc = p /\ th'[t].op = th[t].op /\ th'[t].req = th[t].req
         /\ th'[t].idx = th[t].idx /\ th'[t].got = th[t].got /\ th'[t].view = v
         /\ th'[t].at = a /\ th'[t].status = th[t].status
<1>1. PICK r : r = [pc |-> p, view |-> v, at |-> a]
  OBVIOUS
<1>2. DOMAIN r = {"pc", "view", "at"} /\ Set(t, r)
  BY <1>1
<1>3. DOMAIN r \subseteq Fields
  BY <1>2 DEF Fields
<1> QED BY <1>1, <1>2, <1>3, SetFields DEF Fields, Frame

LEMMA SetIdxGot ==
  ASSUME TypeInv, NEW t \in Threads, NEW i, NEW g,
         Set(t, [idx |-> i, got |-> g]), conf' = conf
  PROVE  /\ Frame(t)
         /\ th'[t].pc = th[t].pc /\ th'[t].op = th[t].op /\ th'[t].req = th[t].req
         /\ th'[t].idx = i /\ th'[t].got = g /\ th'[t].view = th[t].view
         /\ th'[t].at = th[t].at /\ th'[t].status = th[t].status
<1>1. PICK r : r = [idx |-> i, got |-> g]
  OBVIOUS
<1>2. DOMAIN r = {"idx", "got"} /\ Set(t, r)
  BY <1>1
<1>3. DOMAIN r \subseteq Fields
  BY <1>2 DEF Fields
<1> QED BY <1>1, <1>2, <1>3, SetFields DEF Fields, Frame

LEMMA SetPcIdxGot ==
  ASSUME TypeInv, NEW t \in Threads, NEW p, NEW i, NEW g,
         Set(t, [pc |-> p, idx |-> i, got |-> g]), conf' = conf
  PROVE  /\ Frame(t)
         /\ th'[t].pc = p /\ th'[t].op = th[t].op /\ th'[t].req = th[t].req
         /\ th'[t].idx = i /\ th'[t].got = g /\ th'[t].view = th[t].view
         /\ th'[t].at = th[t].at /\ th'[t].status = th[t].status
<1>1. PICK r : r = [pc |-> p, idx |-> i, got |-> g]
  OBVIOUS
<1>2. DOMAIN r = {"pc", "idx", "got"} /\ Set(t, r)
  BY <1>1
<1>3. DOMAIN r \subseteq Fields
  BY <1>2 DEF Fields
<1> QED BY <1>1, <1>2, <1>3, SetFields DEF Fields, Frame

LEMMA SetConsume ==
  ASSUME TypeInv, NEW t \in Threads, NEW p, NEW o, NEW i, NEW v,
         Set(t, [pc |-> p, op |-> o, idx |-> i, view |-> v]), conf' = conf
  PROVE  /\ Frame(t)
         /\ th'[t].pc = p /\ th'[t].op = o /\ th'[t].req = th[t].req
         /\ th'[t].idx = i /\ th'[t].got = th[t].got /\ th'[t].view = v
         /\ th'[t].at = th[t].at /\ th'[t].status = th[t].status
<1>1. PICK r : r = [pc |-> p, op |-> o, idx |-> i, view |-> v]
  OBVIOUS
<1>2. DOMAIN r = {"pc", "op", "idx", "view"} /\ Set(t, r)
  BY <1>1
<1>3. DOMAIN r \subseteq Fields
  BY <1>2 DEF Fields
<1> QED BY <1>1, <1>2, <1>3, SetFields DEF Fields, Frame

LEMMA SetIdx ==
  ASSUME TypeInv, NEW t \in Threads, NEW i,
         Set(t, [idx |-> i]), conf' = conf
  PROVE  /\ Frame(t)
         /\ th'[t].pc = th[t].pc /\ th'[t].op = th[t].op /\ th'[t].req = th[t].req
         /\ th'[t].idx = i /\ th'[t].got = th[t].got /\ th'[t].view = th[t].view
         /\ th'[t].at = th[t].at /\ th'[t].status = th[t].status
<1>1. PICK r : r = [idx |-> i]
  OBVIOUS
<1>2. DOMAIN r = {"idx"} /\ Set(t, r)
  BY <1>1
<1>3. DOMAIN r \subseteq Fields
  BY <1>2 DEF Fields
<1> QED BY <1>1, <1>2, <1>3, SetFields DEF Fields, Frame

LEMMA SetPcAtGot ==
  ASSUME TypeInv, NEW t \in Threads, NEW p, NEW a, NEW g,
         Set(t, [pc |-> p, at |-> a, got |-> g]), conf' = conf
  PROVE  /\ Frame(t)
         /\ th'[t].pc = p /\ th'[t].op = th[t].op /\ th'[t].req = th[t].req
         /\ th'[t].idx = th[t].idx /\ th'[t].got = g /\ th'[t].view = th[t].view
         /\ th'[t].at = a /\ th'[t].status = th[t].status
<1>1. PICK r : r = [pc |-> p, at |-> a, got |-> g]
  OBVIOUS
<1>2. DOMAIN r = {"pc", "at", "got"} /\ Set(t, r)
  BY <1>1
<1>3. DOMAIN r \subseteq Fields
  BY <1>2 DEF Fields
<1> QED BY <1>1, <1>2, <1>3, SetFields DEF Fields, Frame

LEMMA SetAt ==
  ASSUME TypeInv, NEW t \in Threads, NEW a,
         Set(t, [at |-> a]), conf' = conf
  PROVE  /\ Frame(t)
         /\ th'[t].pc = th[t].pc /\ th'[t].op = th[t].op /\ th'[t].req = th[t].req
         /\ th'[t].idx = th[t].idx /\ th'[t].got = th[t].got /\ th'[t].view = th[t].view
         /\ th'[t].at = a /\ th'[t].status = th[t].status
<1>1. PICK r : r = [at |-> a]
  OBVIOUS
<1>2. DOMAIN r = {"at"} /\ Set(t, r)
  BY <1>1
<1>3. DOMAIN r \subseteq Fields
  BY <1>2 DEF Fields
<1> QED BY <1>1, <1>2, <1>3, SetFields DEF Fields, Frame

LEMMA SetPcViewGot ==
  ASSUME TypeInv, NEW t \in Threads, NEW p, NEW v, NEW g,
         Set(t, [pc |-> p, view |-> v, got |-> g]), conf' = conf
  PROVE  /\ Frame(t)
         /\ th'[t].pc = p /\ th'[t].op = th[t].op /\ th'[t].req = th[t].req
         /\ th'[t].idx = th[t].idx /\ th'[t].got = g /\ th'[t].view = v
         /\ th'[t].at = th[t].at /\ th'[t].status = th[t].status
<1>1. PICK r : r = [pc |-> p, view |-> v, got |-> g]
  OBVIOUS
<1>2. DOMAIN r = {"pc", "view", "got"} /\ Set(t, r)
  BY <1>1
<1>3. DOMAIN r \subseteq Fields
  BY <1>2 DEF Fields
<1> QED BY <1>1, <1>2, <1>3, SetFields DEF Fields, Frame

LEMMA SetNoKey ==
  ASSUME TypeInv, NEW t \in Threads, NEW p, NEW v, NEW s, NEW g,
         Set(t, [pc |-> p, view |-> v, status |-> s, got |-> g]), conf' = conf
  PROVE  /\ Frame(t)
         /\ th'[t].pc = p /\ th'[t].op = th[t].op /\ th'[t].req = th[t].req
         /\ th'[t].idx = th[t].idx /\ th'[t].got = g /\ th'[t].view = v
         /\ th'[t].at = th[t].at /\ th'[t].status = s
<1>1. PICK r : r = [pc |-> p, view |-> v, status |-> s, got |-> g]
  OBVIOUS
<1>2. DOMAIN r = {"pc", "view", "status", "got"} /\ Set(t, r)
  BY <1>1
<1>3. DOMAIN r \subseteq Fields
  BY <1>2 DEF Fields
<1> QED BY <1>1, <1>2, <1>3, SetFields DEF Fields, Frame

LEMMA SetPcStatus ==
  ASSUME TypeInv, NEW t \in Threads, NEW p, NEW s,
         Set(t, [pc |-> p, status |-> s]), conf' = conf
  PROVE  /\ Frame(t)
         /\ th'[t].pc = p /\ th'[t].op = th[t].op /\ th'[t].req = th[t].req
         /\ th'[t].idx = th[t].idx /\ th'[t].got = th[t].got /\ th'[t].view = th[t].view
         /\ th'[t].at = th[t].at /\ th'[t].status = s
<1>1. PICK r : r = [pc |-> p, status |-> s]
  OBVIOUS
<1>2. DOMAIN r = {"pc", "status"} /\ Set(t, r)
  BY <1>1
<1>3. DOMAIN r \subseteq Fields
  BY <1>2 DEF Fields
<1> QED BY <1>1, <1>2, <1>3, SetFields DEF Fields, Frame

LEMMA SetLeave ==
  ASSUME TypeInv, NEW t \in Threads, NEW p, NEW s, NEW v,
         Set(t, [pc |-> p, status |-> s, view |-> v]), conf' = conf
  PROVE  /\ Frame(t)
         /\ th'[t].pc = p /\ th'[t].op = th[t].op /\ th'[t].req = th[t].req
         /\ th'[t].idx = th[t].idx /\ th'[t].got = th[t].got /\ th'[t].view = v
         /\ th'[t].at = th[t].at /\ th'[t].status = s
<1>1. PICK r : r = [pc |-> p, status |-> s, view |-> v]
  OBVIOUS
<1>2. DOMAIN r = {"pc", "status", "view"} /\ Set(t, r)
  BY <1>1
<1>3. DOMAIN r \subseteq Fields
  BY <1>2 DEF Fields
<1> QED BY <1>1, <1>2, <1>3, SetFields DEF Fields, Frame

LEMMA SetPcView ==
  ASSUME TypeInv, NEW t \in Threads, NEW p, NEW v,
         Set(t, [pc |-> p, view |-> v]), conf' = conf
  PROVE  /\ Frame(t)
         /\ th'[t].pc = p /\ th'[t].op = th[t].op /\ th'[t].req = th[t].req
         /\ th'[t].idx = th[t].idx /\ th'[t].got = th[t].got /\ th'[t].view = v
         /\ th'[t].at = th[t].at /\ th'[t].status = th[t].status
<1>1. PICK r : r = [pc |-> p, view |-> v]
  OBVIOUS
<1>2. DOMAIN r = {"pc", "view"} /\ Set(t, r)
  BY <1>1
<1>3. DOMAIN r \subseteq Fields
  BY <1>2 DEF Fields
<1> QED BY <1>1, <1>2, <1>3, SetFields DEF Fields, Frame

\* Opening or closing nothing changes nothing.
LEMMA OpenNothing ==
  ASSUME TypeInv, NEW t \in Threads, open' = open
  PROVE  Open(t, {}) /\ Close(t, {})
<1>1. open \in [Threads -> [Handles -> Int]] /\ open[t] \in [Handles -> Int]
  BY DEF TypeInv
<1>2. open[t] = [x \in DOMAIN open[t] |-> IF x \in {} THEN open[t][x] + 1 ELSE open[t][x]]
  BY <1>1
<1>3. open[t] = [x \in DOMAIN open[t] |-> IF x \in {} THEN open[t][x] - 1 ELSE open[t][x]]
  BY <1>1
<1>4. open = [open EXCEPT ![t] = [x \in DOMAIN open[t] |-> IF x \in {} THEN open[t][x] + 1 ELSE open[t][x]]]
  BY <1>1, <1>2
<1>5. open = [open EXCEPT ![t] = [x \in DOMAIN open[t] |-> IF x \in {} THEN open[t][x] - 1 ELSE open[t][x]]]
  BY <1>1, <1>3
<1> QED BY <1>4, <1>5 DEF Open, Close

LEMMA ReceiveKind ==
  ASSUME TypeInv, NEW t \in Threads, Receive(t, Supported)
  PROVE  Frame(t) /\ Receives(t)
<1>1. PICK r \in conf.requests[t] :
        Set(t, [Idle EXCEPT !.op = r.op, !.req = r, !.left = th[t].left - 1,
                 !.pc     = IF r.modes \subseteq Supported THEN "enter" ELSE "idle",
                 !.status = IF r.modes \subseteq Supported THEN "OK" ELSE "Mode"])
  BY DEF Receive
<1>2. PICK f : f = [Idle EXCEPT !.op = r.op, !.req = r, !.left = th[t].left - 1,
                 !.pc     = IF r.modes \subseteq Supported THEN "enter" ELSE "idle",
                 !.status = IF r.modes \subseteq Supported THEN "OK" ELSE "Mode"]
  OBVIOUS
<1>3. /\ DOMAIN f = Fields /\ f.op = r.op /\ f.req = r /\ f.idx = 1 /\ f.got = << >> /\ f.view = Nothing
      /\ f.pc = (IF r.modes \subseteq Supported THEN "enter" ELSE "idle")
      /\ f.status = (IF r.modes \subseteq Supported THEN "OK" ELSE "Mode")
  BY <1>2 DEF Idle, Fields
<1>4. Set(t, f) /\ DOMAIN f \subseteq Fields
  BY <1>1, <1>2, <1>3
<1>5. /\ DOMAIN th' = Threads /\ DOMAIN th'[t] = Fields
      /\ \A u \in Threads \ {t} : th'[u] = th[u]
      /\ \A x \in Fields : th'[t][x] = IF x \in DOMAIN f THEN f[x] ELSE th[t][x]
  BY <1>4, SetFields
<1>6. /\ th'[t].pc = f.pc /\ th'[t].op = f.op /\ th'[t].req = f.req /\ th'[t].idx = f.idx
      /\ th'[t].got = f.got /\ th'[t].view = f.view /\ th'[t].status = f.status
  BY <1>3, <1>5 DEF Fields
<1> QED BY <1>3, <1>5, <1>6 DEF Frame, Receives, Receive, calm, At

\* Returning at once.
LEMMA RefuseKind ==
  ASSUME TypeInv, NEW t \in Threads, NEW op, NEW s \in {"NotSupported", "Other"}, Refuse(t, op, s)
  PROVE  Frame(t) /\ Refuses(t)
<1>1. Set(t, [pc |-> Back(t), status |-> s, view |-> Nothing]) /\ UNCHANGED <<conf, migrated, data, open, lock>>
  BY DEF Refuse, Leave, calm
<1> QED BY <1>1, SetLeave DEF Refuse, At, Refuses, Same, Still, Goes

LEMMA EnterRefusedKind ==
  ASSUME TypeInv, NEW t \in Threads, NEW op, EnterRefused(t, op)
  PROVE  Frame(t) /\ Refuses(t)
<1>1. Set(t, [pc |-> Back(t), status |-> "Migrated", view |-> Nothing]) /\ UNCHANGED <<conf, migrated, data, open, lock>>
  BY DEF EnterRefused, Leave, calm
<1> QED BY <1>1, SetLeave DEF EnterRefused, At, Refuses, Same, Still, Goes

LEMMA RefuseLockedKind ==
  ASSUME TypeInv, NEW t \in Threads, NEW op, NEW s \in {"NotSupported", "Other"}, RefuseLocked(t, op, s)
  PROVE  Frame(t) /\ Refuses(t)
BY RefuseKind, EnterRefusedKind DEF RefuseLocked

\* Entering to read, without a handle.
LEMMA EnterAtKind ==
  ASSUME TypeInv, NEW t \in Threads, NEW op, NEW a, EnterAt(t, op, a), op # "migrate",
         Takes(t) = {}, ~Snaps(t), ~Whole(t), op \in Walks => a = FirstPos(t),
         op \in Walks => conf.backend # "berkeleydb"
  PROVE  Frame(t) /\ Enters(t)
<1>1. Set(t, [pc |-> "body", at |-> a]) /\ UNCHANGED <<conf, migrated, data, open>> /\ ReadLock
  BY DEF EnterAt, calm
<1>2. Open(t, Takes(t))
  BY <1>1, OpenNothing
<1> QED BY <1>1, <1>2, SetPcAt DEF EnterAt, At, Enters, Same, Still, Goes

LEMMA EnterKind ==
  ASSUME TypeInv, NEW t \in Threads, NEW op, Enter(t, op), op \notin Walks \cup {"migrate"},
         th[t].op = op => Takes(t) = {} /\ ~Snaps(t) /\ ~Whole(t)
  PROVE  Frame(t) /\ (Enters(t) \/ Refuses(t))
<1>1. CASE EnterRefused(t, op)
  BY <1>1, EnterRefusedKind
<1>2. CASE EnterAt(t, op, 1)
  <2>1. th[t].op = op
    BY <1>2 DEF EnterAt
  <2> QED BY <1>2, <2>1, EnterAtKind
<1> QED BY <1>1, <1>2 DEF Enter

\* A snapshot of the library and the handles it takes.
LEMMA SnapshotKind ==
  ASSUME TypeInv, NEW t \in Threads, NEW op, NEW h, NEW a, Snapshot(t, op, h, a), op # "migrate",
         th[t].op = op => Takes(t) = h /\ Snaps(t) /\ ~Whole(t), op \in Walks => a = FirstPos(t),
         conf.backend # "berkeleydb"
  PROVE  Frame(t) /\ Enters(t)
<1>1. Set(t, [pc |-> "body", view |-> db, at |-> a]) /\ UNCHANGED <<conf, migrated, data>> /\ ReadLock
      /\ Open(t, h) /\ th[t].op = op
  BY DEF Snapshot, calm
<1> QED BY <1>1, SetPcViewAt DEF Snapshot, At, Enters, Same, Still, Goes

LEMMA EnterWritingKind ==
  ASSUME TypeInv, NEW t \in Threads, EnterWriting(t, "put"), conf.backend \in {"gdbm", "unqlite"}
  PROVE  Frame(t) /\ (EntersWriting(t) \/ Refuses(t))
<1>1. th[t].pc = "enter" /\ th[t].op = "put" /\ Whole(t) /\ UNCHANGED <<conf, migrated, db, ever, always, open>>
  BY DEF EnterWriting, At, Whole, calm
<1>2. CASE Sane(t) /\ ~migrated
  <2>1. WriteLock /\ Set(t, [pc |-> "body"]) /\ before' = db
    BY <1>2 DEF EnterWriting
  <2> QED BY <1>1, <1>2, <2>1, SetPc DEF EntersWriting, Goes, Same, Still
<1>3. CASE ~(Sane(t) /\ ~migrated)
  <2>1. PICK s \in {"InvalidArg", "Migrated"} : Leave(t, s) /\ UNCHANGED <<lock, before>>
    BY <1>3 DEF EnterWriting
  <2>2. Set(t, [pc |-> Back(t), status |-> s, view |-> Nothing])
    BY <2>1 DEF Leave
  <2>3. Frame(t) /\ Same(t) /\ Still(t) /\ th'[t].pc = Back(t) /\ th'[t].status = s /\ th'[t].view = Nothing
    BY <1>1, <2>2, SetLeave DEF Same, Still
  <2> QED BY <1>1, <2>1, <2>3 DEF Refuses, Goes, data
<1> QED BY <1>2, <1>3
-----------------------------------------------------------------------------
(* Lookups and callbacks *)

LEMMA LookKind ==
  ASSUME TypeInv, NEW t \in Threads, NEW op \in {"exists", "length"},
         NEW x, Look(t, op, x), x = IF op = "exists" THEN Found(t) ELSE Size(t)
  PROVE  Frame(t) /\ Looks(t)
<1>1. PICK i, g : i = th[t].idx + 1 /\ g = Append(th[t].got, x)
  OBVIOUS
<1>2. Set(t, [idx |-> i, got |-> g]) /\ UNCHANGED <<conf, migrated, data, open, lock>>
      /\ th[t].op = op /\ th[t].pc = "body" /\ More(t)
  BY <1>1 DEF Look, calm, In, At
<1>3. Says(t, x)
  BY <1>2 DEF Says
<1> QED BY SMTT(30), <1>1, <1>2, <1>3, SetIdxGot DEF Looks, Same, Goes, Lookups

LEMMA CopyKind ==
  ASSUME TypeInv, NEW t \in Threads, Copy(t)
  PROVE  Frame(t) /\ Looks(t)
<1>0. UNCHANGED <<conf, migrated, data, open, lock>> /\ th[t].op = "get" /\ th[t].pc = "body" /\ More(t)
  BY DEF Copy, calm, In, At
<1> DEFINE n == Len(th[t].req.keys)
           gone == Found(t) /\ ~Fits(t) /\ th[t].req.packed
           all == th[t].got \o [m \in 1 .. n - th[t].idx + 1 |-> TooSmall]
           x == IF ~Found(t) THEN Absent ELSE IF Fits(t) THEN Seen(t)[Key(t)] ELSE TooSmall
<1>1. CASE gone
  <2>0. PICK i, g : i = n + 1 /\ g = all
    OBVIOUS
  <2>1. Set(t, [idx |-> i, got |-> g])
    BY <1>1, <2>0 DEF Copy
  <2>2. /\ Frame(t) /\ th'[t].pc = th[t].pc /\ th'[t].op = th[t].op /\ th'[t].req = th[t].req
        /\ th'[t].idx = i /\ th'[t].got = g /\ th'[t].view = th[t].view
    BY <1>0, <2>1, SetIdxGot
  <2>3. th'[t].idx = n + 1 /\ th'[t].got = all
    BY <2>0, <2>2
  <2> QED BY <1>0, <1>1, <2>2, <2>3 DEF Looks, Same, Goes, Lookups
<1>2. CASE ~gone
  <2>1. Set(t, [idx |-> th[t].idx + 1, got |-> Append(th[t].got, x)])
    BY <1>2 DEF Copy
  <2>2. /\ Frame(t) /\ th'[t].pc = th[t].pc /\ th'[t].op = th[t].op /\ th'[t].req = th[t].req
        /\ th'[t].idx = th[t].idx + 1 /\ th'[t].got = Append(th[t].got, x) /\ th'[t].view = th[t].view
    BY <1>0, <2>1, SetIdxGot
  <2>3. Says(t, x)
    BY <1>0 DEF Says
  <2> HIDE DEF x
  <2> QED BY <1>0, <2>2, <2>3 DEF Looks, Same, Goes, Lookups
<1> QED BY <1>1, <1>2

LEMMA CallKind ==
  ASSUME TypeInv, NEW t \in Threads, Call(t)
  PROVE  Frame(t) /\ Looks(t)
<1>1. PICK i, g, x : i = th[t].idx + 1 /\ x = Seen(t)[Key(t)] /\ g = Append(th[t].got, x)
  OBVIOUS
<1>2. Set(t, [pc |-> "call", idx |-> i, got |-> g]) /\ UNCHANGED <<conf, migrated, data, open, lock>>
      /\ th[t].op = "fetch" /\ th[t].pc = "body" /\ More(t)
  BY <1>1 DEF Call, calm, In, At
<1>3. Says(t, x)
  BY <1>1, <1>2 DEF Says
<1> QED BY <1>1, <1>2, <1>3, SetPcIdxGot DEF Looks, Same, Goes, Lookups

LEMMA CallOKKind ==
  ASSUME TypeInv, NEW t \in Threads, NEW op, CallOK(t, op)
  PROVE  Frame(t) /\ Resumes(t)
<1>1. Set(t, [pc |-> "body"]) /\ UNCHANGED <<conf, migrated, data, open, lock>> /\ th[t].pc = "call"
  BY DEF CallOK, calm, At
<1> QED BY <1>1, SetPc DEF Resumes, Same, Still, Goes

-----------------------------------------------------------------------------
(* The ways to end *)

\* What is left of a request that returns.
LEMMA ReturnFields ==
  ASSUME TypeInv, NEW t \in Threads, NEW s, Return(t, s), conf' = conf
  PROVE  /\ Frame(t) /\ Same(t) /\ Still(t) /\ Release
         /\ th'[t].pc = Back(t) /\ th'[t].view = Nothing /\ th'[t].status = s
<1>1. Set(t, [pc |-> Back(t), status |-> s, view |-> Nothing]) /\ Release
  BY DEF Return, Leave
<1> QED BY <1>1, SetLeave DEF Same, Still

LEMMA ClosesAll ==
  ASSUME TypeInv, NEW t \in Threads, NEW h \in SUBSET Handles, Close(t, h), h = Takes(t) \/ Leaves(t)
  PROVE  Closes(t)
BY DEF Closes

\* A request that ends with h released, the rest is as it was.
LEMMA EndKind ==
  ASSUME TypeInv, NEW t \in Threads, NEW s, Return(t, s), UNCHANGED <<calm, data>>,
         th[t].pc \in {"body", "call"}, th[t].op \notin ListOps,
         Whole(t) => ~More(t) \/ (Len(th[t].req.keys) = 1 /\ More(t) /\ KeyRefused(t)),
         Closes(t)
  PROVE  Frame(t) /\ Ends(t)
BY ReturnFields DEF Ends, calm

LEMMA DoneKind ==
  ASSUME TypeInv, NEW t \in Threads, NEW op, NEW h \in SUBSET Handles, Done(t, op, h),
         th[t].op = op => Takes(t) = h, op \notin ListOps
  PROVE  Frame(t) /\ Ends(t)
<1>1. /\ Return(t, "OK") /\ Close(t, h) /\ UNCHANGED <<calm, data>> /\ ~More(t)
      /\ th[t].pc = "body" /\ th[t].op = op
  BY DEF Done, In, At
<1> QED BY <1>1, EndKind, ClosesAll

LEMMA OverrunKind ==
  ASSUME TypeInv, NEW t \in Threads, NEW op, Overrun(t, op),
         th[t].op = op => Takes(t) = {} \/ (conf.backend = "lmdb" /\ op \in {"exists", "length"}),
         op \notin ListOps \cup {"put"}
  PROVE  Frame(t) /\ Ends(t)
<1>1. /\ Return(t, "InvalidArg") /\ UNCHANGED <<calm, data, open>> /\ More(t) /\ ~Good(t)
      /\ th[t].pc = "body" /\ th[t].op = op
  BY DEF Overrun, In, At
<1>2. Close(t, {}) /\ ~Whole(t)
  BY <1>1, OpenNothing DEF Whole
<1>3. {} = Takes(t) \/ Leaves(t)
  BY <1>1 DEF Leaves
<1>4. Closes(t)
  BY <1>2, <1>3, ClosesAll DEF Handles
<1> QED BY <1>1, <1>2, <1>4, EndKind DEF Overrun

LEMMA InsaneKind ==
  ASSUME TypeInv, NEW t \in Threads, NEW op \in {"put", "erase"}, Insane(t, op),
         conf.backend \notin {"gdbm", "unqlite"}
  PROVE  Frame(t) /\ Ends(t)
<1>1. /\ Return(t, "InvalidArg") /\ UNCHANGED <<calm, data, open>>
      /\ th[t].pc = "body" /\ th[t].op = op
  BY DEF Insane, In, At
<1>2. Close(t, {}) /\ ~Whole(t) /\ Takes(t) = {} /\ op \notin ListOps
  BY <1>1, OpenNothing DEF Whole, Takes, Walks, Lookups, ListOps
<1>3. Closes(t)
  BY <1>2, ClosesAll DEF Handles
<1> QED BY <1>1, <1>2, <1>3, EndKind

LEMMA CallFailedKind ==
  ASSUME TypeInv, NEW t \in Threads, NEW op \in {"fetch", "iter"}, NEW h \in SUBSET Handles, CallFailed(t, op, h),
         th[t].op = op => Takes(t) = h \/ (op = "iter" /\ conf.backend \in {"leveldb", "rocksdb", "lmdb"})
  PROVE  Frame(t) /\ Ends(t)
<1>1. /\ Return(t, "Callback") /\ UNCHANGED <<calm, data>> /\ Close(t, h)
      /\ th[t].pc = "call" /\ th[t].op = op /\ th[t].req.fails
  BY DEF CallFailed, At
<1>2. ~Whole(t) /\ op \notin ListOps
  BY <1>1 DEF Whole, ListOps
<1>3. h = Takes(t) \/ Leaves(t)
  BY <1>1 DEF Leaves
<1>4. Closes(t)
  BY <1>1, <1>3, ClosesAll
<1> QED BY <1>1, <1>2, <1>4, EndKind

LEMMA IterEndKind ==
  ASSUME TypeInv, NEW t \in Threads, NEW h \in SUBSET Handles, IterEnd(t, h), th[t].op = "iter" => Takes(t) = h
  PROVE  Frame(t) /\ Ends(t)
<1>1. /\ Return(t, "OK") /\ Close(t, h) /\ UNCHANGED <<calm, data>>
      /\ th[t].pc = "body" /\ th[t].op = "iter"
  BY DEF IterEnd, In, At
<1>2. ~Whole(t) /\ "iter" \notin ListOps
  BY <1>1 DEF Whole, ListOps
<1> QED BY <1>1, <1>2, EndKind, ClosesAll

LEMMA CountEndKind ==
  ASSUME TypeInv, NEW t \in Threads, In(t, "count"), Return(t, "OK"), UNCHANGED <<calm, data, open>>,
         conf.backend \in {"lmdb", "tkrzw"}
  PROVE  Frame(t) /\ Ends(t)
<1>1. th[t].pc = "body" /\ th[t].op = "count" /\ ~Whole(t) /\ Close(t, {}) /\ "count" \notin ListOps
  BY OpenNothing DEF In, At, Whole, ListOps
<1>2. {} = Takes(t) \/ Leaves(t)
  BY <1>1 DEF Takes, Leaves, Walks, Lookups
<1>3. Closes(t)
  BY <1>1, <1>2, ClosesAll DEF Handles
<1> QED BY <1>1, <1>3, EndKind

LEMMA ConsumeKind ==
  ASSUME TypeInv, NEW t \in Threads, NEW op \in {"get", "fetch"}, NEW u \in BOOLEAN, NEW h, Consume(t, op, u, h),
         th[t].op = op => Takes(t) = h, u = (conf.backend = "gdbm")
  PROVE  Frame(t) /\ Consumes(t)
<1>1. /\ Set(t, [pc |-> "enter", op |-> "erase", idx |-> 1, view |-> Nothing]) /\ Close(t, h)
      /\ UNCHANGED <<conf, migrated, data>> /\ th[t].pc = "body" /\ th[t].op = op
      /\ Has(t, "consume") /\ ~More(t)
      /\ IF u THEN Release ELSE UNCHANGED lock
  BY DEF Consume, In, At, calm
<1>2. /\ Frame(t) /\ th'[t].pc = "enter" /\ th'[t].op = "erase" /\ th'[t].req = th[t].req
      /\ th'[t].idx = 1 /\ th'[t].got = th[t].got /\ th'[t].view = Nothing
  BY <1>1, SetConsume
<1>3. IF conf.backend = "gdbm" THEN Release ELSE UNCHANGED lock
  BY <1>1
<1>4. Close(t, Takes(t))
  BY <1>1
<1> QED BY <1>1, <1>2, <1>3, <1>4 DEF Consumes, Goes

LEMMA SecondUnlockKind ==
  ASSUME TypeInv, NEW t \in Threads, SecondUnlock(t)
  PROVE  Frame(t) /\ Unlocks(t)
<1>1. /\ Set(t, [pc |-> "idle"]) /\ UNCHANGED <<conf, migrated, data, open>> /\ Release
      /\ th[t].pc = "unlock2"
  BY DEF SecondUnlock, At, calm
<1> QED BY <1>1, SetPc DEF Unlocks, Goes, Same, Still
-----------------------------------------------------------------------------
(* Puts, erasures, listings and migrations *)

LEMMA PutBatchKind ==
  ASSUME TypeInv, NEW t \in Threads, PutBatch(t), conf.backend \in {"leveldb", "rocksdb", "lmdb"},
         conf.backend # "lmdb" => conf.batch
  PROVE  Frame(t) /\ WritesAll(t)
<1>1. /\ Write(Batch(db, th[t].req)) /\ Return(t, "OK") /\ UNCHANGED <<conf, migrated, before, open>>
      /\ th[t].pc = "body" /\ th[t].op = "put" /\ Sane(t) /\ ~Whole(t) /\ AtOnce
  BY DEF PutBatch, In, At, calm, Whole, AtOnce
<1>2. /\ Frame(t) /\ Same(t) /\ Still(t) /\ Release /\ th'[t].pc = Back(t) /\ th'[t].view = Nothing
  BY <1>1, ReturnFields
<1> QED BY <1>1, <1>2 DEF WritesAll, Goes

LEMMA EraseBatchKind ==
  ASSUME TypeInv, NEW t \in Threads, EraseBatch(t), conf.backend \in {"leveldb", "rocksdb", "lmdb"}
  PROVE  Frame(t) /\ WritesAll(t)
<1>1. /\ Write(Erased(t)) /\ Return(t, "OK") /\ UNCHANGED <<conf, migrated, before, open>>
      /\ th[t].pc = "body" /\ th[t].op = "erase" /\ ~Whole(t)
  BY DEF EraseBatch, In, At, calm, Whole, Erased
<1>2. /\ Frame(t) /\ Same(t) /\ Still(t) /\ Release /\ th'[t].pc = Back(t) /\ th'[t].view = Nothing
  BY <1>1, ReturnFields
<1> QED BY <1>1, <1>2 DEF WritesAll, Goes

LEMMA PutPairKind ==
  ASSUME TypeInv, NEW t \in Threads, NEW d, PutPair(t, d), th[t].op = "put" => ~KeyRefused(t),
         conf.backend # "lmdb", conf.backend \in {"leveldb", "rocksdb"} => ~conf.batch,
         d = IF conf.backend \in {"tkrzw", "unqlite"} /\ Has(t, "append")
               THEN Appended(db, Key(t), Value(t)) ELSE Stored(db, Key(t), Value(t))
  PROVE  Frame(t) /\ WritesOne(t)
<1>1. /\ Write(d) /\ Set(t, [idx |-> th[t].idx + 1]) /\ UNCHANGED <<conf, migrated, before, open, lock>>
      /\ th[t].pc = "body" /\ th[t].op = "put" /\ Sane(t) /\ More(t) /\ (AtOnce => Whole(t))
  BY DEF PutPair, In, At, calm, AtOnce, Whole
<1>2. /\ Frame(t) /\ Same(t) /\ th'[t].pc = "body" /\ th'[t].view = th[t].view
      /\ th'[t].idx = th[t].idx + 1 /\ th'[t].got = th[t].got
  BY <1>1, SetIdx DEF Same
<1>3. Write(IF conf.backend \in {"tkrzw", "unqlite"} /\ Has(t, "append")
               THEN Appended(db, Key(t), Value(t)) ELSE Stored(db, Key(t), Value(t)))
  BY <1>1
<1> QED BY <1>1, <1>2, <1>3 DEF WritesOne, Goes

LEMMA PutRefusedKind ==
  ASSUME TypeInv, NEW t \in Threads, NEW s, PutRefused(t, s), th[t].op = "put" => KeyRefused(t),
         conf.backend \in {"berkeleydb", "gdbm", "tkrzw"}
  PROVE  Frame(t) /\ (Skips(t) \/ Ends(t))
<1>1. /\ UNCHANGED <<calm, data, open>>
      /\ th[t].pc = "body" /\ th[t].op = "put" /\ Sane(t) /\ More(t) /\ KeyRefused(t)
  BY DEF PutRefused, In, At
<1>2. CASE Len(th[t].req.keys) = 1
  <2>1. Return(t, s) /\ "put" \notin ListOps
    BY <1>2 DEF PutRefused, ListOps
  <2>2. Close(t, {}) /\ Takes(t) = {}
    BY <1>1, OpenNothing DEF Takes, Walks, Lookups
  <2>3. Closes(t)
    BY <2>2, ClosesAll DEF Handles
  <2> QED BY <1>1, <1>2, <2>1, <2>3, EndKind
<1>3. CASE Len(th[t].req.keys) # 1
  <2>1. Set(t, [idx |-> th[t].idx + 1]) /\ UNCHANGED lock /\ UNCHANGED <<conf, migrated, data, open>>
    BY <1>1, <1>3 DEF PutRefused, calm
  <2>2. /\ Frame(t) /\ Same(t) /\ th'[t].pc = "body" /\ th'[t].view = th[t].view
        /\ th'[t].idx = th[t].idx + 1 /\ th'[t].got = th[t].got
    BY <1>1, <2>1, SetIdx DEF Same
  <2> QED BY <1>1, <2>1, <2>2 DEF Skips, Goes
<1> QED BY <1>2, <1>3

LEMMA EraseKeyKind ==
  ASSUME TypeInv, NEW t \in Threads, EraseKey(t)
  PROVE  Frame(t) /\ WritesOne(t)
<1>1. /\ Write([db EXCEPT ![Key(t)] = Absent]) /\ Set(t, [idx |-> th[t].idx + 1])
      /\ UNCHANGED <<conf, migrated, before, open, lock>>
      /\ th[t].pc = "body" /\ th[t].op = "erase" /\ More(t)
  BY DEF EraseKey, In, At, calm
<1>2. /\ Frame(t) /\ Same(t) /\ th'[t].pc = "body" /\ th'[t].view = th[t].view
      /\ th'[t].idx = th[t].idx + 1 /\ th'[t].got = th[t].got
  BY <1>1, SetIdx DEF Same
<1> QED BY <1>1, <1>2 DEF WritesOne, Goes

LEMMA VisitKind ==
  ASSUME TypeInv, NEW t \in Threads, NEW op \in Walks, NEW to, Visit(t, op, to),
         to = IF op = "iter" THEN "call" ELSE "body"
  PROVE  Frame(t) /\ Visits(t)
<1>1. /\ UNCHANGED <<conf, migrated, data, open, lock>> /\ ~Over(t)
      /\ th[t].pc = "body" /\ th[t].op = op
  BY DEF Visit, In, At, calm
<1>2. CASE Min(Ahead(t)) \in th[t].req.accept
  <2>1. Set(t, [pc |-> to, at |-> Min(Ahead(t)) + 1,
                got |-> Append(th[t].got, <<Min(Ahead(t)), Seen(t)[Min(Ahead(t))]>>)])
    BY <1>2 DEF Visit
  <2>2. /\ Frame(t) /\ Same(t) /\ th'[t].pc = to /\ th'[t].at = Min(Ahead(t)) + 1
        /\ th'[t].got = Append(th[t].got, <<Min(Ahead(t)), Seen(t)[Min(Ahead(t))]>>)
        /\ th'[t].view = th[t].view /\ th'[t].idx = th[t].idx /\ th'[t].status = th[t].status
    BY <1>1, <2>1, SetPcAtGot DEF Same
  <2> QED BY <1>1, <1>2, <2>2 DEF Visits
<1>3. CASE Min(Ahead(t)) \notin th[t].req.accept
  <2>1. Set(t, [at |-> Min(Ahead(t)) + 1])
    BY <1>3 DEF Visit
  <2>2. /\ Frame(t) /\ Same(t) /\ th'[t].pc = "body" /\ th'[t].at = Min(Ahead(t)) + 1
        /\ th'[t].got = th[t].got
        /\ th'[t].view = th[t].view /\ th'[t].idx = th[t].idx /\ th'[t].status = th[t].status
    BY <1>1, <2>1, SetAt DEF Same
  <2> QED BY <1>1, <1>3, <2>2 DEF Visits
<1> QED BY <1>2, <1>3

LEMMA ListingKind ==
  ASSUME TypeInv, NEW t \in Threads, NEW op \in ListOps, NEW g \in BOOLEAN,
         NEW h \in SUBSET Handles, Listing(t, op, g, h), th[t].op = op => Takes(t) = h
  PROVE  Frame(t) /\ Lists(t)
<1>1. /\ UNCHANGED <<conf, migrated, data>> /\ Over(t) /\ Release /\ Close(t, h)
      /\ th[t].pc = "body" /\ th[t].op = op
  BY DEF Listing, In, At, calm
<1> DEFINE ks == KeySlots(t, g)
           vs == IF th[t].op = "listKeys" THEN ks ELSE ValSlots(t, g)
           listed == [n \in DOMAIN ks |-> <<ks[n], vs[n]>>]
<1>2. Set(t, [pc |-> "idle", view |-> Nothing, got |-> listed])
  BY <1>1 DEF Listing
<1> HIDE DEF listed
<1>3. /\ Frame(t) /\ Same(t) /\ th'[t].pc = "idle" /\ th'[t].view = Nothing
      /\ th'[t].got = listed /\ th'[t].idx = th[t].idx /\ th'[t].status = th[t].status
  BY <1>1, <1>2, SetPcViewGot DEF Same
<1>4. Closes(t)
  BY <1>1, ClosesAll
<1> QED BY <1>1, <1>3, <1>4 DEF Lists, Goes, listed

\* A listing of lmdb that finds nothing.
LEMMA NoFirstKeyKind ==
  ASSUME TypeInv, NEW t \in Threads, NEW op \in Walks, NoFirstKey(t, op), conf.backend = "lmdb"
  PROVE  Frame(t) /\ (Lists(t) \/ Ends(t))
<1> DEFINE s == IF FromIsLast(t) THEN "NotFound" ELSE "OK"
           g == IF op = "iter" THEN th[t].got ELSE [n \in DOMAIN th[t].req.room |-> <<NoMore, NoMore>>]
<1>1. /\ UNCHANGED <<conf, migrated, data>> /\ NothingAhead(t) /\ Release /\ Close(t, {"txn"})
      /\ th[t].pc = "body" /\ th[t].op = op
      /\ Set(t, [pc |-> "idle", view |-> Nothing, status |-> s, got |-> g])
  BY DEF NoFirstKey, In, At, calm
<1> HIDE DEF s, g
<1>2. /\ Frame(t) /\ Same(t) /\ th'[t].pc = "idle" /\ th'[t].view = Nothing
      /\ th'[t].got = g /\ th'[t].idx = th[t].idx /\ th'[t].status = s
  BY <1>1, SetNoKey DEF Same
<1>3. Closes(t)
  BY <1>1, ClosesAll DEF Leaves, Handles
<1>4. CASE op = "iter"
  <2>1. Still(t) /\ Back(t) = "idle" /\ ~Whole(t) /\ op \notin ListOps
    BY <1>1, <1>2, <1>4 DEF g, Still, NothingAhead, Back, Consuming, TypeInv, Placed, Whole, ListOps
  <2> QED BY <1>1, <1>2, <1>3, <2>1 DEF Ends, Goes
<1>5. CASE op # "iter"
  <2>1. op \in ListOps /\ Over(t)
    BY <1>1, <1>5 DEF ListOps, Walks, Over, NothingAhead
  <2> QED BY <1>1, <1>2, <1>3, <1>5, <2>1 DEF Lists, Goes, g, s
<1> QED BY <1>4, <1>5

LEMMA CheckMigratedKind ==
  ASSUME TypeInv, NEW t \in Threads, CheckMigrated(t), conf.backend # "berkeleydb"
  PROVE  Frame(t) /\ (Checks(t) \/ Refuses(t))
<1>1. /\ UNCHANGED <<conf, migrated, data, open, lock>>
      /\ th[t].pc = "enter" /\ th[t].op = "migrate"
  BY DEF CheckMigrated, At, calm
<1>2. CASE migrated
  <2>1. Set(t, [pc |-> "idle", status |-> "Migrated"])
    BY <1>2 DEF CheckMigrated
  <2>2. /\ Frame(t) /\ Same(t) /\ Still(t) /\ th'[t].pc = "idle" /\ th'[t].status = "Migrated"
        /\ th'[t].view = th[t].view
    BY <1>1, <2>1, SetPcStatus DEF Same, Still
  <2>3. Back(t) = "idle" /\ th[t].view = Nothing
    BY <1>1 DEF Back, Consuming, TypeInv, Placed
  <2> QED BY <1>1, <2>2, <2>3 DEF Refuses, Goes
<1>3. CASE ~migrated
  <2>1. Set(t, [pc |-> "mlock", status |-> "OK"])
    BY <1>3 DEF CheckMigrated
  <2>2. /\ Frame(t) /\ Same(t) /\ Still(t) /\ th'[t].pc = "mlock" /\ th'[t].view = th[t].view
    BY <1>1, <2>1, SetPcStatus DEF Same, Still
  <2> QED BY <1>1, <2>2 DEF Checks, Goes
<1> QED BY <1>2, <1>3

\* A migration that has begun.
LEMMA MigrationKind ==
  ASSUME TypeInv, NEW t \in Threads, HandOver(t) \/ Cancel(t) \/ Removed(t)
  PROVE  Frame(t) /\ (HandsOver(t) \/ GivesUp(t))
<1>1. CASE HandOver(t)
  <2>1. /\ UNCHANGED <<conf, migrated, data, open>> /\ th[t].pc = "mlock" /\ WriteLock
        /\ Set(t, [pc |-> "transfer", view |-> db])
    BY <1>1 DEF HandOver, At, calm
  <2> QED BY <2>1, SetPcView DEF HandsOver, Same, Still, Goes
<1>2. CASE Cancel(t)
  <2>1. /\ UNCHANGED <<conf, migrated, data, open>> /\ th[t].pc = "transfer" /\ Return(t, "Canceled")
    BY <1>2 DEF Cancel, At, calm
  <2>2. /\ Frame(t) /\ Same(t) /\ Still(t) /\ Release /\ th'[t].pc = Back(t) /\ th'[t].view = Nothing
    BY <2>1, ReturnFields
  <2> QED BY <2>1, <2>2 DEF GivesUp, Goes
<1>3. CASE Removed(t)
  <2>1. /\ UNCHANGED <<conf, before, open>> /\ th[t].pc = "transfer" /\ Return(t, "OK")
        /\ migrated' = TRUE /\ Write(Empty)
    BY <1>3 DEF Removed, At
  <2>2. /\ Frame(t) /\ Same(t) /\ Still(t) /\ Release /\ th'[t].pc = Back(t) /\ th'[t].view = Nothing
    BY <2>1, ReturnFields
  <2> QED BY <2>1, <2>2 DEF GivesUp, Goes
<1> QED BY <1>1, <1>2, <1>3
-----------------------------------------------------------------------------
(* The backends, one by one *)

LEMMA LevelDBKind ==
  ASSUME TypeInv, NEW t \in Threads, conf.backend = "leveldb", leveldb_Step(t)
  PROVE  Frame(t) /\ Kind(t)
<1> USE DEF Kind
<1>0. /\ \A op \in Lookups \cup {"put", "erase"} :
           op \notin Walks \cup {"migrate"} /\ op \notin ListOps
           /\ (th[t].op = op => Takes(t) = {} /\ ~Snaps(t) /\ ~Whole(t))
      /\ \A op \in Walks : op # "migrate" /\ (th[t].op = op => Takes(t) = {"cursor"} /\ Snaps(t) /\ ~Whole(t))
      /\ {"cursor"} \in SUBSET Handles /\ {} \in SUBSET Handles
  BY DEF Lookups, Walks, Takes, Snaps, Whole, Handles, ListOps
<1>1. CASE Receive(t, leveldb_supportsMode)
  BY <1>1, ReceiveKind DEF Supported, leveldb_supportsMode, leveldb_supportsMode
<1>2. CASE leveldb_count(t)
  BY <1>2, RefuseLockedKind DEF leveldb_count
<1>3. CASE leveldb_exists(t) \/ leveldb_length(t)
  BY <1>0, <1>3, EnterKind, LookKind, OverrunKind, DoneKind DEF leveldb_exists, leveldb_length, LookEach, Lookups
<1>4. CASE leveldb_put(t)
  <2>1. CASE Enter(t, "put") \/ Insane(t, "put") \/ Done(t, "put", {})
    BY <1>0, <2>1, EnterKind, InsaneKind, DoneKind
  <2>2. CASE conf.batch /\ PutBatch(t)
    BY <2>2, PutBatchKind
  <2>3. CASE ~conf.batch /\ PutPair(t, Stored(db, Key(t), Value(t)))
    <3>1. ~KeyRefused(t)
      BY DEF KeyRefused
    <3> QED BY <2>3, <3>1, PutPairKind
  <2> QED BY <1>4, <2>1, <2>2, <2>3 DEF leveldb_put
<1>5. CASE leveldb_get(t)
  BY <1>0, <1>5, EnterKind, CopyKind, ConsumeKind, DoneKind DEF leveldb_get, GetEach, Lookups
<1>6. CASE leveldb_fetch(t)
  BY <1>0, <1>6, EnterKind, CallKind, CallOKKind, CallFailedKind, ConsumeKind, DoneKind
  DEF leveldb_fetch, FetchEach, Answered, Lookups
<1>7. CASE leveldb_erase(t)
  BY <1>0, <1>7, EnterKind, InsaneKind, EraseBatchKind DEF leveldb_erase
<1>8. ASSUME NEW op \in Walks, leveldb_NewIterator(t, op) PROVE Frame(t) /\ Kind(t)
  BY <1>0, <1>8, EnterRefusedKind, SnapshotKind DEF leveldb_NewIterator
<1>9. CASE leveldb_listKeys(t)
  BY <1>0, <1>8, <1>9, VisitKind, ListingKind DEF leveldb_listKeys, Walks, ListOps
<1>10. CASE leveldb_listKeyValues(t)
  <2>1. CASE Listing(t, "listKeyValues", Short(t) /\ VShort(t), {"cursor"})
    <3>1. PICK g \in BOOLEAN : Listing(t, "listKeyValues", g, {"cursor"})
      BY <2>1
    <3> QED BY <1>0, <3>1, ListingKind DEF Walks, ListOps
  <2> QED BY <1>0, <1>8, <1>10, <2>1, VisitKind DEF leveldb_listKeyValues, Walks
<1>11. CASE leveldb_iter(t)
  BY <1>0, <1>8, <1>11, VisitKind, CallOKKind, CallFailedKind, IterEndKind DEF leveldb_iter, Answered, Walks
<1>12. CASE SecondUnlock(t)
  BY <1>12, SecondUnlockKind
<1>13. CASE leveldb_startMigration(t) \/ LevelDBMigrationHandle(t)
  BY <1>13, CheckMigratedKind, MigrationKind DEF leveldb_startMigration, LevelDBMigrationHandle
<1> QED BY <1>1, <1>2, <1>3, <1>4, <1>5, <1>6, <1>7, <1>9, <1>10, <1>11, <1>12, <1>13 DEF leveldb_Step

LEMMA RocksDBKind ==
  ASSUME TypeInv, NEW t \in Threads, conf.backend = "rocksdb", rocksdb_Step(t)
  PROVE  Frame(t) /\ Kind(t)
<1> USE DEF Kind
<1>0. /\ \A op \in Lookups \cup {"put", "erase"} :
           op \notin Walks \cup {"migrate"} /\ op \notin ListOps
           /\ (th[t].op = op => Takes(t) = {} /\ ~Snaps(t) /\ ~Whole(t))
      /\ \A op \in Walks : op # "migrate" /\ (th[t].op = op => Takes(t) = {"cursor"} /\ Snaps(t) /\ ~Whole(t))
      /\ {"cursor"} \in SUBSET Handles /\ {} \in SUBSET Handles
  BY DEF Lookups, Walks, Takes, Snaps, Whole, Handles, ListOps
<1>1. CASE Receive(t, rocksdb_supportsMode)
  BY <1>1, ReceiveKind DEF Supported, rocksdb_supportsMode, leveldb_supportsMode
<1>2. CASE rocksdb_count(t)
  BY <1>2, RefuseLockedKind DEF rocksdb_count
<1>3. CASE rocksdb_exists(t) \/ rocksdb_length(t)
  BY <1>0, <1>3, EnterKind, LookKind, OverrunKind, DoneKind DEF rocksdb_exists, rocksdb_length, LookEach, Lookups
<1>4. CASE rocksdb_put(t)
  <2>1. CASE Enter(t, "put") \/ Insane(t, "put") \/ Done(t, "put", {})
    BY <1>0, <2>1, EnterKind, InsaneKind, DoneKind
  <2>2. CASE conf.batch /\ PutBatch(t)
    BY <2>2, PutBatchKind
  <2>3. CASE ~conf.batch /\ PutPair(t, Stored(db, Key(t), Value(t)))
    <3>1. ~KeyRefused(t)
      BY DEF KeyRefused
    <3> QED BY <2>3, <3>1, PutPairKind
  <2> QED BY <1>4, <2>1, <2>2, <2>3 DEF rocksdb_put
<1>5. CASE rocksdb_get(t)
  BY <1>0, <1>5, EnterKind, CopyKind, ConsumeKind, DoneKind DEF rocksdb_get, GetEach, Lookups
<1>6. CASE rocksdb_fetch(t)
  BY <1>0, <1>6, EnterKind, CallKind, CallOKKind, CallFailedKind, ConsumeKind, DoneKind
  DEF rocksdb_fetch, FetchEach, Answered, Lookups
<1>7. CASE rocksdb_erase(t)
  BY <1>0, <1>7, EnterKind, InsaneKind, EraseBatchKind DEF rocksdb_erase
<1>8. ASSUME NEW op \in Walks, rocksdb_NewIterator(t, op) PROVE Frame(t) /\ Kind(t)
  BY <1>0, <1>8, EnterRefusedKind, SnapshotKind DEF rocksdb_NewIterator
<1>9. CASE rocksdb_listKeys(t)
  BY <1>0, <1>8, <1>9, VisitKind, ListingKind DEF rocksdb_listKeys, Walks, ListOps
<1>10. CASE rocksdb_listKeyValues(t)
  <2>1. CASE Listing(t, "listKeyValues", Short(t) /\ VShort(t), {"cursor"})
    <3>1. PICK g \in BOOLEAN : Listing(t, "listKeyValues", g, {"cursor"})
      BY <2>1
    <3> QED BY <1>0, <3>1, ListingKind DEF Walks, ListOps
  <2> QED BY <1>0, <1>8, <1>10, <2>1, VisitKind DEF rocksdb_listKeyValues, Walks
<1>11. CASE rocksdb_iter(t)
  BY <1>0, <1>8, <1>11, VisitKind, CallOKKind, CallFailedKind, IterEndKind DEF rocksdb_iter, Answered, Walks
<1>12. CASE SecondUnlock(t)
  BY <1>12, SecondUnlockKind
<1>13. CASE rocksdb_startMigration(t) \/ RocksDBMigrationHandle(t)
  BY <1>13, CheckMigratedKind, MigrationKind DEF rocksdb_startMigration, RocksDBMigrationHandle
<1> QED BY <1>1, <1>2, <1>3, <1>4, <1>5, <1>6, <1>7, <1>9, <1>10, <1>11, <1>12, <1>13 DEF rocksdb_Step
LEMMA LMDBKind ==
  ASSUME TypeInv, NEW t \in Threads, conf.backend = "lmdb", lmdb_Step(t)
  PROVE  Frame(t) /\ Kind(t)
<1> USE DEF Kind
<1>0. /\ \A op \in {"put", "erase"} :
           op \notin Walks \cup {"migrate"} /\ op \notin ListOps
           /\ (th[t].op = op => Takes(t) = {} /\ ~Snaps(t) /\ ~Whole(t))
      /\ \A op \in Lookups \cup {"count"} :
           op \notin Walks \cup {"migrate"} /\ op \notin ListOps
           /\ (th[t].op = op => Takes(t) = {"txn"} /\ Snaps(t) /\ ~Whole(t))
      /\ \A op \in Walks :
           op # "migrate" /\ (th[t].op = op => Takes(t) = {"txn", "cursor"} /\ Snaps(t) /\ ~Whole(t))
      /\ {"txn", "cursor"} \in SUBSET Handles /\ {"txn"} \in SUBSET Handles /\ {} \in SUBSET Handles
  BY DEF Lookups, Walks, Takes, Snaps, Whole, Handles, ListOps
<1>1. CASE Receive(t, lmdb_supportsMode)
  BY <1>1, ReceiveKind DEF Supported, lmdb_supportsMode, leveldb_supportsMode
<1>2. ASSUME NEW op \in Lookups \cup {"count"}, Begin(t, op, {"txn"}, 1) PROVE Frame(t) /\ Kind(t)
  BY <1>0, <1>2, RefuseLockedKind, EnterRefusedKind, SnapshotKind DEF Begin
<1>3. ASSUME NEW op \in Walks, lmdb_OpenCursor(t, op) PROVE Frame(t) /\ Kind(t)
  BY <1>0, <1>3, RefuseLockedKind, EnterRefusedKind, SnapshotKind DEF Begin, lmdb_OpenCursor
<1>4. CASE lmdb_count(t)
  BY <1>2, <1>4, CountEndKind DEF lmdb_count
<1>5. CASE lmdb_exists(t) \/ lmdb_length(t)
  BY <1>0, <1>2, <1>5, LookKind, OverrunKind, DoneKind DEF lmdb_exists, lmdb_length, Lookups
<1>6. CASE lmdb_put(t)
  BY <1>0, <1>6, EnterKind, InsaneKind, PutBatchKind DEF lmdb_put
<1>7. CASE lmdb_get(t)
  BY <1>0, <1>2, <1>7, CopyKind, ConsumeKind, DoneKind DEF lmdb_get, Lookups
<1>8. CASE lmdb_fetch(t)
  BY <1>0, <1>2, <1>8, CallKind, CallOKKind, CallFailedKind, ConsumeKind, DoneKind
  DEF lmdb_fetch, Answered, Lookups
<1>9. CASE lmdb_erase(t)
  BY <1>0, <1>9, EnterKind, InsaneKind, EraseBatchKind DEF lmdb_erase
<1>10. CASE lmdb_listKeys(t)
  BY <1>0, <1>3, <1>10, VisitKind, ListingKind, NoFirstKeyKind DEF lmdb_listKeys, Walks, ListOps
<1>11. CASE lmdb_listKeyValues(t)
  <2>1. CASE Listing(t, "listKeyValues", Short(t) /\ VShort(t), {"txn", "cursor"})
    <3>1. PICK g \in BOOLEAN : Listing(t, "listKeyValues", g, {"txn", "cursor"})
      BY <2>1
    <3> QED BY <1>0, <3>1, ListingKind DEF Walks, ListOps
  <2> QED BY <1>0, <1>3, <1>11, <2>1, VisitKind, NoFirstKeyKind DEF lmdb_listKeyValues, Walks
<1>12. CASE lmdb_iter(t)
  BY <1>0, <1>3, <1>12, VisitKind, NoFirstKeyKind, CallOKKind, CallFailedKind, IterEndKind
  DEF lmdb_iter, Answered, Walks
<1>13. CASE SecondUnlock(t)
  BY <1>13, SecondUnlockKind
<1>14. CASE lmdb_startMigration(t) \/ LMDBMigrationHandle(t)
  BY <1>14, CheckMigratedKind, MigrationKind DEF lmdb_startMigration, LMDBMigrationHandle
<1> QED BY <1>1, <1>4, <1>5, <1>6, <1>7, <1>8, <1>9, <1>10, <1>11, <1>12, <1>13, <1>14 DEF lmdb_Step

LEMMA BerkeleyDBKind ==
  ASSUME TypeInv, NEW t \in Threads, conf.backend = "berkeleydb", berkeleydb_Step(t)
  PROVE  Frame(t) /\ Kind(t)
<1> USE DEF Kind
<1>0. /\ \A op \in Lookups \cup {"put", "erase"} :
           op \notin Walks \cup {"migrate"} /\ op \notin ListOps
           /\ (th[t].op = op => Takes(t) = {} /\ ~Snaps(t) /\ ~Whole(t))
      /\ \A op \in Walks :
           op # "migrate" /\ (th[t].op = op => Takes(t) = {"cursor"} /\ ~Snaps(t) /\ ~Whole(t))
      /\ {"cursor"} \in SUBSET Handles /\ {} \in SUBSET Handles
  BY DEF Lookups, Walks, Takes, Snaps, Whole, Handles, ListOps
<1>1. CASE Receive(t, berkeleydb_supportsMode)
  BY <1>1, ReceiveKind DEF Supported
<1>2. CASE berkeleydb_count(t)
  BY <1>2, RefuseKind DEF berkeleydb_count
<1>3. CASE berkeleydb_exists(t) \/ berkeleydb_length(t)
  BY <1>0, <1>3, EnterKind, LookKind, OverrunKind, DoneKind
  DEF berkeleydb_exists, berkeleydb_length, LookEach, Lookups
<1>4. CASE berkeleydb_put(t)
  <2>1. CASE Enter(t, "put") \/ Insane(t, "put") \/ Done(t, "put", {})
    BY <1>0, <2>1, EnterKind, InsaneKind, DoneKind
  <2>2. CASE Has(t, "new_only") /\ Found(t) /\ PutRefused(t, "KeyExists")
    <3>1. KeyRefused(t)
      BY <2>2 DEF KeyRefused
    <3> QED BY <2>2, <3>1, PutRefusedKind
  <2>3. CASE ~(Has(t, "new_only") /\ Found(t)) /\ PutPair(t, Stored(db, Key(t), Value(t)))
    <3>1. ~KeyRefused(t)
      BY <2>3 DEF KeyRefused
    <3> QED BY <2>3, <3>1, PutPairKind
  <2> QED BY <1>4, <2>1, <2>2, <2>3 DEF berkeleydb_put
<1>5. CASE berkeleydb_get(t)
  BY <1>0, <1>5, EnterKind, CopyKind, ConsumeKind, DoneKind DEF berkeleydb_get, GetEach, Lookups
<1>6. CASE berkeleydb_fetch(t)
  BY <1>0, <1>6, EnterKind, CallKind, CallOKKind, CallFailedKind, ConsumeKind, DoneKind
  DEF berkeleydb_fetch, FetchEach, Answered, Lookups
<1>7. CASE berkeleydb_erase(t)
  BY <1>0, <1>7, EnterKind, OverrunKind, DoneKind, EraseKeyKind DEF berkeleydb_erase
<1>8. ASSUME NEW op \in Walks, berkeleydb_OpenCursor(t, op) PROVE Frame(t) /\ Kind(t)
  <2>1. /\ UNCHANGED <<conf, migrated, data, lock>> /\ Open(t, {"cursor"})
        /\ Set(t, [pc |-> "body", at |-> SetRange(t)]) /\ th[t].pc = "enter" /\ th[t].op = op
    BY <1>8 DEF berkeleydb_OpenCursor, At, calm
  <2>2. /\ Frame(t) /\ Same(t) /\ Still(t) /\ th'[t].pc = "body" /\ th'[t].at = SetRange(t)
        /\ th'[t].view = th[t].view /\ th'[t].status = th[t].status
    BY <2>1, SetPcAt DEF Same, Still
  <2> QED BY <1>0, <2>1, <2>2 DEF Enters, Goes
<1>9. ASSUME NEW op \in Walks, Unordered(t, op) PROVE Frame(t) /\ Kind(t)
  BY <1>9, RefuseKind DEF Unordered
<1>10. CASE berkeleydb_listKeys(t)
  BY <1>0, <1>8, <1>9, <1>10, VisitKind, ListingKind DEF berkeleydb_listKeys, Walks, ListOps
<1>11. CASE berkeleydb_listKeyValues(t)
  <2>1. CASE Listing(t, "listKeyValues", Short(t) /\ VShort(t), {"cursor"})
    <3>1. PICK g \in BOOLEAN : Listing(t, "listKeyValues", g, {"cursor"})
      BY <2>1
    <3> QED BY <1>0, <3>1, ListingKind DEF Walks, ListOps
  <2> QED BY <1>0, <1>8, <1>9, <1>11, <2>1, VisitKind DEF berkeleydb_listKeyValues, Walks
<1>12. CASE berkeleydb_iter(t)
  BY <1>0, <1>8, <1>9, <1>12, VisitKind, CallOKKind, CallFailedKind, IterEndKind
  DEF berkeleydb_iter, Answered, Walks
<1>13. CASE SecondUnlock(t)
  BY <1>13, SecondUnlockKind
<1> QED BY <1>1, <1>2, <1>3, <1>4, <1>5, <1>6, <1>7, <1>10, <1>11, <1>12, <1>13 DEF berkeleydb_Step

LEMMA GDBMKind ==
  ASSUME TypeInv, NEW t \in Threads, conf.backend = "gdbm", gdbm_Step(t)
  PROVE  Frame(t) /\ Kind(t)
<1> USE DEF Kind
<1>0. /\ \A op \in Lookups \cup {"erase"} :
           op \notin Walks \cup {"migrate"} /\ op \notin ListOps
           /\ (th[t].op = op => Takes(t) = {} /\ ~Snaps(t) /\ ~Whole(t))
      /\ "put" \notin ListOps /\ (th[t].op = "put" => Takes(t) = {})
      /\ {} \in SUBSET Handles
  BY DEF Lookups, Walks, Takes, Snaps, Whole, Handles, ListOps
<1>1. CASE Receive(t, gdbm_supportsMode)
  BY <1>1, ReceiveKind DEF Supported
<1>2. CASE gdbm_count(t)
  BY <1>2, RefuseKind DEF gdbm_count
<1>3. CASE gdbm_exists(t) \/ gdbm_length(t)
  BY <1>0, <1>3, EnterKind, LookKind, OverrunKind, DoneKind
  DEF gdbm_exists, gdbm_length, LookEach, Lookups
<1>4. CASE gdbm_put(t)
  <2>1. CASE EnterWriting(t, "put") \/ Done(t, "put", {})
    BY <1>0, <2>1, EnterWritingKind, DoneKind
  <2>2. CASE \E s : PutRefused(t, s) /\ KeyRefused(t)
    BY <2>2, PutRefusedKind
  <2>3. CASE ~KeyRefused(t) /\ PutPair(t, Stored(db, Key(t), Value(t)))
    BY <2>3, PutPairKind
  <2> QED BY <1>4, <2>1, <2>2, <2>3 DEF gdbm_put, KeyRefused
<1>5. CASE gdbm_get(t)
  BY <1>0, <1>5, EnterKind, CopyKind, ConsumeKind, DoneKind DEF gdbm_get, GetEach, Lookups
<1>6. CASE gdbm_fetch(t)
  BY <1>0, <1>6, EnterKind, CallKind, CallOKKind, CallFailedKind, ConsumeKind, DoneKind
  DEF gdbm_fetch, FetchEach, Answered, Lookups
<1>7. CASE gdbm_erase(t)
  BY <1>0, <1>7, EnterKind, OverrunKind, DoneKind, EraseKeyKind DEF gdbm_erase, EraseEach
<1>8. CASE SecondUnlock(t)
  BY <1>8, SecondUnlockKind
<1>9. CASE gdbm_startMigration(t) \/ GDBMMigrationHandle(t)
  BY <1>9, CheckMigratedKind, MigrationKind DEF gdbm_startMigration, GDBMMigrationHandle
<1> QED BY <1>1, <1>2, <1>3, <1>4, <1>5, <1>6, <1>7, <1>8, <1>9 DEF gdbm_Step

LEMMA TkrzwKind ==
  ASSUME TypeInv, NEW t \in Threads, conf.backend = "tkrzw", tkrzw_Step(t)
  PROVE  Frame(t) /\ Kind(t)
<1> USE DEF Kind
<1>0. /\ \A op \in Lookups \cup {"put", "erase", "count"} :
           op \notin Walks \cup {"migrate"} /\ op \notin ListOps
           /\ (th[t].op = op => Takes(t) = {} /\ ~Snaps(t) /\ ~Whole(t))
      /\ \A op \in Walks :
           op # "migrate" /\ (th[t].op = op => Takes(t) = {} /\ ~Snaps(t) /\ ~Whole(t))
      /\ {} \in SUBSET Handles
  BY DEF Lookups, Walks, Takes, Snaps, Whole, Handles, ListOps
<1>1. CASE Receive(t, tkrzw_supportsMode)
  BY <1>1, ReceiveKind DEF Supported
<1>2. CASE tkrzw_count(t)
  BY <1>0, <1>2, EnterKind, CountEndKind DEF tkrzw_count
<1>3. CASE tkrzw_exists(t) \/ tkrzw_length(t)
  BY <1>0, <1>3, EnterKind, LookKind, OverrunKind, DoneKind
  DEF tkrzw_exists, tkrzw_length, GetLength, LookEach, Lookups
<1>4. CASE tkrzw_put(t)
  <2>1. CASE Enter(t, "put") \/ Insane(t, "put") \/ Done(t, "put", {})
    BY <1>0, <2>1, EnterKind, InsaneKind, DoneKind
  <2>2. CASE PutRefused(t, "KeyExists") /\ KeyRefused(t)
    BY <2>2, PutRefusedKind
  <2>3. CASE Has(t, "append") /\ PutPair(t, Appended(db, Key(t), Value(t)))
    <3>1. ~KeyRefused(t)
      BY <2>3 DEF KeyRefused
    <3> QED BY <2>3, <3>1, PutPairKind
  <2>4. CASE ~Has(t, "append") /\ ~KeyRefused(t) /\ PutPair(t, Stored(db, Key(t), Value(t)))
    BY <2>4, PutPairKind
  <2> QED BY <1>4, <2>1, <2>2, <2>3, <2>4 DEF tkrzw_put, KeyRefused
<1>5. CASE tkrzw_get(t)
  BY <1>0, <1>5, EnterKind, CopyKind, ConsumeKind, DoneKind DEF tkrzw_get, GetValue, Lookups
<1>6. CASE tkrzw_fetch(t)
  BY <1>0, <1>6, EnterKind, CallKind, CallOKKind, CallFailedKind, ConsumeKind, DoneKind
  DEF tkrzw_fetch, FetchValue, Lookups
<1>7. CASE tkrzw_erase(t)
  BY <1>0, <1>7, EnterKind, OverrunKind, DoneKind, EraseKeyKind DEF tkrzw_erase
<1>8. ASSUME NEW op \in Walks, MakeIterator(t, op) PROVE Frame(t) /\ Kind(t)
  <2>1. CASE EnterRefused(t, op) \/ RefuseLocked(t, op, "NotSupported")
    BY <2>1, EnterRefusedKind, RefuseLockedKind
  <2>2. CASE EnterAt(t, op, FirstPos(t))
    <3>1. th[t].op = op
      BY <2>2 DEF EnterAt
    <3> QED BY <1>0, <2>2, <3>1, EnterAtKind
  <2> QED BY <1>8, <2>1, <2>2 DEF MakeIterator
<1>9. CASE tkrzw_listKeys(t)
  BY <1>0, <1>8, <1>9, VisitKind, ListingKind DEF tkrzw_listKeys, ListKeys, Walks, ListOps
<1>10. CASE tkrzw_listKeyValues(t)
  BY <1>0, <1>8, <1>10, VisitKind, ListingKind DEF tkrzw_listKeyValues, ListKeyVals, Walks, ListOps
<1>11. CASE tkrzw_iter(t)
  BY <1>0, <1>8, <1>11, VisitKind, CallOKKind, CallFailedKind, IterEndKind DEF tkrzw_iter, Iter, Walks
<1>12. CASE SecondUnlock(t)
  BY <1>12, SecondUnlockKind
<1>13. CASE tkrzw_startMigration(t) \/ TkrzwDBMigrationHandle(t)
  BY <1>13, CheckMigratedKind, MigrationKind, RefuseKind DEF tkrzw_startMigration, TkrzwDBMigrationHandle
<1> QED BY <1>1, <1>2, <1>3, <1>4, <1>5, <1>6, <1>7, <1>9, <1>10, <1>11, <1>12, <1>13 DEF tkrzw_Step

LEMMA UnQLiteKind ==
  ASSUME TypeInv, NEW t \in Threads, conf.backend = "unqlite", unqlite_Step(t)
  PROVE  Frame(t) /\ Kind(t)
<1> USE DEF Kind
<1>0. /\ \A op \in Lookups \cup {"erase"} :
           op \notin Walks \cup {"migrate"} /\ op \notin ListOps
           /\ (th[t].op = op => Takes(t) = {} /\ ~Snaps(t) /\ ~Whole(t))
      /\ "put" \notin ListOps /\ (th[t].op = "put" => Takes(t) = {})
      /\ {} \in SUBSET Handles
  BY DEF Lookups, Walks, Takes, Snaps, Whole, Handles, ListOps
<1>1. CASE Receive(t, unqlite_supportsMode)
  BY <1>1, ReceiveKind DEF Supported
<1>2. CASE unqlite_count(t)
  BY <1>2, RefuseLockedKind DEF unqlite_count
<1>3. CASE unqlite_exists(t) \/ unqlite_length(t)
  BY <1>0, <1>3, EnterKind, LookKind, OverrunKind, DoneKind
  DEF unqlite_exists, unqlite_length, LookEach, Lookups
<1>4. CASE unqlite_put(t)
  <2>1. CASE EnterWriting(t, "put") \/ Done(t, "put", {})
    BY <1>0, <2>1, EnterWritingKind, DoneKind
  <2>2. CASE PutPair(t, IF Has(t, "append") THEN Appended(db, Key(t), Value(t))
                        ELSE Stored(db, Key(t), Value(t)))
    <3>1. ~KeyRefused(t)
      BY DEF KeyRefused
    <3> QED BY <2>2, <3>1, PutPairKind
  <2> QED BY <1>4, <2>1, <2>2 DEF unqlite_put
<1>5. CASE unqlite_get(t)
  BY <1>0, <1>5, EnterKind, CopyKind, ConsumeKind, DoneKind DEF unqlite_get, GetEach, Lookups
<1>6. CASE unqlite_fetch(t)
  BY <1>0, <1>6, EnterKind, CallKind, CallOKKind, CallFailedKind, ConsumeKind, DoneKind
  DEF unqlite_fetch, FetchEach, Answered, Lookups
<1>7. CASE unqlite_erase(t)
  BY <1>0, <1>7, EnterKind, OverrunKind, DoneKind, EraseKeyKind DEF unqlite_erase, EraseEach
<1>8. CASE SecondUnlock(t)
  BY <1>8, SecondUnlockKind
<1>9. CASE unqlite_startMigration(t) \/ UnQLiteMigrationHandle(t)
  BY <1>9, CheckMigratedKind, MigrationKind, RefuseKind DEF unqlite_startMigration, UnQLiteMigrationHandle
<1> QED BY <1>1, <1>2, <1>3, <1>4, <1>5, <1>6, <1>7, <1>8, <1>9 DEF unqlite_Step

\* Every step is of one of the kinds.
LEMMA StepCases ==
  ASSUME TypeInv, NEW t \in Threads, Step(t)
  PROVE  Frame(t) /\ Kind(t)
BY LevelDBKind, RocksDBKind, LMDBKind, BerkeleyDBKind, GDBMKind, TkrzwKind, UnQLiteKind DEF Step
-----------------------------------------------------------------------------
(* Types are kept *)

LEMMA ListOf ==
  ASSUME NEW S, NEW s \in Seq(S) PROVE IsList(s)
<1>1. s \in [1 .. Len(s) -> S] /\ Len(s) \in Nat
  BY LenProperties
<1>2. s \in [1 .. Len(s) -> {s[n] : n \in DOMAIN s}]
  BY <1>1
<1> QED BY <1>1, <1>2, SeqDef DEF IsList

LEMMA ListAppend ==
  ASSUME NEW s, IsList(s), NEW a PROVE IsList(Append(s, a)) /\ Len(Append(s, a)) = Len(s) + 1
<1> DEFINE S == {s[n] : n \in DOMAIN s} \cup {a}
<1>1. s \in Seq({s[n] : n \in DOMAIN s})
  BY DEF IsList
<1>2. s \in [1 .. Len(s) -> {s[n] : n \in DOMAIN s}] /\ Len(s) \in Nat
  BY <1>1, LenProperties
<1>3. s \in [1 .. Len(s) -> S]
  BY <1>2
<1>4. s \in Seq(S)
  BY <1>2, <1>3, SeqDef
<1> HIDE DEF S
<1>5. a \in S
  BY DEF S
<1>6. Append(s, a) \in Seq(S) /\ Len(Append(s, a)) = Len(s) + 1
  BY <1>4, <1>5, AppendProperties
<1> QED BY <1>6, ListOf

LEMMA ListConcat ==
  ASSUME NEW s, IsList(s), NEW u, IsList(u)
  PROVE  IsList(s \o u) /\ Len(s \o u) = Len(s) + Len(u)
<1> DEFINE S == {s[n] : n \in DOMAIN s} \cup {u[n] : n \in DOMAIN u}
<1>1. s \in [1 .. Len(s) -> {s[n] : n \in DOMAIN s}] /\ Len(s) \in Nat
  BY LenProperties DEF IsList
<1>2. u \in [1 .. Len(u) -> {u[n] : n \in DOMAIN u}] /\ Len(u) \in Nat
  BY LenProperties DEF IsList
<1>3. s \in [1 .. Len(s) -> S] /\ u \in [1 .. Len(u) -> S]
  BY <1>1, <1>2
<1> HIDE DEF S
<1>4. s \in Seq(S) /\ u \in Seq(S)
  <2>1. s \in Seq(S)
    BY <1>1, <1>3, SeqDef
  <2>2. u \in Seq(S)
    BY <1>2, <1>3, SeqDef
  <2> QED BY <2>1, <2>2
<1>5. s \o u \in Seq(S) /\ Len(s \o u) = Len(s) + Len(u)
  BY <1>4, ConcatProperties
<1> QED BY <1>5, ListOf

\* What is on [1 .. n] is a list.
LEMMA ListTo ==
  ASSUME NEW n \in Nat, NEW f, f = [m \in 1 .. n |-> f[m]] PROVE IsList(f) /\ Len(f) = n
<1>1. f \in [1 .. n -> {f[m] : m \in 1 .. n}]
  <2> DEFINE g == [m \in 1 .. n |-> f[m]]
  <2>1. g \in [1 .. n -> {f[m] : m \in 1 .. n}]
    OBVIOUS
  <2> QED BY <2>1
<1>2. f \in Seq({f[m] : m \in 1 .. n})
  BY <1>1, SeqDef
<1> QED BY <1>1, <1>2, ListOf, LenProperties
LEMMA TypeInit == Init => TypeInv
<1> SUFFICES ASSUME Init PROVE TypeInv
  OBVIOUS
<1>1. \A t \in Threads : th[t] = Idle
  BY DEF Init
<1>2. DOMAIN Idle = Fields /\ Idle.pc = "idle" /\ Idle.idx = 1 /\ Idle.got = << >> /\ Idle.req = [op |-> "none"]
  BY DEF Idle, Fields
<1>3. IsList(<< >>)
  BY EmptySeq, ListOf
<1>4. open \in [Threads -> [Handles -> Int]]
  <2>1. [txn |-> 0, cursor |-> 0] \in [Handles -> Int]
    BY DEF Handles
  <2> QED BY <2>1 DEF Init
<1>5. DOMAIN th = Threads /\ DOMAIN ever = Threads /\ DOMAIN always = Threads
      /\ conf \in Setups /\ migrated \in BOOLEAN
  BY DEF Init
<1> QED BY <1>1, <1>2, <1>3, <1>4, <1>5 DEF TypeInv, Places

\* The request of a thread that has one.
LEMMA RequestOf ==
  ASSUME TypeInv, NEW t \in Threads, th[t].pc # "idle"
  PROVE  Placed(t) /\ th[t].req \in conf.requests[t] /\ Request(th[t].req)
BY SetupsAssumption DEF TypeInv, Placed, SetupsAssumption

LEMMA HandlesTyped ==
  ASSUME TypeInv, NEW t \in Threads, NEW h,
         Open(t, h) \/ Close(t, h)
  PROVE  open' \in [Threads -> [Handles -> Int]] /\ \A u \in Threads \ {t} : open'[u] = open[u]
<1>1. open \in [Threads -> [Handles -> Int]] /\ open[t] \in [Handles -> Int] /\ DOMAIN open[t] = Handles
  BY DEF TypeInv
<1>2. CASE Open(t, h)
  <2>1. [x \in DOMAIN open[t] |-> IF x \in h THEN open[t][x] + 1 ELSE open[t][x]] \in [Handles -> Int]
    BY <1>1
  <2> QED BY <1>1, <1>2, <2>1 DEF Open
<1>3. CASE Close(t, h)
  <2>1. [x \in DOMAIN open[t] |-> IF x \in h THEN open[t][x] - 1 ELSE open[t][x]] \in [Handles -> Int]
    BY <1>1
  <2> QED BY <1>1, <1>3, <2>1 DEF Close
<1> QED BY <1>2, <1>3

\* What a step does to the thread that takes it.
LEMMA PlacedStep ==
  ASSUME TypeInv, NEW t \in Threads, Frame(t), Kind(t)
  PROVE  /\ th'[t].pc \in Places
         /\ th'[t].pc # "idle" => Placed(t)'
         /\ th'[t].req = [op |-> "none"] \/ th'[t].req \in conf'.requests[t]
<1>0. /\ conf' = conf /\ th[t].pc \in Places /\ DOMAIN th[t] = Fields
      /\ th[t].req = [op |-> "none"] \/ th[t].req \in conf.requests[t]
  BY DEF TypeInv, Frame
<1>1. CASE Receives(t)
  <2>1. th'[t].req \in conf.requests[t] /\ Request(th'[t].req)
    BY <1>1, SetupsAssumption DEF Receives, SetupsAssumption, TypeInv
  <2>2. th'[t].pc \in {"idle", "enter"} /\ th'[t].op = th'[t].req.op /\ th'[t].view = Nothing
    BY <1>1 DEF Receives
  <2> QED BY <1>0, <2>1, <2>2 DEF Placed, Places
<1>2. ASSUME ~Receives(t)
      PROVE  /\ Placed(t) /\ th[t].pc # "idle" /\ th'[t].req = th[t].req /\ Back(t) \in {"idle", "unlock2"}
             /\ Back(t) = "unlock2" => Consuming(t)
  <2>1. th[t].pc # "idle" /\ th'[t].req = th[t].req
    BY <1>2 DEF Kind, Refuses, Enters, EntersWriting, Looks, Visits, Resumes, Ends, Lists, Consumes, WritesAll,
       WritesOne, Skips, Unlocks, Checks, HandsOver, GivesUp, Goes, Same
  <2>2. Placed(t)
    BY <2>1 DEF TypeInv
  <2> QED BY <2>1, <2>2 DEF Back
<1> USE DEF Goes, Same, Places, Consuming
<1>3. CASE ~Receives(t) /\ (Refuses(t) \/ Unlocks(t) \/ Checks(t) \/ HandsOver(t) \/ GivesUp(t))
  <2>1. CASE Refuses(t)
    BY <1>0, <1>2, <1>3, <2>1 DEF Refuses, Placed, Has
  <2>2. CASE Unlocks(t)
    BY <1>0, <1>2, <1>3, <2>2 DEF Unlocks, Placed, Has
  <2>3. CASE Checks(t)
    BY <1>0, <1>2, <1>3, <2>3 DEF Checks, Placed, Has
  <2>4. CASE HandsOver(t)
    BY <1>0, <1>2, <1>3, <2>4 DEF HandsOver, Placed, Has
  <2>5. CASE GivesUp(t)
    BY <1>0, <1>2, <1>3, <2>5 DEF GivesUp, Placed, Has
  <2> QED BY <1>3, <2>1, <2>2, <2>3, <2>4, <2>5
<1>4. CASE ~Receives(t) /\ (Enters(t) \/ EntersWriting(t))
  BY <1>0, <1>2, <1>4 DEF Enters, EntersWriting, Placed, Has, Whole
<1>5. CASE ~Receives(t) /\ (Looks(t) \/ Visits(t) \/ Resumes(t))
  BY <1>0, <1>2, <1>5 DEF Looks, Visits, Resumes, Placed, Has, Lookups, Walks
<1>6. CASE ~Receives(t) /\ (Ends(t) \/ Lists(t) \/ WritesAll(t))
  BY <1>0, <1>2, <1>6 DEF Ends, Lists, WritesAll, Placed, Has
<1>7. CASE ~Receives(t) /\ Consumes(t)
  BY <1>0, <1>2, <1>7 DEF Consumes, Placed, Has
<1>8. CASE ~Receives(t) /\ (WritesOne(t) \/ Skips(t))
  BY <1>0, <1>2, <1>8 DEF WritesOne, Skips, Placed, Has
<1> QED BY <1>1, <1>3, <1>4, <1>5, <1>6, <1>7, <1>8 DEF Kind
\* The locals of the operation.
LEMMA LocalsStep ==
  ASSUME TypeInv, NEW t \in Threads, Frame(t), Kind(t)
  PROVE  th'[t].idx \in Nat \ {0} /\ IsList(th'[t].got)
<1>0. th[t].idx \in Nat \ {0} /\ IsList(th[t].got)
  BY DEF TypeInv
<1>1. CASE Receives(t)
  <2>1. IsList(<< >>)
    BY EmptySeq, ListOf
  <2> QED BY <1>1, <2>1 DEF Receives
<1>2. CASE Refuses(t) \/ Enters(t) \/ EntersWriting(t) \/ Resumes(t) \/ Ends(t) \/ WritesAll(t)
           \/ Unlocks(t) \/ Checks(t) \/ HandsOver(t) \/ GivesUp(t)
  BY <1>0, <1>2 DEF Refuses, Enters, EntersWriting, Resumes, Ends, WritesAll, Unlocks, Checks,
     HandsOver, GivesUp, Still
<1>3. CASE Looks(t)
  <2>1. CASE th'[t].idx = th[t].idx + 1 /\ \E a : th'[t].got = Append(th[t].got, a)
    BY <1>0, <2>1, ListAppend
  <2>2. CASE /\ th'[t].idx = Len(th[t].req.keys) + 1
             /\ th'[t].got = th[t].got \o [m \in 1 .. Len(th[t].req.keys) - th[t].idx + 1 |-> TooSmall]
    <3>1. More(t) /\ Len(th[t].req.keys) \in Nat
      <4>1. Request(th[t].req)
        BY <1>3, RequestOf DEF Looks, Goes
      <4> QED BY <1>3, <4>1, LenProperties DEF Looks, Request
    <3>2. Len(th[t].req.keys) - th[t].idx + 1 \in Nat
      BY <1>0, <3>1 DEF More
    <3>3. PICK n : n = Len(th[t].req.keys) - th[t].idx + 1
      OBVIOUS
    <3>4. PICK f : f = [m \in 1 .. n |-> TooSmall]
      OBVIOUS
    <3>5. n \in Nat /\ f = [m \in 1 .. n |-> f[m]]
      BY <3>2, <3>3, <3>4
    <3>6. IsList(f)
      BY <3>5, ListTo
    <3>7. th'[t].got = th[t].got \o f
      BY <2>2, <3>3, <3>4
    <3>8. IsList(th[t].got \o f)
      BY <1>0, <3>6, ListConcat
    <3>9. th'[t].idx = Len(th[t].req.keys) + 1
      BY <2>2
    <3>10. th'[t].idx \in Nat \ {0}
      BY <3>1, <3>9
    <3> QED BY <3>7, <3>8, <3>10
  <2> QED BY <1>3, <2>1, <2>2 DEF Looks
<1>4. CASE Visits(t)
  BY <1>0, <1>4, ListAppend DEF Visits
<1>5. CASE Consumes(t)
  BY <1>0, <1>5 DEF Consumes
<1>6. CASE WritesOne(t) \/ Skips(t)
  BY <1>0, <1>6 DEF WritesOne, Skips
<1>7. CASE Lists(t)
  <2>1. th'[t].idx = th[t].idx
    BY <1>7 DEF Lists
  <2>2. Request(th[t].req)
    BY <1>7, RequestOf DEF Lists, Goes
  <2>3. CASE th'[t].got = [n \in DOMAIN th[t].req.room |-> <<NoMore, NoMore>>]
    <3>1. PICK n \in Nat : DOMAIN th[t].req.room = 1 .. n
      BY <2>2, LenProperties DEF Request
    <3> QED BY <1>0, <2>1, <2>3, <3>1, ListTo
  <2>4. CASE th'[t].got # [n \in DOMAIN th[t].req.room |-> <<NoMore, NoMore>>]
    <3>1. PICK g \in BOOLEAN :
            th'[t].got = [n \in DOMAIN KeySlots(t, g) |->
              <<KeySlots(t, g)[n], (IF th[t].op = "listKeys" THEN KeySlots(t, g) ELSE ValSlots(t, g))[n]>>]
      BY <1>7, <2>4 DEF Lists
    <3>2. PICK n : n = Len(th[t].req.room)
      OBVIOUS
    <3>3. n \in Nat
      BY <2>2, <3>2, LenProperties DEF Request
    <3>4. DOMAIN KeySlots(t, g) = 1 .. n
      BY <3>2 DEF KeySlots, CopyPacked, CopySlots
    <3>5. th'[t].got = [m \in 1 .. n |-> th'[t].got[m]]
      BY <3>1, <3>4
    <3>6. IsList(th'[t].got)
      BY <3>3, <3>5, ListTo
    <3> QED BY <1>0, <2>1, <3>6
  <2> QED BY <2>3, <2>4
<1> QED BY <1>1, <1>2, <1>3, <1>4, <1>5, <1>6, <1>7 DEF Kind

LEMMA OpenStep ==
  ASSUME TypeInv, NEW t \in Threads, Frame(t), Kind(t)
  PROVE  /\ open' \in [Threads -> [Handles -> Int]] /\ \A u \in Threads \ {t} : open'[u] = open[u]
         /\ DOMAIN ever' = Threads /\ DOMAIN always' = Threads /\ migrated' \in BOOLEAN
<1>1. open \in [Threads -> [Handles -> Int]] /\ DOMAIN ever = Threads /\ DOMAIN always = Threads /\ migrated \in BOOLEAN
  BY DEF TypeInv
<1>2. CASE Receives(t)
  BY <1>1, <1>2 DEF Receives
<1>3. CASE Refuses(t) \/ Looks(t) \/ Visits(t) \/ Resumes(t) \/ Skips(t) \/ Unlocks(t) \/ Checks(t) \/ HandsOver(t)
  BY <1>1, <1>3 DEF Refuses, Looks, Visits, Resumes, Skips, Unlocks, Checks, HandsOver, data
<1>4. CASE EntersWriting(t)
  BY <1>1, <1>4 DEF EntersWriting
<1>5. CASE Enters(t)
  BY <1>1, <1>5, HandlesTyped DEF Enters, data
<1>6. CASE Ends(t) \/ Lists(t)
  BY <1>1, <1>6, HandlesTyped DEF Ends, Lists, Closes, data
<1>7. CASE Consumes(t)
  BY <1>1, <1>7, HandlesTyped DEF Consumes, data
<1>8. CASE WritesAll(t) \/ WritesOne(t)
  BY <1>1, <1>8 DEF WritesAll, WritesOne, Write
<1>9. CASE GivesUp(t)
  BY <1>1, <1>9 DEF GivesUp, Write, data
<1> QED BY <1>2, <1>3, <1>4, <1>5, <1>6, <1>7, <1>8, <1>9 DEF Kind

LEMMA TypeNext == TypeInv /\ [Next]_vars => TypeInv'
<1> SUFFICES ASSUME TypeInv, [Next]_vars PROVE TypeInv'
  OBVIOUS
<1>1. CASE UNCHANGED vars
  BY <1>1 DEF TypeInv, vars, Placed, Has
<1>2. ASSUME NEW t \in Threads, Step(t) PROVE TypeInv'
  <2>1. Frame(t) /\ Kind(t)
    BY <1>2, StepCases
  <2>2. conf' \in Setups /\ DOMAIN th' = Threads /\ conf' = conf
    BY <2>1 DEF Frame, TypeInv
  <2>3. ASSUME NEW u \in Threads
        PROVE  /\ DOMAIN th'[u] = Fields /\ th'[u].pc \in Places
               /\ th'[u].idx \in Nat \ {0} /\ IsList(th'[u].got)
               /\ th'[u].pc # "idle" => Placed(u)'
               /\ th'[u].req = [op |-> "none"] \/ th'[u].req \in conf'.requests[u]
    <3>1. CASE u = t
      BY <2>1, <3>1, PlacedStep, LocalsStep DEF Frame
    <3>2. CASE u # t
      BY <2>1, <2>2, <3>2 DEF Frame, TypeInv, Placed, Has
    <3> QED BY <3>1, <3>2
  <2> QED BY <2>1, <2>2, <2>3, OpenStep DEF TypeInv
<1> QED BY <1>1, <1>2 DEF Next

-----------------------------------------------------------------------------
(* What a lookup reports *)

\* What a step does to the database and to the history.
LEMMA DataKinds ==
  ASSUME NEW t \in Threads, Kind(t), ~Receives(t)
  PROVE  UNCHANGED <<db, ever, always>> \/ \E d : Write(d)
<1>1. CASE Refuses(t) \/ Looks(t) \/ Visits(t) \/ Resumes(t) \/ Skips(t) \/ Unlocks(t) \/ Checks(t) \/ HandsOver(t)
           \/ Enters(t) \/ Ends(t) \/ Lists(t) \/ Consumes(t)
  BY <1>1 DEF Refuses, Looks, Visits, Resumes, Skips, Unlocks, Checks, HandsOver, Enters, Ends, Lists, Consumes, data
<1>2. CASE EntersWriting(t)
  BY <1>2 DEF EntersWriting
<1>3. CASE WritesAll(t) \/ WritesOne(t)
  BY <1>3 DEF WritesAll, WritesOne
<1>4. CASE GivesUp(t)
  BY <1>4 DEF GivesUp, data
<1> QED BY <1>1, <1>2, <1>3, <1>4 DEF Kind

\* What a step does to what the thread sees.
LEMMA ViewKinds ==
  ASSUME NEW t \in Threads, Kind(t), ~Receives(t)
  PROVE  /\ th'[t].req = th[t].req
         /\ \/ th'[t].view \in {th[t].view, Nothing}
            \/ th'[t].view = db /\ UNCHANGED <<db, ever, always>>
<1> USE DEF Same
<1>1. CASE Refuses(t) \/ Looks(t) \/ Visits(t) \/ Resumes(t) \/ Skips(t) \/ Unlocks(t) \/ Checks(t) \/ HandsOver(t)
           \/ Enters(t) \/ Ends(t) \/ Lists(t) \/ Consumes(t)
  BY <1>1 DEF Refuses, Looks, Visits, Resumes, Skips, Unlocks, Checks, HandsOver, Enters, Ends, Lists, Consumes, data
<1>2. CASE EntersWriting(t) \/ WritesAll(t) \/ WritesOne(t) \/ GivesUp(t)
  BY <1>2 DEF EntersWriting, WritesAll, WritesOne, GivesUp
<1> QED BY <1>1, <1>2 DEF Kind

\* The history of a thread has all that it can see: what the database holds
\* was there, and the keys that were there all the time are in the database
\* and in the snapshot.
Covers(t, d) == Pairs(d) \subseteq ever[t] /\ always[t] \subseteq Present(d)
HistInv ==
  \A t \in Threads : th[t].req.op # "none" =>
    Covers(t, db) /\ (th[t].view # Nothing => Covers(t, th[t].view))

LEMMA HistInit == Init => HistInv
BY DEF Init, HistInv, Idle

\* Histories only grow, and keep what they cover.
LEMMA WriteCovers ==
  ASSUME TypeInv, NEW t \in Threads, NEW d, Write(d)
  PROVE  /\ ever[t] \subseteq ever'[t] /\ always'[t] \subseteq always[t]
         /\ Covers(t, db)'
         /\ \A e : Covers(t, e) => Covers(t, e)'
<1>1. /\ db' = d /\ ever'[t] = ever[t] \cup Pairs(d) /\ always'[t] = always[t] \cap Present(d)
  BY DEF TypeInv, Write
<1>2. Pairs(db)' = Pairs(d) /\ Present(db)' = Present(d)
  BY <1>1 DEF Pairs, Present
<1>3. Covers(t, db)'
  BY <1>1, <1>2 DEF Covers
<1>4. ASSUME NEW e, Covers(t, e) PROVE Pairs(e) \subseteq ever'[t] /\ always'[t] \subseteq Present(e)
  BY <1>1, <1>4 DEF Covers
<1> QED BY <1>1, <1>3, <1>4 DEF Covers

LEMMA HistNext == TypeInv /\ HistInv /\ [Next]_vars => HistInv'
<1> SUFFICES ASSUME TypeInv, HistInv, [Next]_vars, NEW u \in Threads, th'[u].req.op # "none"
             PROVE  Covers(u, db)' /\ (th'[u].view # Nothing => Covers(u, th[u].view)')
  BY DEF HistInv
<1>1. CASE UNCHANGED vars
  BY <1>1 DEF HistInv, vars, Covers, Pairs, Present
<1>2. ASSUME NEW t \in Threads, Step(t) PROVE Covers(u, db)' /\ (th'[u].view # Nothing => Covers(u, th[u].view)')
  <2>1. Frame(t) /\ Kind(t)
    BY <1>2, StepCases
  <2>2. CASE Receives(t)
    <3>1. CASE u = t
      <4>1. ever'[t] = Pairs(db) /\ always'[t] = Present(db) /\ db' = db /\ th'[t].view = Nothing
        BY <2>2 DEF Receives, TypeInv
      <4>2. Pairs(db)' = Pairs(db) /\ Present(db)' = Present(db)
        BY <4>1 DEF Pairs, Present
      <4> QED BY <3>1, <4>1, <4>2 DEF Covers
    <3>2. CASE u # t
      <4>1. ever'[u] = ever[u] /\ always'[u] = always[u] /\ db' = db /\ th'[u] = th[u]
        BY <2>1, <2>2, <3>2 DEF Receives, TypeInv, Frame
      <4> QED BY <4>1 DEF HistInv, Covers, Pairs, Present
    <3> QED BY <3>1, <3>2
  <2>3. CASE ~Receives(t)
    <3>1. th'[u].req = th[u].req /\ (th'[u].view \in {th[u].view, Nothing} \/ (th'[u].view = db /\ UNCHANGED <<db, ever, always>>))
      BY <2>1, <2>3, ViewKinds DEF Frame
    <3>2. Covers(u, db) /\ (th[u].view # Nothing => Covers(u, th[u].view))
      BY <3>1 DEF HistInv
    <3>3. CASE UNCHANGED <<db, ever, always>>
      BY <3>1, <3>2, <3>3 DEF Covers, Pairs, Present
    <3>4. CASE ~UNCHANGED <<db, ever, always>>
      <4>1. PICK d : Write(d)
        BY <2>1, <2>3, <3>4, DataKinds
      <4>2. th'[u].view \in {th[u].view, Nothing}
        BY <3>1, <3>4
      <4>3. Covers(u, db)' /\ \A e : Covers(u, e) => Covers(u, e)'
        BY <4>1, WriteCovers
      <4>4. PICK e : e = th'[u].view
        OBVIOUS
      <4>5. e # Nothing => Covers(u, e)'
        BY <3>2, <4>2, <4>3, <4>4
      <4> QED BY <4>3, <4>4, <4>5 DEF Covers, Pairs, Present
    <3> QED BY <3>3, <3>4
  <2> QED BY <2>2, <2>3
<1> QED BY <1>1, <1>2 DEF Next

\* The values of a key during the request of a thread.
Had(t, k) == {p[2] : p \in {q \in ever[t] : q[1] = k}}

\* What may be said of key n of a request.
Fine(t, n, a) ==
  LET k == th[t].req.keys[n] IN
  CASE th[t].req.op = "exists" -> (a => Had(t, k) # {}) /\ (k \in always[t] => a)
    [] th[t].req.op = "length" -> \/ a = Absent /\ k \notin always[t]
                                  \/ \E v \in Had(t, k) : a = Length(v)
    [] OTHER -> \/ a = Absent /\ k \notin always[t]
                \/ a = TooSmall /\ Had(t, k) # {}
                \/ a = TooSmall /\ th[t].req.packed
                \/ a \in Had(t, k)

GotInv ==
  \A t \in Threads : th[t].req.op \in Lookups =>
    /\ \A n \in DOMAIN th[t].got : Fine(t, n, th[t].got[n])
    /\ th[t].op = th[t].req.op /\ th[t].pc \in {"enter", "body", "call"} => th[t].idx = Len(th[t].got) + 1

LEMMA ReadsFine == GotInv => ReadsCurrent
BY DEF GotInv, ReadsCurrent, Fine, Had, Answers, Lookups

\* What a lookup finds of the key it looks at is true.
LEMMA FindsTrue ==
  ASSUME TypeInv, HistInv, NEW t \in Threads, Looks(t), NEW a, Says(t, a)
  PROVE  Fine(t, th[t].idx, a)
<1>1. th[t].op = th[t].req.op /\ Request(th[t].req) /\ th[t].op \in Lookups /\ More(t) /\ th[t].req.op # "none"
  <2>1. Placed(t) /\ Request(th[t].req)
    BY RequestOf DEF Looks, Goes
  <2> QED BY <2>1 DEF Looks, Goes, Placed, Lookups
<1>2. Key(t) \in Keys /\ Key(t) = th[t].req.keys[th[t].idx]
  <2>1. th[t].idx \in 1 .. Len(th[t].req.keys) /\ th[t].req.keys \in Seq(Keys)
    BY <1>1, LenProperties DEF More, TypeInv, Request
  <2> QED BY <2>1, ElementOfSeq DEF Key
<1>3. Covers(t, Seen(t))
  BY <1>1 DEF HistInv, Seen
<1>4. Found(t) => Seen(t)[Key(t)] \in Had(t, Key(t))
  <2>1. Found(t) => <<Key(t), Seen(t)[Key(t)]>> \in Pairs(Seen(t))
    BY <1>2 DEF Found, Pairs, Present
  <2>2. Found(t) => <<Key(t), Seen(t)[Key(t)]>> \in ever[t]
    BY <1>3, <2>1 DEF Covers
  <2> QED BY <2>2 DEF Had
<1>5. ~Found(t) => Key(t) \notin always[t]
  BY <1>2, <1>3 DEF Covers, Present, Found
<1>6. CASE th[t].op = "exists"
  <2>1. a = Found(t)
    BY <1>6 DEF Says
  <2> QED BY <1>1, <1>2, <1>4, <1>5, <1>6, <2>1 DEF Fine
<1>7. CASE th[t].op = "length"
  <2>1. a = Size(t)
    BY <1>7 DEF Says
  <2>2. Found(t) => a = Length(Seen(t)[Key(t)])
    BY <2>1 DEF Size
  <2>3. ~Found(t) => a = Absent
    BY <2>1 DEF Size
  <2> QED BY <1>1, <1>2, <1>4, <1>5, <1>7, <2>2, <2>3 DEF Fine
<1>8. CASE th[t].op = "get"
  <2>1. \/ Found(t) /\ a = Seen(t)[Key(t)]
        \/ ~Found(t) /\ a = Absent
        \/ Found(t) /\ a = TooSmall
    BY <1>8 DEF Says
  <2> QED BY <1>1, <1>2, <1>4, <1>5, <1>8, <2>1 DEF Fine
<1>9. CASE th[t].op = "fetch"
  <2>1. a = Seen(t)[Key(t)]
    BY <1>9 DEF Says
  <2>2. ~Found(t) => a = Absent
    BY <2>1 DEF Found
  <2> QED BY <1>1, <1>2, <1>4, <1>5, <1>9, <2>1, <2>2 DEF Fine
<1> QED BY <1>1, <1>6, <1>7, <1>8, <1>9 DEF Lookups

\* What was true of a request stays so.
LEMMA FineKept ==
  ASSUME NEW t \in Threads, NEW n, NEW a, Fine(t, n, a), th'[t].req = th[t].req,
         ever[t] \subseteq ever'[t], always'[t] \subseteq always[t]
  PROVE  Fine(t, n, a)'
<1>1. \A k : Had(t, k) \subseteq Had(t, k)'
  BY DEF Had
<1>2. CASE th[t].req.op = "exists"
  BY <1>1, <1>2 DEF Fine
<1>3. CASE th[t].req.op = "length"
  BY <1>1, <1>3 DEF Fine
<1>4. CASE th[t].req.op \notin {"exists", "length"}
  BY <1>1, <1>4 DEF Fine
<1> QED BY <1>2, <1>3, <1>4

LEMMA GotInit == Init => GotInv
BY DEF Init, GotInv, Idle, Lookups

\* The thread that takes a step, where it has none of the answers.
LEMMA GotLooks ==
  ASSUME TypeInv, HistInv, GotInv, NEW t \in Threads, Frame(t), Looks(t), th[t].req.op \in Lookups
  PROVE  /\ \A n \in DOMAIN th'[t].got : Fine(t, n, th[t].got[n])'
         /\ th'[t].idx = Len(th'[t].got) + 1
<1>1. th'[t].req = th[t].req /\ UNCHANGED <<db, ever, always>> /\ Placed(t) /\ Request(th[t].req)
  BY RequestOf DEF Looks, Same, Goes, data
<1>2. th[t].op = th[t].req.op /\ th[t].pc = "body" /\ More(t) /\ Len(th[t].req.keys) \in Nat
  BY <1>1, LenProperties DEF Looks, Placed, Lookups, Goes, Request
<1>3. th[t].idx = Len(th[t].got) + 1 /\ \A n \in DOMAIN th[t].got : Fine(t, n, th[t].got[n])
  BY <1>2 DEF GotInv
<1>4. IsList(th[t].got) /\ Len(th[t].got) \in Nat /\ DOMAIN th[t].got = 1 .. Len(th[t].got)
  BY LenProperties DEF TypeInv, IsList
<1>5. \A n, a : Fine(t, n, a) => Fine(t, n, a)'
  BY <1>1, FineKept
<1>6. ASSUME NEW a, Says(t, a), th'[t].idx = th[t].idx + 1, th'[t].got = Append(th[t].got, a)
      PROVE  /\ \A n \in DOMAIN th'[t].got : Fine(t, n, th[t].got[n])'
             /\ th'[t].idx = Len(th'[t].got) + 1
  <2>1. Fine(t, th[t].idx, a)
    BY <1>6, FindsTrue
  <2>2. IsList(Append(th[t].got, a)) /\ Len(Append(th[t].got, a)) = Len(th[t].got) + 1
    BY <1>4, ListAppend
  <2>3. DOMAIN th'[t].got = 1 .. Len(th[t].got) + 1
    BY <1>6, <2>2, LenProperties DEF IsList
  <2>4. \A n \in 1 .. Len(th[t].got) : th'[t].got[n] = th[t].got[n]
    BY <1>4, <1>6 DEF IsList
  <2>5. th'[t].got[Len(th[t].got) + 1] = a
    BY <1>4, <1>6 DEF IsList
  <2>6. ASSUME NEW n \in DOMAIN th'[t].got PROVE Fine(t, n, th[t].got[n])'
    <3>1. CASE n \in 1 .. Len(th[t].got)
      <4>1. Fine(t, n, th[t].got[n]) /\ th'[t].got[n] = th[t].got[n]
        BY <1>3, <1>4, <2>4, <3>1
      <4>2. PICK b : b = th[t].got[n]
        OBVIOUS
      <4>3. Fine(t, n, b)' /\ th'[t].got[n] = b
        BY <1>5, <4>1, <4>2
      <4> QED BY <4>3 DEF Fine, Had
    <3>2. CASE n = Len(th[t].got) + 1
      <4>1. Fine(t, n, a)' /\ th'[t].got[n] = a
        BY <1>3, <1>5, <2>1, <2>5, <3>2
      <4> QED BY <4>1 DEF Fine, Had
    <3> QED BY <1>4, <2>3, <3>1, <3>2
  <2> QED BY <1>3, <1>4, <1>6, <2>2, <2>6
<1>7. ASSUME th[t].op = "get", th[t].req.packed, th'[t].idx = Len(th[t].req.keys) + 1,
             th'[t].got = th[t].got \o [m \in 1 .. Len(th[t].req.keys) - th[t].idx + 1 |-> TooSmall]
      PROVE  /\ \A n \in DOMAIN th'[t].got : Fine(t, n, th[t].got[n])'
             /\ th'[t].idx = Len(th'[t].got) + 1
  <2>1. PICK k : k = Len(th[t].req.keys) - th[t].idx + 1
    OBVIOUS
  <2>2. k \in Nat
    BY <1>2, <2>1 DEF More, TypeInv
  <2>13. PICK l : l = Len(th[t].got)
    OBVIOUS
  <2>14. l \in Nat /\ th[t].idx = l + 1
    BY <1>3, <1>4, <2>13
  <2>3. PICK f : f = [m \in 1 .. k |-> TooSmall]
    OBVIOUS
  <2>4. f = [m \in 1 .. k |-> f[m]] /\ \A m \in 1 .. k : f[m] = TooSmall
    BY <2>3
  <2>5. IsList(f) /\ Len(f) = k
    BY <2>2, <2>4, ListTo
  <2>6. th'[t].got = th[t].got \o f
    BY <1>7, <2>1, <2>3
  <2>7. IsList(th[t].got \o f) /\ Len(th[t].got \o f) = Len(th[t].got) + k
    BY <1>4, <2>5, ListConcat
  <2>8. DOMAIN th'[t].got = 1 .. Len(th[t].got) + k /\ Len(th'[t].got) = Len(th[t].got) + k
    BY <2>6, <2>7, LenProperties DEF IsList
  <2>9. \A n \in 1 .. l + k :
          th'[t].got[n] = IF n <= l THEN th[t].got[n] ELSE f[n - l]
    <3>1. th[t].got \in Seq({th[t].got[n] : n \in DOMAIN th[t].got} \cup {TooSmall})
      <4>1. th[t].got \in [1 .. Len(th[t].got) -> {th[t].got[n] : n \in DOMAIN th[t].got}]
        BY <1>4, LenProperties DEF IsList
      <4>2. th[t].got \in [1 .. Len(th[t].got) -> {th[t].got[n] : n \in DOMAIN th[t].got} \cup {TooSmall}]
        BY <4>1
      <4> QED BY <1>4, <4>2, SeqDef
    <3>2. f \in Seq({th[t].got[n] : n \in DOMAIN th[t].got} \cup {TooSmall})
      BY <2>2, <2>3, SeqDef
    <3> QED BY <2>5, <2>6, <2>13, <3>1, <3>2, ConcatProperties
  <2>10. Fine(t, 1, TooSmall) /\ \A n : Fine(t, n, TooSmall)
    BY <1>2, <1>7 DEF Fine
  <2>11. ASSUME NEW n \in DOMAIN th'[t].got PROVE Fine(t, n, th[t].got[n])'
    <3>0. n \in 1 .. l + k
      BY <2>8, <2>13
    <3>1. CASE n <= l
      <4>0. n \in 1 .. l
        BY <2>2, <2>14, <3>0, <3>1
      <4>1. Fine(t, n, th[t].got[n]) /\ th'[t].got[n] = th[t].got[n]
        BY <1>3, <1>4, <2>9, <2>13, <3>0, <3>1, <4>0
      <4>2. PICK b : b = th[t].got[n]
        OBVIOUS
      <4>3. Fine(t, n, b)' /\ th'[t].got[n] = b
        BY <1>5, <4>1, <4>2
      <4> QED BY <4>3 DEF Fine, Had
    <3>2. CASE ~(n <= l)
      <4>1. n - l \in 1 .. k
        BY <2>2, <2>14, <3>0, <3>2
      <4>2. th'[t].got[n] = f[n - l]
        BY <2>9, <3>0, <3>2
      <4>3. th'[t].got[n] = TooSmall
        BY <2>4, <4>1, <4>2
      <4>4. Fine(t, n, TooSmall)'
        BY <1>5, <2>10
      <4> QED BY <4>3, <4>4 DEF Fine, Had
    <3> QED BY <3>1, <3>2
  <2>12. th'[t].idx = Len(th'[t].got) + 1
    <3>1. PICK m : m = Len(th[t].req.keys)
      OBVIOUS
    <3>2. m \in Nat /\ k = m - (l + 1) + 1 /\ th'[t].idx = m + 1
      BY <1>2, <1>7, <2>1, <2>14, <3>1
    <3>3. Len(th'[t].got) = l + k
      BY <2>8, <2>13
    <3> QED BY <2>2, <2>14, <3>2, <3>3
  <2> QED BY <2>11, <2>12
<1> QED BY <1>6, <1>7 DEF Looks

LEMMA GotNext == TypeInv /\ HistInv /\ GotInv /\ [Next]_vars => GotInv'
<1> SUFFICES ASSUME TypeInv, HistInv, GotInv, [Next]_vars, NEW u \in Threads, th'[u].req.op \in Lookups
             PROVE  /\ \A n \in DOMAIN th'[u].got : Fine(u, n, th[u].got[n])'
                    /\ (th[u].op = th[u].req.op /\ th[u].pc \in {"enter", "body", "call"})'
                         => th'[u].idx = Len(th'[u].got) + 1
  BY DEF GotInv
<1>1. CASE UNCHANGED vars
  BY <1>1 DEF GotInv, vars, Fine, Had
<1>2. ASSUME NEW t \in Threads, Step(t)
      PROVE  /\ \A n \in DOMAIN th'[u].got : Fine(u, n, th[u].got[n])'
             /\ (th[u].op = th[u].req.op /\ th[u].pc \in {"enter", "body", "call"})'
                  => th'[u].idx = Len(th'[u].got) + 1
  <2>1. Frame(t) /\ Kind(t)
    BY <1>2, StepCases
  <2>2. CASE Receives(t) /\ u = t
    BY <2>2, EmptySeq DEF Receives
  <2>3. CASE ~Receives(t) \/ u # t
    <3>1. th'[u].req = th[u].req /\ ever[u] \subseteq ever'[u] /\ always'[u] \subseteq always[u]
      <4>1. CASE Receives(t)
        BY <2>1, <2>3, <4>1 DEF Receives, Frame, TypeInv
      <4>2. CASE ~Receives(t)
        <5>1. UNCHANGED <<db, ever, always>> \/ \E d : Write(d)
          BY <2>1, <4>2, DataKinds
        <5>2. ever[u] \subseteq ever'[u] /\ always'[u] \subseteq always[u]
          BY <5>1, WriteCovers
        <5> QED BY <2>1, <4>2, <5>2, ViewKinds DEF Frame
      <4> QED BY <4>1, <4>2
    <3>2. \A n, a : Fine(u, n, a) => Fine(u, n, a)'
      BY <3>1, FineKept
    <3>3. /\ \A n \in DOMAIN th[u].got : Fine(u, n, th[u].got[n])
          /\ th[u].op = th[u].req.op /\ th[u].pc \in {"enter", "body", "call"} => th[u].idx = Len(th[u].got) + 1
      BY <3>1 DEF GotInv
    <3>4. ASSUME th'[u].got = th[u].got PROVE \A n \in DOMAIN th'[u].got : Fine(u, n, th[u].got[n])'
      <4>1. ASSUME NEW n \in DOMAIN th[u].got PROVE Fine(u, n, th[u].got[n])'
        <5>1. PICK b : b = th[u].got[n]
          OBVIOUS
        <5>2. Fine(u, n, b)' /\ th'[u].got[n] = b
          BY <3>2, <3>3, <3>4, <5>1
        <5> QED BY <5>2 DEF Fine, Had
      <4> QED BY <3>4, <4>1
    <3>5. CASE u # t
      <4>1. th'[u] = th[u]
        BY <2>1, <3>5 DEF Frame
      <4> QED BY <3>3, <3>4, <4>1
    <3>6. CASE u = t /\ Looks(t)
      BY <2>1, <3>1, <3>6, GotLooks
    <3>7. CASE u = t /\ ~Looks(t)
      <4>1. ~Receives(t) /\ th[t].pc # "idle" /\ Placed(t)
        <5>1. ~Receives(t)
          BY <2>3, <3>7
        <5>2. th[t].pc # "idle"
          BY <2>1, <3>7, <5>1 DEF Kind, Refuses, Enters, EntersWriting, Visits, Resumes, Ends, Lists, Consumes,
             WritesAll, WritesOne, Skips, Unlocks, Checks, HandsOver, GivesUp, Goes
        <5> QED BY <5>1, <5>2, RequestOf
      <4>2. th[t].op \in {th[t].req.op, "erase"} /\ th[t].req.op \in Lookups
        BY <3>1, <3>7, <4>1 DEF Placed
      <4>3. CASE Refuses(t) \/ Enters(t) \/ EntersWriting(t) \/ Resumes(t) \/ Ends(t) \/ WritesAll(t)
                 \/ Unlocks(t) \/ Checks(t) \/ HandsOver(t) \/ GivesUp(t)
        <5>1. th'[t].idx = th[t].idx /\ th'[t].got = th[t].got /\ th'[t].op = th[t].op
          BY <4>3 DEF Refuses, Enters, EntersWriting, Resumes, Ends, WritesAll, Unlocks, Checks, HandsOver, GivesUp,
             Still, Same
        <5>2. th'[t].pc \in {"enter", "body", "call"} => th[t].pc \in {"enter", "body", "call"}
          BY <4>3 DEF Refuses, Enters, EntersWriting, Resumes, Ends, WritesAll, Unlocks, Checks, HandsOver, GivesUp,
             Goes, Back
        <5> QED BY <3>1, <3>3, <3>4, <3>7, <5>1, <5>2
      <4>4. CASE Visits(t) \/ Lists(t)
        <5>1. FALSE
          BY <4>2, <4>4 DEF Visits, Lists, Walks, ListOps, Lookups
        <5> QED BY <5>1
      <4>5. CASE Consumes(t) \/ WritesOne(t) \/ Skips(t)
        <5>1. th'[t].got = th[t].got /\ th'[t].op # th'[t].req.op
          BY <4>2, <4>5 DEF Consumes, WritesOne, Skips, Same, Lookups
        <5> QED BY <3>4, <3>7, <5>1
      <4> QED BY <2>1, <3>7, <4>1, <4>3, <4>4, <4>5 DEF Kind
    <3> QED BY <3>5, <3>6, <3>7
  <2> QED BY <2>2, <2>3
<1> QED BY <1>1, <1>2 DEF Next

\* No lookup of any backend misses a key that was there all the time, or
\* reports a value that was never there, whatever the other requests wrote.
THEOREM ReadsCurrentHolds == Spec => []ReadsCurrent
<1>1. Init => TypeInv /\ HistInv /\ GotInv
  BY TypeInit, HistInit, GotInit
<1>2. TypeInv /\ HistInv /\ GotInv /\ [Next]_vars => (TypeInv /\ HistInv /\ GotInv)'
  BY TypeNext, HistNext, GotNext
<1> QED BY <1>1, <1>2, ReadsFine, PTL DEF Spec

-----------------------------------------------------------------------------
(* The lock, and what a migration hands over *)

\* The backends that take the lock; gdbm's consumers leave it twice.
Locked ==
  /\ conf.use_lock /\ conf.backend # "berkeleydb"
  /\ conf.backend = "gdbm" => \A t \in Threads : \A r \in conf.requests[t] :
                                r.op \in {"get", "fetch"} => "consume" \notin r.modes

\* The read section of an operation, that of the erase a consumer calls, and
\* the sections of the writers.
Reading(t) == \/ th[t].pc \in {"body", "call"} /\ ~Whole(t) /\ ~Consuming(t)
              \/ th[t].pc \in {"enter", "body", "unlock2"} /\ Consuming(t)
Erasing(t) == th[t].pc = "body" /\ Consuming(t)
Writing(t) == th[t].pc = "transfer" \/ (th[t].pc = "body" /\ Whole(t))

Outer == {t \in Threads : Reading(t)}
Inner == {t \in Threads : Erasing(t)}

LockInv ==
  Locked =>
    /\ readers = Cardinality(Outer) + Cardinality(Inner)
    /\ writing \in BOOLEAN
    /\ \A t \in Threads : Writing(t) => writing /\ Outer = {} /\ \A u \in Threads : Writing(u) => u = t
    /\ writing => \E t \in Threads : Writing(t)

LEMMA LockInit0 == Init => LockInv
<1> SUFFICES ASSUME Init PROVE LockInv
  OBVIOUS
<1>1. \A t \in Threads : th[t].pc = "idle"
  BY DEF Init, Idle
<1>2. Outer = {} /\ Inner = {} /\ \A t \in Threads : ~Writing(t)
  BY <1>1 DEF Outer, Inner, Reading, Erasing, Writing
<1>3. Cardinality(Outer) = 0 /\ Cardinality(Inner) = 0
  BY <1>2, FS_EmptySet
<1>4. readers = 0 /\ writing = FALSE
  BY DEF Init, LockInit
<1>5. readers = Cardinality(Outer) + Cardinality(Inner)
  BY <1>3, <1>4
<1> QED BY <1>2, <1>4, <1>5 DEF LockInv

\* What a step does to the sections.
Stays(t)    == UNCHANGED lock /\ (Reading(t)' <=> Reading(t)) /\ (Erasing(t)' <=> Erasing(t)) /\ (Writing(t)' <=> Writing(t))
BeginsTo(t) == /\ Rdlock /\ ~Writing(t) /\ ~(Writing(t)') /\ ~Erasing(t) /\ Reading(t)'
               /\ Erasing(t)' <=> Reading(t)
StopsTo(t)  == /\ Unlock /\ ~Writing(t) /\ ~(Writing(t)') /\ ~(Erasing(t)') /\ Reading(t)
               /\ Reading(t)' <=> Erasing(t)
Reserves(t) == Wrlock /\ Writing(t)' /\ ~Reading(t) /\ ~(Reading(t)') /\ ~Erasing(t) /\ ~(Erasing(t)')
Gives(t)    == Unlock /\ Writing(t) /\ ~(Writing(t)') /\ ~Reading(t) /\ ~(Reading(t)') /\ ~Erasing(t) /\ ~(Erasing(t)')

LEMMA SectionStep ==
  ASSUME TypeInv, Locked, NEW t \in Threads, Frame(t), Kind(t)
  PROVE  Stays(t) \/ BeginsTo(t) \/ StopsTo(t) \/ Reserves(t) \/ Gives(t)
<1>0. /\ HasLock /\ conf' = conf /\ conf.backend # "berkeleydb"
      /\ ReadLock => Rdlock
      /\ WriteLock => Wrlock
      /\ Release => Unlock
  BY DEF Locked, HasLock, ReadLock, WriteLock, Release, Frame
<1>1. CASE Receives(t)
  BY <1>0, <1>1 DEF Receives, Stays, Reading, Erasing, Writing, Consuming
<1>2. ASSUME ~Receives(t) PROVE Placed(t)
  <2>1. th[t].pc # "idle"
    BY <1>2 DEF Kind, Refuses, Enters, EntersWriting, Looks, Visits, Resumes, Ends, Lists, Consumes, WritesAll,
       WritesOne, Skips, Unlocks, Checks, HandsOver, GivesUp, Goes
  <2> QED BY <2>1 DEF TypeInv
<1> USE DEF Goes, Same, Consuming, Reading, Erasing, Writing, Whole
<1>3. CASE ~Receives(t) /\ Refuses(t)
  BY <1>0, <1>2, <1>3 DEF Refuses, Placed, Stays, Back
<1>4. CASE ~Receives(t) /\ Enters(t)
  BY <1>0, <1>2, <1>4 DEF Enters, Placed, BeginsTo
<1>5. CASE ~Receives(t) /\ EntersWriting(t)
  BY <1>0, <1>2, <1>5 DEF EntersWriting, Placed, Reserves
<1>6. CASE ~Receives(t) /\ (Looks(t) \/ Visits(t) \/ Resumes(t))
  BY <1>0, <1>2, <1>6 DEF Looks, Visits, Resumes, Placed, Lookups, Walks, Stays
<1>7. CASE ~Receives(t) /\ (WritesOne(t) \/ Skips(t))
  BY <1>0, <1>2, <1>7 DEF WritesOne, Skips, Placed, Stays
<1>8. CASE ~Receives(t) /\ (Ends(t) \/ Lists(t) \/ WritesAll(t))
  <2>1. Unlock /\ th[t].pc \in {"body", "call"} /\ th'[t].op = th[t].op /\ th'[t].req = th[t].req
        /\ th'[t].pc \in {"idle", "unlock2"} /\ (Consuming(t) <=> th'[t].pc = "unlock2")
    <3>1. CASE Ends(t)
      BY <1>0, <3>1 DEF Ends, Back
    <3>2. CASE Lists(t)
      BY <1>0, <1>2, <1>8, <3>2 DEF Lists, ListOps, Placed
    <3>3. CASE WritesAll(t)
      BY <1>0, <3>3 DEF WritesAll, Back
    <3> QED BY <1>8, <3>1, <3>2, <3>3
  <2>2. CASE Whole(t)
    BY <1>0, <1>2, <1>8, <2>1, <2>2 DEF Placed, Gives
  <2>3. CASE ~Whole(t)
    BY <1>0, <1>2, <1>8, <2>1, <2>3 DEF Placed, StopsTo
  <2> QED BY <2>2, <2>3
<1>9. CASE ~Receives(t) /\ Consumes(t)
  <2>1. conf.backend # "gdbm" /\ th[t].op = th[t].req.op
    BY <1>2, <1>9 DEF Consumes, Locked, Placed, Has
  <2> QED BY <1>0, <1>9, <2>1 DEF Consumes, Stays
<1>10. CASE ~Receives(t) /\ Unlocks(t)
  BY <1>0, <1>2, <1>10 DEF Unlocks, Placed, StopsTo
<1>11. CASE ~Receives(t) /\ Checks(t)
  BY <1>0, <1>2, <1>11 DEF Checks, Placed, Stays
<1>12. CASE ~Receives(t) /\ HandsOver(t)
  BY <1>0, <1>2, <1>12 DEF HandsOver, Placed, Reserves
<1>13. CASE ~Receives(t) /\ GivesUp(t)
  BY <1>0, <1>2, <1>13 DEF GivesUp, Placed, Gives, Back
<1> QED BY <1>1, <1>3, <1>4, <1>5, <1>6, <1>7, <1>8, <1>9, <1>10, <1>11, <1>12, <1>13 DEF Kind

\* The sets of the threads in a section, after a step of one thread.
LEMMA SectionSets ==
  ASSUME NEW t \in Threads, \A u \in Threads \ {t} : (Reading(u)' <=> Reading(u)) /\ (Erasing(u)' <=> Erasing(u))
  PROVE  /\ Outer' = (IF Reading(t)' THEN Outer \cup {t} ELSE Outer \ {t})
         /\ Inner' = (IF Erasing(t)' THEN Inner \cup {t} ELSE Inner \ {t})
BY DEF Outer, Inner

\* There are few enough readers to count them.
LEMMA SectionsFinite ==
  /\ IsFiniteSet(Outer) /\ IsFiniteSet(Inner)
  /\ Cardinality(Outer) \in Nat /\ Cardinality(Inner) \in Nat
  /\ Cardinality(Outer) + Cardinality(Inner) <= UnsignedMax
<1>1. IsFiniteSet(Threads) /\ 2 * Cardinality(Threads) <= UnsignedMax /\ UnsignedMax \in Nat
  BY ThreadsAssumption, UnsignedMaxAssumption DEF ThreadsAssumption, UnsignedMaxAssumption
<1>2. Outer \subseteq Threads /\ Inner \subseteq Threads
  BY DEF Outer, Inner
<1>3. /\ IsFiniteSet(Outer) /\ IsFiniteSet(Inner)
      /\ Cardinality(Outer) <= Cardinality(Threads) /\ Cardinality(Inner) <= Cardinality(Threads)
  BY <1>1, <1>2, FS_Subset
<1>4. Cardinality(Outer) \in Nat /\ Cardinality(Inner) \in Nat /\ Cardinality(Threads) \in Nat
  BY <1>1, <1>3, FS_CardinalityType
<1> QED BY <1>1, <1>3, <1>4

LEMMA SectionsFiniteNext ==
  /\ IsFiniteSet(Outer') /\ IsFiniteSet(Inner')
  /\ Cardinality(Outer') \in Nat /\ Cardinality(Inner') \in Nat
  /\ Cardinality(Outer') + Cardinality(Inner') <= UnsignedMax
<1>1. IsFiniteSet(Threads) /\ 2 * Cardinality(Threads) <= UnsignedMax /\ UnsignedMax \in Nat
  BY ThreadsAssumption, UnsignedMaxAssumption DEF ThreadsAssumption, UnsignedMaxAssumption
<1>2. Outer' \subseteq Threads /\ Inner' \subseteq Threads
  BY DEF Outer, Inner
<1>3. /\ IsFiniteSet(Outer') /\ IsFiniteSet(Inner')
      /\ Cardinality(Outer') <= Cardinality(Threads) /\ Cardinality(Inner') <= Cardinality(Threads)
  BY <1>1, <1>2, FS_Subset
<1>4. Cardinality(Outer') \in Nat /\ Cardinality(Inner') \in Nat /\ Cardinality(Threads) \in Nat
  BY <1>1, <1>3, FS_CardinalityType
<1> QED BY <1>1, <1>3, <1>4

LEMMA LockNext == TypeInv /\ LockInv /\ [Next]_vars => LockInv'
<1> SUFFICES ASSUME TypeInv, LockInv, [Next]_vars, Locked' PROVE LockInv'
  BY DEF LockInv
<1>1. CASE UNCHANGED vars
  <2>1. \A t \in Threads : (Reading(t)' <=> Reading(t)) /\ (Erasing(t)' <=> Erasing(t)) /\ (Writing(t)' <=> Writing(t))
    BY <1>1 DEF vars, Reading, Erasing, Writing, Consuming, Whole
  <2>2. Outer' = Outer /\ Inner' = Inner /\ Locked
    BY <1>1, <2>1 DEF vars, Outer, Inner, Locked
  <2> QED BY <1>1, <2>1, <2>2 DEF vars, lock, LockInv
<1>2. ASSUME NEW t \in Threads, Step(t) PROVE LockInv'
  <2>1. Frame(t) /\ Kind(t)
    BY <1>2, StepCases
  <2>2. Locked
    BY <2>1 DEF Locked, Frame
  <2>3. \A u \in Threads \ {t} : /\ (Reading(u)' <=> Reading(u)) /\ (Erasing(u)' <=> Erasing(u))
                                 /\ (Writing(u)' <=> Writing(u))
    BY <2>1 DEF Frame, Reading, Erasing, Writing, Consuming, Whole
  <2>4. /\ Outer' = (IF Reading(t)' THEN Outer \cup {t} ELSE Outer \ {t})
        /\ Inner' = (IF Erasing(t)' THEN Inner \cup {t} ELSE Inner \ {t})
    BY <2>3, SectionSets
  <2>5. /\ readers = Cardinality(Outer) + Cardinality(Inner)
        /\ writing \in BOOLEAN
        /\ \A u \in Threads : Writing(u) => writing /\ Outer = {} /\ \A w \in Threads : Writing(w) => w = u
        /\ writing => \E u \in Threads : Writing(u)
    BY <2>2 DEF LockInv
  <2>6. (t \in Outer <=> Reading(t)) /\ (t \in Inner <=> Erasing(t))
    BY DEF Outer, Inner
  <2>7. CASE Stays(t)
    <3>1. Outer' = Outer /\ Inner' = Inner
      BY <2>4, <2>6, <2>7 DEF Stays
    <3>2. \A u \in Threads : Writing(u)' <=> Writing(u)
      BY <2>3, <2>7 DEF Stays
    <3>3. readers' = readers /\ writing' = writing
      BY <2>7 DEF Stays, lock
    <3> QED BY <2>5, <3>1, <3>2, <3>3 DEF LockInv
  <2>8. CASE BeginsTo(t)
    <3>1. Cardinality(Outer') + Cardinality(Inner') = Cardinality(Outer) + Cardinality(Inner) + 1
      <4>1. CASE Reading(t)
        <5>1. Outer' = Outer /\ Inner' = Inner \cup {t} /\ t \notin Inner
          BY <2>4, <2>6, <2>8, <4>1 DEF BeginsTo
        <5>2. Cardinality(Inner') = Cardinality(Inner) + 1
          BY <5>1, SectionsFinite, FS_AddElement
        <5> QED BY <5>1, <5>2, SectionsFinite
      <4>2. CASE ~Reading(t)
        <5>1. Outer' = Outer \cup {t} /\ Inner' = Inner /\ t \notin Outer
          BY <2>4, <2>6, <2>8, <4>2 DEF BeginsTo
        <5>2. Cardinality(Outer') = Cardinality(Outer) + 1
          BY <5>1, SectionsFinite, FS_AddElement
        <5> QED BY <5>1, <5>2, SectionsFinite
      <4> QED BY <4>1, <4>2
    <3>2. readers' = Cardinality(Outer') + Cardinality(Inner') /\ writing' = FALSE /\ writing = FALSE
      <4>1. readers' = (readers + 1) % (UnsignedMax + 1) /\ writing' = writing /\ ~writing
        BY <2>8 DEF BeginsTo, Rdlock
      <4>2. readers + 1 \in 0 .. UnsignedMax /\ UnsignedMax \in Nat
        BY <2>5, <3>1, SectionsFinite, SectionsFiniteNext, UnsignedMaxAssumption DEF UnsignedMaxAssumption
      <4>3. (readers + 1) % (UnsignedMax + 1) = readers + 1
        BY <4>2
      <4> QED BY <2>5, <3>1, <4>1, <4>3, SectionsFinite
    <3>3. \A u \in Threads : ~(Writing(u)')
      BY <2>3, <2>5, <2>8, <3>2 DEF BeginsTo
    <3> QED BY <3>2, <3>3 DEF LockInv
  <2>9. CASE StopsTo(t)
    <3>1. Cardinality(Outer') + Cardinality(Inner') = Cardinality(Outer) + Cardinality(Inner) - 1
      <4>1. CASE Erasing(t)
        <5>1. Outer' = Outer /\ Inner' = Inner \ {t} /\ t \in Inner
          BY <2>4, <2>6, <2>9, <4>1 DEF StopsTo
        <5>2. Cardinality(Inner') = Cardinality(Inner) - 1
          BY <5>1, SectionsFinite, FS_RemoveElement
        <5> QED BY <5>1, <5>2, SectionsFinite
      <4>2. CASE ~Erasing(t)
        <5>1. Outer' = Outer \ {t} /\ Inner' = Inner /\ t \in Outer
          BY <2>4, <2>6, <2>9, <4>2 DEF StopsTo
        <5>2. Cardinality(Outer') = Cardinality(Outer) - 1
          BY <5>1, SectionsFinite, FS_RemoveElement
        <5> QED BY <5>1, <5>2, SectionsFinite
      <4> QED BY <4>1, <4>2
    <3>2. writing = FALSE
      BY <2>5, <2>6, <2>9 DEF StopsTo
    <3>3. readers' = Cardinality(Outer') + Cardinality(Inner') /\ writing' = FALSE
      <4>1. writing' = FALSE /\ readers' = IF readers = 0 THEN UnsignedMax ELSE readers - 1
        BY <2>9, <3>2 DEF StopsTo, Unlock
      <4>2. readers # 0 /\ readers - 1 = Cardinality(Outer') + Cardinality(Inner')
        BY <2>5, <3>1, SectionsFinite, SectionsFiniteNext
      <4> QED BY <4>1, <4>2
    <3>4. \A u \in Threads : ~(Writing(u)')
      BY <2>3, <2>5, <2>9, <3>2 DEF StopsTo
    <3> QED BY <3>3, <3>4 DEF LockInv
  <2>10. CASE Reserves(t)
    <3>1. Outer' = Outer /\ Inner' = Inner
      BY <2>4, <2>6, <2>10 DEF Reserves
    <3>2. readers = 0 /\ ~writing /\ writing' = TRUE /\ readers' = readers
      BY <2>10 DEF Reserves, Wrlock, CanWrite
    <3>3. Outer = {}
      <4>1. Cardinality(Outer) = 0
        BY <2>5, <3>2, SectionsFinite
      <4> QED BY <4>1, SectionsFinite, FS_EmptySet
    <3>4. \A u \in Threads : Writing(u)' <=> u = t
      BY <2>3, <2>5, <2>10, <3>2 DEF Reserves
    <3> QED BY <2>5, <3>1, <3>2, <3>3, <3>4 DEF LockInv
  <2>11. CASE Gives(t)
    <3>1. Outer' = Outer /\ Inner' = Inner
      BY <2>4, <2>6, <2>11 DEF Gives
    <3>2. writing /\ writing' = FALSE /\ readers' = readers
      BY <2>5, <2>11 DEF Gives, Unlock
    <3>3. \A u \in Threads : ~(Writing(u)')
      BY <2>3, <2>5, <2>11 DEF Gives
    <3> QED BY <2>5, <3>1, <3>2, <3>3 DEF LockInv
  <2> QED BY <2>1, <2>2, <2>7, <2>8, <2>9, <2>10, <2>11, SectionStep
<1> QED BY <1>1, <1>2 DEF Next

\* A migration that has the lock has seen the last write.
ViewInv == Locked => \A t \in Threads : th[t].pc = "transfer" => th[t].view = db

LEMMA ViewInit == Init => ViewInv
BY DEF Init, Idle, ViewInv

LEMMA ViewNext == TypeInv /\ LockInv /\ ViewInv /\ [Next]_vars => ViewInv'
<1> SUFFICES ASSUME TypeInv, LockInv, ViewInv, [Next]_vars, Locked', NEW u \in Threads, th'[u].pc = "transfer"
             PROVE  th'[u].view = db'
  BY DEF ViewInv
<1>1. CASE UNCHANGED vars
  BY <1>1 DEF vars, ViewInv, Locked
<1>2. ASSUME NEW t \in Threads, Step(t) PROVE th'[u].view = db'
  <2>1. Frame(t) /\ Kind(t)
    BY <1>2, StepCases
  <2>2. Locked
    BY <2>1 DEF Locked, Frame
  <2>3. CASE u = t
    <3>1. HandsOver(t) /\ UNCHANGED data
      <4>1. ~(Receives(t) \/ Refuses(t) \/ Enters(t) \/ EntersWriting(t) \/ Looks(t) \/ Visits(t) \/ Resumes(t)
              \/ Ends(t) \/ Lists(t) \/ Consumes(t) \/ WritesAll(t) \/ WritesOne(t) \/ Skips(t) \/ Unlocks(t)
              \/ Checks(t) \/ GivesUp(t))
        BY <2>3 DEF Receives, Refuses, Enters, EntersWriting, Looks, Visits, Resumes, Ends, Lists, Consumes,
           WritesAll, WritesOne, Skips, Unlocks, Checks, GivesUp, Goes, Back
      <4> QED BY <2>1, <4>1 DEF Kind, HandsOver
    <3> QED BY <2>3, <3>1 DEF HandsOver, data
  <2>4. CASE u # t
    <3>1. th'[u] = th[u] /\ Writing(u) /\ th[u].view = db
      BY <2>1, <2>2, <2>4 DEF Frame, ViewInv, Writing
    <3>2. ~Reading(t) /\ ~Writing(t)
      BY <2>2, <2>4, <3>1 DEF LockInv, Outer
    <3>3. th[t].pc # "transfer" /\ (th[t].pc # "body" \/ (Consuming(t) /\ th[t].pc # "body"))
      BY <3>2 DEF Reading, Writing
    <3>4. db' = db
      BY <2>1, <3>3 DEF Kind, Receives, Refuses, Enters, EntersWriting, Looks, Visits, Resumes, Ends, Lists, Consumes,
         WritesAll, WritesOne, Skips, Unlocks, Checks, HandsOver, GivesUp, Goes, data
    <3> QED BY <3>1, <3>4
  <2> QED BY <2>3, <2>4
<1> QED BY <1>1, <1>2 DEF Next

\* Setups in which a migration is asked for, with the lock and, for gdbm,
\* without consumers.
Handing == Locked \/ conf.backend = "berkeleydb"
           \/ \A t \in Threads : \A r \in conf.requests[t] : r.op # "migrate"

HandingInv == TypeInv /\ LockInv /\ ViewInv /\ Handing

LEMMA HandingNext == HandingInv /\ [Next]_vars => HandingInv'
<1> SUFFICES ASSUME HandingInv, [Next]_vars PROVE HandingInv'
  OBVIOUS
<1>1. conf' = conf
  <2>1. CASE UNCHANGED vars
    BY <2>1 DEF vars
  <2>2. ASSUME NEW t \in Threads, Step(t) PROVE conf' = conf
    BY <2>2, StepCases DEF HandingInv, Frame
  <2> QED BY <2>1, <2>2 DEF Next
<1>2. Handing'
  BY <1>1 DEF HandingInv, Handing, Locked
<1> QED BY <1>2, TypeNext, LockNext, ViewNext DEF HandingInv

LEMMA HandsOverAll ==
  HandingInv /\ [Next]_vars =>
    [~migrated /\ migrated' => \E t \in Threads : th[t].pc = "transfer" /\ th[t].view = db]_vars
<1> SUFFICES ASSUME HandingInv, [Next]_vars, ~migrated, migrated'
             PROVE  \E t \in Threads : th[t].pc = "transfer" /\ th[t].view = db
  OBVIOUS
<1>1. ASSUME NEW t \in Threads, Step(t) PROVE th[t].pc = "transfer" /\ th[t].view = db
  <2>1. Frame(t) /\ Kind(t) /\ TypeInv
    BY <1>1, StepCases DEF HandingInv
  <2>2. GivesUp(t)
    BY <2>1 DEF Kind, Receives, Refuses, Enters, EntersWriting, Looks, Visits, Resumes, Ends, Lists, Consumes,
       WritesAll, WritesOne, Skips, Unlocks, Checks, HandsOver
  <2>3. th[t].pc = "transfer"
    BY <2>2 DEF GivesUp, Goes
  <2>4. Placed(t)
    BY <2>1, <2>3 DEF TypeInv
  <2>5. Locked
    BY <2>3, <2>4 DEF HandingInv, Handing, Placed
  <2> QED BY <2>3, <2>5 DEF HandingInv, ViewInv
<1> QED BY <1>1 DEF Next, vars

\* What a migration hands over is what the database holds when it is given
\* up: the handle has the lock of the writers, and nobody writes without a
\* section of the lock.  Gdbm's consumers leave a lock they do not hold, and
\* without use_lock nobody is kept out.
THEOREM HandoverCompleteHolds == Spec /\ Handing => HandoverComplete
<1>1. Init /\ Handing => HandingInv
  BY TypeInit, LockInit0, ViewInit DEF HandingInv
<1> QED BY <1>1, HandingNext, HandsOverAll, PTL DEF Spec, HandoverComplete

-----------------------------------------------------------------------------
(* The data *)

DataInv ==
  /\ db \in Databases /\ before \in Databases
  /\ \A t \in Threads : th[t].view \in Databases \cup {Nothing}

LEMMA StoredTyped ==
  ASSUME NEW d \in Databases, NEW k \in Keys, NEW v \in Vals
  PROVE  /\ Stored(d, k, v) \in Databases /\ Present(Stored(d, k, v)) = Present(d) \cup {k}
         /\ Appended(d, k, v) \in Databases /\ Present(Appended(d, k, v)) = Present(d) \cup {k}
<1>0. Absent \notin Seq(Vals) /\ DOMAIN d = Keys /\ (d[k] = Absent \/ d[k] \in Seq(Vals))
  BY NamesAssumption DEF NamesAssumption, Databases
<1>1. <<v>> \in Seq(Vals)
  OBVIOUS
<1>2. ASSUME NEW x \in Seq(Vals) PROVE [d EXCEPT ![k] = x] \in Databases /\ Present([d EXCEPT ![k] = x]) = Present(d) \cup {k}
  <2>1. [d EXCEPT ![k] = x] \in Databases
    BY DEF Databases
  <2>2. \A j \in Keys : [d EXCEPT ![k] = x][j] = IF j = k THEN x ELSE d[j]
    BY <1>0
  <2>3. x # Absent
    BY <1>0
  <2> QED BY <2>1, <2>2, <2>3 DEF Present
<1>3. CASE d[k] = Absent
  BY <1>1, <1>2, <1>3 DEF Stored, Appended
<1>4. CASE d[k] # Absent
  <2>1. Append(d[k], v) \in Seq(Vals)
    BY <1>0, <1>4
  <2>2. Appended(d, k, v) = [d EXCEPT ![k] = Append(d[k], v)]
    BY <1>4 DEF Appended
  <2> QED BY <1>1, <1>2, <2>1, <2>2 DEF Stored
<1> QED BY <1>3, <1>4

\* The pairs of a put.
LEMMA PairsOf ==
  ASSUME NEW r, Request(r), r.op = "put"
  PROVE  Len(r.keys) \in Nat /\ \A n \in 1 .. Len(r.keys) : r.keys[n] \in Keys /\ r.vals[n] \in Vals
<1>1. r.keys \in Seq(Keys) /\ r.vals \in Seq(Vals) /\ Len(r.vals) = Len(r.keys)
  BY DEF Request
<1>2. /\ Len(r.keys) \in Nat
      /\ \A n \in 1 .. Len(r.keys) : r.keys[n] \in Keys
      /\ \A n \in 1 .. Len(r.vals) : r.vals[n] \in Vals
  BY <1>1, ElementOfSeq, LenProperties
<1> QED BY <1>1, <1>2

\* The stages of a batch: nothing at first, then one pair after the other.
LEMMA StagesOf ==
  ASSUME NEW r, Request(r), r.op = "put", NEW d \in Databases
  PROVE  /\ Stages(d, r)[0] = d
         /\ \A n \in 1 .. Len(r.keys) : Stages(d, r)[n] = Stored(Stages(d, r)[n - 1], r.keys[n], r.vals[n])
<1> DEFINE L == Len(r.keys)
<1>0. L \in Nat /\ \A n \in 1 .. L : r.keys[n] \in Keys /\ r.vals[n] \in Vals
  BY PairsOf
<1>1. PICK step : step = [p \in (1 .. L) \X Databases |-> Stored(p[2], r.keys[p[1]], r.vals[p[1]])]
  OBVIOUS
<1>2. \A n \in 1 .. L, x \in Databases : step[<<n, x>>] = Stored(x, r.keys[n], r.vals[n])
  BY <1>1
<1>3. step \in [(1 .. L) \X Databases -> Databases]
  <2>1. \A p \in (1 .. L) \X Databases : Stored(p[2], r.keys[p[1]], r.vals[p[1]]) \in Databases
    BY <1>0, StoredTyped
  <2> QED BY <1>1, <2>1
<1>4. PICK g \in [0 .. L -> Databases] : g[0] = d /\ \A n \in 1 .. L : g[n] = step[<<n, g[n - 1]>>]
  <2>1. StagesIn(Databases, d, L, step) # {}
    BY <1>0, <1>3, StagesExist
  <2> QED BY <2>1 DEF StagesIn
<1>5. g = [n \in 0 .. L |-> IF n = 0 THEN d ELSE Stored(g[n - 1], r.keys[n], r.vals[n])]
  <2>1. PICK h : h = [n \in 0 .. L |-> IF n = 0 THEN d ELSE Stored(g[n - 1], r.keys[n], r.vals[n])]
    OBVIOUS
  <2>2. ASSUME NEW n \in 0 .. L PROVE g[n] = h[n]
    <3>1. CASE n = 0
      BY <1>4, <2>1, <3>1
    <3>2. CASE n # 0
      <4>1. n \in 1 .. L /\ n - 1 \in 0 .. L /\ g[n - 1] \in Databases
        BY <1>0, <3>2
      <4>2. g[n] = step[<<n, g[n - 1]>>]
        BY <1>4, <4>1
      <4> QED BY <1>2, <2>1, <3>2, <4>1, <4>2
    <3> QED BY <3>1, <3>2
  <2> QED BY <2>1, <2>2
<1>6. PICK f : f = Stages(d, r)
  OBVIOUS
<1>7. f = [n \in 0 .. L |-> IF n = 0 THEN d ELSE Stored(f[n - 1], r.keys[n], r.vals[n])]
  BY <1>5, <1>6 DEF Stages
<1>8. f[0] = d
  <2>1. 0 \in 0 .. L
    BY <1>0
  <2> QED BY <1>7, <2>1
<1>9. ASSUME NEW n \in 1 .. L PROVE f[n] = Stored(f[n - 1], r.keys[n], r.vals[n])
  <2>1. n \in 0 .. L /\ n # 0
    BY <1>0
  <2> QED BY <1>7, <2>1
<1> QED BY <1>6, <1>8, <1>9

\* A batch removes nothing.
LEMMA BatchKeeps ==
  ASSUME NEW r, Request(r), r.op = "put", NEW d \in Databases
  PROVE  Batch(d, r) \in Databases /\ Present(d) \subseteq Present(Batch(d, r))
<1> DEFINE L == Len(r.keys)
           T == {n \in Nat : n <= L => Stages(d, r)[n] \in Databases /\ Present(d) \subseteq Present(Stages(d, r)[n])}
<1>0. L \in Nat /\ \A n \in 1 .. L : r.keys[n] \in Keys /\ r.vals[n] \in Vals
  BY PairsOf
<1>1. 0 \in T
  BY StagesOf
<1>2. ASSUME NEW n \in Nat, n \in T PROVE n + 1 \in T
  <2> SUFFICES ASSUME n + 1 <= L
               PROVE  Stages(d, r)[n + 1] \in Databases /\ Present(d) \subseteq Present(Stages(d, r)[n + 1])
    OBVIOUS
  <2>1. n + 1 \in 1 .. L /\ n + 1 - 1 = n /\ n <= L
    BY <1>0
  <2>2. PICK s : s = Stages(d, r)[n]
    OBVIOUS
  <2>3. s \in Databases /\ Present(d) \subseteq Present(s)
    BY <1>2, <2>1, <2>2
  <2>4. Stages(d, r)[n + 1] = Stored(Stages(d, r)[n + 1 - 1], r.keys[n + 1], r.vals[n + 1])
    BY SMTT(30), <2>1, StagesOf
  <2>5. Stages(d, r)[n + 1] = Stored(s, r.keys[n + 1], r.vals[n + 1])
    BY <2>1, <2>2, <2>4
  <2>6. r.keys[n + 1] \in Keys /\ r.vals[n + 1] \in Vals
    BY <1>0, <2>1
  <2> QED BY <2>3, <2>5, <2>6, StoredTyped
<1> HIDE DEF T
<1>3. L \in T
  BY <1>0, <1>1, <1>2, InductiveSet
<1> QED BY <1>0, <1>3 DEF T, Batch

\* What a step writes.
Puts1(t)   == /\ th[t].op = "put" /\ More(t) /\ Key(t) \in Keys /\ Value(t) \in Vals
              /\ Write(Stored(db, Key(t), Value(t))) \/ Write(Appended(db, Key(t), Value(t)))
PutsAll(t) == th[t].op = "put" /\ Request(th[t].req) /\ th[t].req.op = "put" /\ Write(Batch(db, th[t].req))
Erases(t)  ==
  /\ th[t].pc = "body" /\ th[t].op = "erase" /\ (th[t].req.op = "erase" \/ Has(t, "consume"))
  /\ \E K \in SUBSET {th[t].req.keys[n] : n \in 1 .. Len(th[t].req.keys)} :
        Write([k \in Keys |-> IF k \in K THEN Absent ELSE db[k]])

LEMMA WriteKinds ==
  ASSUME TypeInv, DataInv, NEW t \in Threads, Frame(t), Kind(t)
  PROVE  UNCHANGED db \/ Puts1(t) \/ PutsAll(t) \/ Erases(t) \/ (GivesUp(t) /\ Write(Empty) /\ migrated')
<1>1. CASE WritesAll(t) \/ WritesOne(t)
  <2>1. Placed(t) /\ Request(th[t].req) /\ Len(th[t].req.keys) \in Nat
    BY <1>1, RequestOf, LenProperties DEF WritesAll, WritesOne, Goes, Request
  <2>2. CASE th[t].op = "put"
    <3>1. th[t].req.op = "put"
      BY <2>1, <2>2 DEF Placed
    <3>2. CASE WritesAll(t)
      BY <2>1, <2>2, <3>1, <3>2 DEF WritesAll, PutsAll
    <3>3. CASE WritesOne(t)
      <4>1. th[t].idx \in 1 .. Len(th[t].req.keys)
        BY <2>1, <3>3 DEF WritesOne, More, TypeInv
      <4>2. Key(t) \in Keys /\ Value(t) \in Vals
        BY <2>1, <3>1, <4>1, PairsOf DEF Key, Value
      <4> QED BY <2>2, <3>3, <4>2 DEF WritesOne, Puts1
    <3> QED BY <1>1, <3>2, <3>3
  <2>3. CASE th[t].op # "put"
    <3>1. th[t].pc = "body" /\ th[t].op = "erase" /\ (th[t].req.op = "erase" \/ Has(t, "consume"))
      BY <1>1, <2>1, <2>3 DEF WritesAll, WritesOne, Placed, Goes
    <3>2. CASE WritesAll(t)
      <4>1. PICK J : J = {th[t].req.keys[n] : n \in 1 .. Len(th[t].req.keys)}
        OBVIOUS
      <4>2. Write(Erased(t)) /\ DOMAIN th[t].req.keys = 1 .. Len(th[t].req.keys)
        BY <2>1, <2>3, <3>2, LenProperties DEF WritesAll, Request
      <4>3. Erased(t) = [k \in Keys |-> IF k \in J THEN Absent ELSE db[k]]
        BY <4>1, <4>2 DEF Erased
      <4>4. J \in SUBSET {th[t].req.keys[n] : n \in 1 .. Len(th[t].req.keys)}
        BY <4>1
      <4>5. \E K \in SUBSET {th[t].req.keys[n] : n \in 1 .. Len(th[t].req.keys)} :
               Write([k \in Keys |-> IF k \in K THEN Absent ELSE db[k]])
        BY <4>2, <4>3, <4>4
      <4> QED BY <3>1, <4>5 DEF Erases
    <3>3. CASE WritesOne(t)
      <4>1. th[t].idx \in 1 .. Len(th[t].req.keys)
        BY <2>1, <3>3 DEF WritesOne, More, TypeInv
      <4>2. Write([db EXCEPT ![Key(t)] = Absent])
        BY <2>3, <3>3 DEF WritesOne
      <4>3. [db EXCEPT ![Key(t)] = Absent] = [k \in Keys |-> IF k \in {Key(t)} THEN Absent ELSE db[k]]
        BY DEF DataInv, Databases
      <4>4. {Key(t)} \in SUBSET {th[t].req.keys[n] : n \in 1 .. Len(th[t].req.keys)}
        BY <4>1 DEF Key
      <4>5. \E K \in SUBSET {th[t].req.keys[n] : n \in 1 .. Len(th[t].req.keys)} :
               Write([k \in Keys |-> IF k \in K THEN Absent ELSE db[k]])
        BY <4>2, <4>3, <4>4
      <4> QED BY <3>1, <4>5 DEF Erases
    <3> QED BY <1>1, <3>2, <3>3
  <2> QED BY <2>2, <2>3
<1>2. CASE GivesUp(t)
  BY <1>2 DEF GivesUp, data
<1>3. CASE ~(WritesAll(t) \/ WritesOne(t) \/ GivesUp(t))
  BY <1>3 DEF Kind, Receives, Refuses, Enters, EntersWriting, Looks, Visits, Resumes, Ends, Lists, Consumes, Skips,
     Unlocks, Checks, HandsOver, data
<1> QED BY <1>1, <1>2, <1>3

LEMMA ErasedTyped ==
  ASSUME NEW d \in Databases, NEW K
  PROVE  /\ [k \in Keys |-> IF k \in K THEN Absent ELSE d[k]] \in Databases
         /\ Present([k \in Keys |-> IF k \in K THEN Absent ELSE d[k]]) = Present(d) \ K
BY DEF Databases, Present

LEMMA DataInit == Init => DataInv
BY SetupsAssumption DEF Init, DataInv, Idle, SetupsAssumption

LEMMA EmptyTyped == Empty \in Databases /\ Present(Empty) = {}
BY DEF Empty, Databases, Present

LEMMA DataNext == TypeInv /\ DataInv /\ [Next]_vars => DataInv'
<1> SUFFICES ASSUME TypeInv, DataInv, [Next]_vars PROVE DataInv'
  OBVIOUS
<1>1. CASE UNCHANGED vars
  BY <1>1 DEF vars, DataInv
<1>2. ASSUME NEW t \in Threads, Step(t) PROVE DataInv'
  <2>1. Frame(t) /\ Kind(t)
    BY <1>2, StepCases
  <2>2. db' \in Databases
    <3>1. CASE UNCHANGED db
      BY <3>1 DEF DataInv
    <3>2. CASE Puts1(t)
      BY <3>2, StoredTyped DEF Puts1, Write, DataInv
    <3>3. CASE PutsAll(t)
      BY <3>3, BatchKeeps DEF PutsAll, Write, DataInv
    <3>4. CASE Erases(t)
      <4>1. PICK K : Write([k \in Keys |-> IF k \in K THEN Absent ELSE db[k]])
        BY <3>4 DEF Erases
      <4> QED BY <4>1, ErasedTyped DEF Write, DataInv
    <3>5. CASE Write(Empty)
      BY <3>5, EmptyTyped DEF Write
    <3> QED BY <2>1, <3>1, <3>2, <3>3, <3>4, <3>5, WriteKinds
  <2>3. before' \in {before, db}
    BY <2>1 DEF Kind, Receives, Refuses, Enters, EntersWriting, Looks, Visits, Resumes, Ends, Lists, Consumes, WritesAll,
       WritesOne, Skips, Unlocks, Checks, HandsOver, GivesUp, data
  <2>4. th'[t].view \in {th[t].view, Nothing, db}
    BY <2>1, ViewKinds DEF Receives
  <2> QED BY <2>1, <2>2, <2>3, <2>4 DEF DataInv, Frame
<1> QED BY <1>1, <1>2 DEF Next

-----------------------------------------------------------------------------
(* Handles *)

\* The keys that are there from the start and that no request removes.
Kept == {k \in Present(conf.initial) :
           \A t \in Threads : \A r \in conf.requests[t] :
             r.op = "erase" \/ "consume" \in r.modes => \A n \in 1 .. Len(r.keys) : r.keys[n] # k}

KeptInv ==
  /\ migrated => conf.backend # "berkeleydb"
  /\ migrated \/ Kept \subseteq Present(db)
  /\ conf.backend = "lmdb" => \A t \in Threads : th[t].pc \in {"body", "call"} /\ th[t].op \in Walks =>
       th[t].view # Nothing /\ Kept \subseteq Present(th[t].view)

LEMMA KeptInit == Init => KeptInv
BY DEF Init, KeptInv, Kept, Idle

LEMMA KeptNext == TypeInv /\ DataInv /\ KeptInv /\ [Next]_vars => KeptInv'
<1> SUFFICES ASSUME TypeInv, DataInv, KeptInv, [Next]_vars PROVE KeptInv'
  OBVIOUS
<1>1. CASE UNCHANGED vars
  BY <1>1 DEF vars, KeptInv, Kept, Present
<1>2. ASSUME NEW t \in Threads, Step(t) PROVE KeptInv'
  <2>1. Frame(t) /\ Kind(t) /\ conf' = conf
    BY <1>2, StepCases DEF Frame
  <2>2. Kept' = Kept
    BY <2>1 DEF Kept, Present
  <2>3. migrated' \/ Kept \subseteq Present(db')
    <3>1. migrated' = migrated \/ migrated'
      BY <2>1 DEF Kind, Receives, Refuses, Enters, EntersWriting, Looks, Visits, Resumes, Ends, Lists, Consumes,
         WritesAll, WritesOne, Skips, Unlocks, Checks, HandsOver, GivesUp
    <3>2. CASE UNCHANGED db
      BY <3>1, <3>2 DEF KeptInv
    <3>3. CASE Puts1(t)
      <4>1. Present(db) \subseteq Present(db')
        BY <3>3, StoredTyped DEF Puts1, Write, DataInv
      <4> QED BY <3>1, <4>1 DEF KeptInv
    <3>4. CASE PutsAll(t)
      <4>1. Present(db) \subseteq Present(db')
        BY <3>4, BatchKeeps DEF PutsAll, Write, DataInv
      <4> QED BY <3>1, <4>1 DEF KeptInv
    <3>5. CASE Erases(t)
      <4>1. PICK K \in SUBSET {th[t].req.keys[n] : n \in 1 .. Len(th[t].req.keys)} :
               Write([k \in Keys |-> IF k \in K THEN Absent ELSE db[k]])
        BY <3>5 DEF Erases
      <4>2. Present(db') = Present(db) \ K
        BY <4>1, ErasedTyped DEF Write, DataInv
      <4>3. th[t].req \in conf.requests[t] \/ th[t].req = [op |-> "none"]
        BY DEF TypeInv
      <4>4. th[t].req \in conf.requests[t]
        <5>1. th[t].pc # "idle"
          BY <3>5 DEF Erases
        <5> QED BY <5>1, RequestOf
      <4>5. K \cap Kept = {}
        BY <3>5, <4>4 DEF Erases, Kept, Has
      <4> QED BY <3>1, <4>2, <4>5 DEF KeptInv
    <3>6. CASE migrated'
      BY <3>6
    <3> QED BY <2>1, <3>2, <3>3, <3>4, <3>5, <3>6, WriteKinds
  <2>4. ASSUME NEW u \in Threads, conf.backend = "lmdb", th'[u].pc \in {"body", "call"}, th'[u].op \in Walks
        PROVE  th'[u].view # Nothing /\ Kept \subseteq Present(th'[u].view)
    <3>1. CASE th[u].pc \in {"body", "call"} /\ th[u].op \in Walks /\ th'[u].view = th[u].view
      BY <2>4, <3>1 DEF KeptInv
    <3>2. CASE u = t /\ Enters(t)
      <4>1. th'[t].view = db /\ ~migrated
        BY <2>4, <3>2 DEF Enters, Snaps, Same
      <4>2. db # Nothing
        BY NamesAssumption DEF NamesAssumption, DataInv
      <4> QED BY <3>2, <4>1, <4>2 DEF KeptInv
    <3>3. CASE u # t
      <4>1. th'[u] = th[u]
        BY <2>1, <3>3 DEF Frame
      <4> QED BY <2>4, <3>1, <4>1
    <3>4. CASE u = t /\ ~Enters(t)
      <4>1. Visits(t) \/ Resumes(t)
        <5>1. ~(Receives(t) \/ Refuses(t) \/ EntersWriting(t) \/ Looks(t) \/ Ends(t) \/ Lists(t) \/ Consumes(t)
                \/ WritesAll(t) \/ WritesOne(t) \/ Skips(t) \/ Unlocks(t) \/ Checks(t) \/ HandsOver(t) \/ GivesUp(t))
          BY <2>4, <3>4 DEF Receives, Refuses, EntersWriting, Whole, Looks, Lookups, Walks, Ends, Lists, Consumes,
             WritesAll, WritesOne, Skips, Unlocks, Checks, HandsOver, GivesUp, Goes, Back, Same
        <5> QED BY <2>1, <3>4, <5>1 DEF Kind
      <4>2. th[t].pc \in {"body", "call"} /\ th[t].op \in Walks /\ th'[t].view = th[t].view
        BY <2>4, <3>4, <4>1 DEF Visits, Resumes, Goes, Same
      <4> QED BY <3>1, <3>4, <4>2
    <3> QED BY <3>2, <3>3, <3>4
  <2>5. migrated' => conf.backend # "berkeleydb"
    <3>1. CASE migrated' = migrated
      BY <3>1 DEF KeptInv
    <3>2. CASE migrated' # migrated
      <4>1. th[t].pc = "transfer"
        BY <2>1, <3>2 DEF Kind, Receives, Refuses, Enters, EntersWriting, Looks, Visits, Resumes, Ends, Lists, Consumes,
           WritesAll, WritesOne, Skips, Unlocks, Checks, HandsOver, GivesUp, Goes
      <4> QED BY <4>1, RequestOf DEF Placed
    <3> QED BY <3>1, <3>2
  <2> QED BY <2>1, <2>2, <2>3, <2>4, <2>5 DEF KeptInv, Present
<1> QED BY <1>1, <1>2 DEF Next

\* The requests known to leave a handle behind: an iter whose callback fails,
\* and, with lmdb, count, an exists or length whose sizes are wrong, and a
\* listing that may find nothing at or behind its first key.
Begins(r) == IF r.from # 0 /\ "inclusive" \in r.modes THEN r.from ELSE r.from + 1
Tidy ==
  conf.leaks \/
  \A t \in Threads : \A r \in conf.requests[t] :
    /\ r.op = "iter" /\ conf.backend \in {"leveldb", "rocksdb", "lmdb"} => ~r.fails
    /\ conf.backend = "lmdb" =>
         /\ r.op # "count"
         /\ r.op \in {"exists", "length"} => r.good = Len(r.keys)
         /\ r.op \in Walks => \E k \in Kept : k >= Begins(r)

\* What a thread has taken and not yet released.
OpenInv ==
  ~conf.leaks =>
    \A t \in Threads : open[t] = [x \in Handles |-> IF th[t].pc \in {"body", "call"} /\ x \in Takes(t) THEN 1 ELSE 0]

LEMMA OpenInit == Init => OpenInv
<1> SUFFICES ASSUME Init, NEW t \in Threads
             PROVE  open[t] = [x \in Handles |-> IF th[t].pc \in {"body", "call"} /\ x \in Takes(t) THEN 1 ELSE 0]
  BY DEF OpenInv
<1>1. th[t].pc = "idle" /\ open[t] = [txn |-> 0, cursor |-> 0]
  BY DEF Init, Idle
<1>2. open[t] = [x \in Handles |-> 0]
  BY <1>1 DEF Handles
<1> QED BY <1>1, <1>2

LEMMA ReleasedAll == TypeInv /\ OpenInv => HandlesReleased
<1> SUFFICES ASSUME TypeInv, OpenInv, ~conf.leaks, NEW t \in Threads, th[t].pc = "idle"
             PROVE  open[t] = [txn |-> 0, cursor |-> 0]
  BY DEF HandlesReleased
<1>1. open[t] = [x \in Handles |-> 0]
  BY DEF OpenInv
<1> QED BY <1>1 DEF Handles

\* No step of a tidy setup leaves a handle open.
LEMMA NothingLeft ==
  ASSUME TypeInv, KeptInv, Tidy, ~conf.leaks, NEW t \in Threads, th[t].pc \in {"body", "call"}
  PROVE  ~Leaves(t)
<1>1. Placed(t) /\ th[t].req \in conf.requests[t] /\ Request(th[t].req) /\ Len(th[t].req.keys) \in Nat
  BY RequestOf, LenProperties DEF Request
<1>2. th[t].op # "erase" => th[t].op = th[t].req.op
  BY <1>1 DEF Placed
<1>3. ~(th[t].op = "iter" /\ th[t].req.fails /\ conf.backend \in {"leveldb", "rocksdb", "lmdb"})
  BY <1>1, <1>2 DEF Tidy
<1>4. ~(conf.backend = "lmdb" /\ th[t].op = "count")
  BY <1>1, <1>2 DEF Tidy
<1>5. ~(conf.backend = "lmdb" /\ th[t].op \in {"exists", "length"} /\ More(t) /\ ~Good(t))
  BY <1>1, <1>2 DEF Tidy, More, Good
<1>6. ~(conf.backend = "lmdb" /\ th[t].op \in Walks /\ NothingAhead(t))
  <2>1. SUFFICES ASSUME conf.backend = "lmdb", th[t].op \in Walks, NothingAhead(t) PROVE FALSE
    OBVIOUS
  <2>2. th[t].op = th[t].req.op
    BY <1>2, <2>1 DEF Walks
  <2>3. PICK k \in Kept : k >= Begins(th[t].req)
    BY <1>1, <2>1, <2>2 DEF Tidy
  <2>4. Begins(th[t].req) = th[t].at
    BY <2>1 DEF NothingAhead, FirstPos, Begins, Has
  <2>5. k \in Present(Seen(t))
    BY <2>1, <2>3 DEF KeptInv, Seen
  <2> QED BY <2>1, <2>3, <2>4, <2>5 DEF NothingAhead, Ahead
<1> QED BY <1>3, <1>4, <1>5, <1>6 DEF Leaves

LEMMA OpenNext == TypeInv /\ DataInv /\ KeptInv /\ Tidy /\ OpenInv /\ [Next]_vars => OpenInv'
<1> SUFFICES ASSUME TypeInv, DataInv, KeptInv, Tidy, OpenInv, [Next]_vars, ~conf'.leaks PROVE OpenInv'
  BY DEF OpenInv
<1>1. CASE UNCHANGED vars
  BY <1>1 DEF vars, OpenInv, Takes
<1>2. ASSUME NEW t \in Threads, Step(t) PROVE OpenInv'
  <2>1. Frame(t) /\ Kind(t) /\ conf' = conf
    BY <1>2, StepCases DEF Frame
  <2>2. ~conf.leaks /\ \A u \in Threads :
          open[u] = [x \in Handles |-> IF th[u].pc \in {"body", "call"} /\ x \in Takes(u) THEN 1 ELSE 0]
    BY <2>1 DEF OpenInv
  <2>3. ASSUME NEW u \in Threads \ {t}
        PROVE  open'[u] = [x \in Handles |-> IF th'[u].pc \in {"body", "call"} /\ x \in Takes(u)' THEN 1 ELSE 0]
    <3>1. th'[u] = th[u] /\ open'[u] = open[u]
      BY <2>1, OpenStep DEF Frame
    <3>2. Takes(u)' = Takes(u)
      BY <2>1, <3>1 DEF Takes
    <3> QED BY <2>2, <3>1, <3>2
  <2>4. open'[t] = [x \in Handles |-> IF th'[t].pc \in {"body", "call"} /\ x \in Takes(t)' THEN 1 ELSE 0]
    <3>0. /\ open \in [Threads -> [Handles -> Int]] /\ DOMAIN open[t] = Handles
          /\ open[t] = [x \in Handles |-> IF th[t].pc \in {"body", "call"} /\ x \in Takes(t) THEN 1 ELSE 0]
      BY <2>2 DEF TypeInv
    <3>1. CASE Receives(t)
      <4>1. th[t].pc \notin {"body", "call"} /\ th'[t].pc \notin {"body", "call"} /\ open' = open
        BY <3>1 DEF Receives
      <4> QED BY <3>0, <4>1
    <3>2. CASE ~Receives(t) /\ (Refuses(t) \/ Unlocks(t) \/ Checks(t) \/ HandsOver(t) \/ GivesUp(t))
      <4>1. th[t].pc \notin {"body", "call"} /\ th'[t].pc \notin {"body", "call"} /\ open' = open
        BY <3>2 DEF Refuses, Unlocks, Checks, HandsOver, GivesUp, Goes, Back
      <4> QED BY <3>0, <4>1
    <3>3. CASE Enters(t)
      <4>1. /\ th[t].pc = "enter" /\ th'[t].pc = "body" /\ Takes(t)' = Takes(t)
            /\ open' = [open EXCEPT ![t] = [x \in DOMAIN @ |-> IF x \in Takes(t) THEN @[x] + 1 ELSE @[x]]]
        BY <2>1, <3>3 DEF Enters, Goes, Same, Takes, Open
      <4>2. open'[t] = [x \in Handles |-> IF x \in Takes(t) THEN open[t][x] + 1 ELSE open[t][x]]
        BY <3>0, <4>1
      <4>3. \A x \in Handles : open[t][x] = 0
        BY <3>0, <4>1
      <4> QED BY <4>1, <4>2, <4>3
    <3>4. CASE EntersWriting(t) \/ WritesAll(t)
      <4>1. th[t].op \in {"put", "erase"} /\ th'[t].op = th[t].op /\ open' = open
        BY <3>4 DEF EntersWriting, WritesAll, Whole, Same
      <4>2. Takes(t) = {} /\ Takes(t)' = {}
        BY <2>1, <4>1 DEF Takes, Lookups, Walks
      <4> QED BY <3>0, <4>1, <4>2
    <3>5. CASE Looks(t) \/ Visits(t) \/ Resumes(t) \/ WritesOne(t) \/ Skips(t)
      <4>1. /\ th[t].pc \in {"body", "call"} /\ th'[t].pc \in {"body", "call"} /\ open' = open
            /\ th'[t].op = th[t].op
        BY <3>5 DEF Looks, Visits, Resumes, WritesOne, Skips, Goes, Same
      <4>2. Takes(t)' = Takes(t)
        BY <2>1, <4>1 DEF Takes
      <4> QED BY <3>0, <4>1, <4>2
    <3>6. CASE Ends(t) \/ Lists(t) \/ Consumes(t)
      <4>1. th[t].pc \in {"body", "call"} /\ th'[t].pc \notin {"body", "call"}
        BY <3>6 DEF Ends, Lists, Consumes, Goes, Back
      <4>2. Close(t, Takes(t))
        BY <2>2, <3>6, <4>1, NothingLeft DEF Ends, Lists, Consumes, Closes
      <4>3. open'[t] = [x \in Handles |-> IF x \in Takes(t) THEN open[t][x] - 1 ELSE open[t][x]]
        BY <3>0, <4>2 DEF Close
      <4>4. \A x \in Handles : open[t][x] = IF x \in Takes(t) THEN 1 ELSE 0
        BY <3>0, <4>1
      <4> QED BY <4>1, <4>3, <4>4
    <3> QED BY <2>1, <3>1, <3>2, <3>3, <3>4, <3>5, <3>6 DEF Kind
  <2> QED BY <2>3, <2>4 DEF OpenInv
<1> QED BY <1>1, <1>2 DEF Next

LEMMA ConfKept == TypeInv /\ [Next]_vars => conf' = conf
<1> SUFFICES ASSUME TypeInv, [Next]_vars PROVE conf' = conf
  OBVIOUS
<1>1. CASE UNCHANGED vars
  BY <1>1 DEF vars
<1>2. ASSUME NEW t \in Threads, Step(t) PROVE conf' = conf
  BY <1>2, StepCases DEF Frame
<1> QED BY <1>1, <1>2 DEF Next

LEMMA TidyKept == TypeInv /\ Tidy /\ [Next]_vars => Tidy'
<1> SUFFICES ASSUME TypeInv, Tidy, [Next]_vars PROVE Tidy'
  OBVIOUS
<1>1. conf' = conf
  BY ConfKept
<1>2. Kept' = Kept
  BY <1>1 DEF Kept, Present
<1> QED BY <1>1, <1>2 DEF Tidy

\* Between requests no transaction, iterator or cursor of the library is open,
\* whatever the requests are and however they interleave, in a setup without
\* the requests that are known to leave one.
THEOREM HandlesReleasedHolds == Spec /\ Tidy => []HandlesReleased
<1>1. Init => TypeInv /\ DataInv /\ KeptInv /\ OpenInv
  BY TypeInit, DataInit, KeptInit, OpenInit
<1> QED BY <1>1, TypeNext, DataNext, KeptNext, TidyKept, OpenNext, ReleasedAll, PTL DEF Spec

-----------------------------------------------------------------------------
(* Listings *)

\* The smallest and the largest of some numbers.
LEMMA MinOf ==
  ASSUME NEW S \in SUBSET Nat, S # {} PROVE Min(S) \in S /\ \A y \in S : Min(S) <= y
<1>1. PICK x \in S : \A y \in S : <<y, x>> \notin Below
  BY BelowWellFounded, WFMin
<1>2. ASSUME NEW y \in S PROVE x <= y
  <2>1. x \in Nat /\ y \in Nat /\ <<y, x>> \notin Below
    BY <1>1
  <2>2. ~(y < x)
    BY <2>1 DEF Below
  <2> QED BY <2>1, <2>2
<1> QED BY <1>2 DEF Min

LEMMA MaxOf ==
  ASSUME NEW S, S # {}, NEW L \in Nat, S \subseteq 0 .. L PROVE Max(S) \in S /\ \A y \in S : Max(S) >= y
<1> DEFINE T == {L - y : y \in S}
<1>1. T \subseteq Nat /\ T # {}
  <2>1. \A y \in S : y \in Nat /\ L - y \in Nat
    OBVIOUS
  <2> QED BY <2>1
<1> HIDE DEF T
<1>2. PICK x \in T : \A y \in T : x <= y
  BY <1>1, MinOf
<1> USE DEF T
<1>3. PICK z \in S : x = L - z
  OBVIOUS
<1>4. \A y \in S : z >= y
  <2>1. SUFFICES ASSUME NEW y \in S PROVE z >= y
    OBVIOUS
  <2>2. L - z <= L - y
    BY <1>2, <1>3
  <2>3. z \in Nat /\ y \in Nat /\ L \in Nat
    OBVIOUS
  <2> QED BY <2>2, <2>3
<1> QED BY <1>4 DEF Max

\* No more items fit than there are.
LEMMA FittingBound ==
  ASSUME NEW sizes, NEW room, Len(sizes) \in Nat PROVE Fitting(sizes, room) \in 0 .. Len(sizes)
<1> DEFINE S == {0} \cup {n \in 1 .. Len(sizes) : Total(SubSeq(sizes, 1, n)) <= room}
<1>1. S # {} /\ S \subseteq 0 .. Len(sizes)
  OBVIOUS
<1>2. Max(S) \in S
  BY <1>1, MaxOf
<1> QED BY <1>1, <1>2 DEF Fitting

\* What the walk of a listing has done: it has come to key at, and has kept, in
\* order, all keys before that pass the filter and were there all the time.
Walked(t) ==
  LET r == th[t].req  got == th[t].got IN
  /\ th[t].status = "OK" /\ th[t].at \in Nat
  /\ \A k \in Keys : k >= th[t].at => k >= Begins(r)
  /\ \A n \in 1 .. Len(got) : got[n] \in ever[t] /\ got[n][1] \in Keys \cap r.accept
                              /\ got[n][1] >= Begins(r) /\ got[n][1] < th[t].at
  /\ \A m, n \in 1 .. Len(got) : m < n => got[m][1] < got[n][1]
  /\ \A k \in always[t] \cap r.accept :
       k >= Begins(r) /\ k < th[t].at => \E n \in 1 .. Len(got) : got[n][1] = k

ListInv ==
  \A t \in Threads : th[t].req.op \in ListOps =>
    /\ th[t].pc = "enter" => th[t].status = "OK" /\ th[t].got = << >>
    /\ th[t].pc = "body" => Walked(t)
    /\ t \in Listings => SoundListing(t) /\ CompleteListing(t)

LEMMA ListInit == Init => ListInv
BY DEF Init, Idle, ListInv, ListOps

LEMMA ListExact == ListInv => ListingExact
BY DEF ListInv, ListingExact, ListingSound, ListingComplete, Listings

\* Where a listing begins, and what is wanted of it, in a setup without the
\* requests that are known to miss keys: a filter that stops before a key it
\* would let pass; with berkeleydb an exclusive start at a key that may not be
\* there; with lmdb one that may have nothing behind it.
Orderly ==
  \A t \in Threads : \A r \in conf.requests[t] : r.op \in ListOps =>
    /\ \A s \in r.stop \ r.accept, k \in r.accept \cap Keys : k < s
    /\ r.from # 0 /\ "inclusive" \notin r.modes =>
         /\ conf.backend = "berkeleydb" => r.from \in Kept
         /\ conf.backend = "lmdb" => \E k \in Kept : k > r.from

\* The keys a listing sees.
LEMMA SeenKeys ==
  ASSUME TypeInv, HistInv, NEW t \in Threads, th[t].req.op # "none"
  PROVE  /\ Ahead(t) \subseteq Keys /\ Ahead(t) \subseteq Nat \ {0}
         /\ \A k \in Ahead(t) : k >= th[t].at /\ <<k, Seen(t)[k]>> \in ever[t]
         /\ always[t] \subseteq Keys /\ always[t] \subseteq Nat \ {0}
         /\ \A k \in always[t] : k >= th[t].at => k \in Ahead(t)
<1>1. Covers(t, Seen(t))
  BY DEF HistInv, Seen
<1>2. Keys \subseteq Nat \ {0}
  BY KeysAssumption DEF KeysAssumption
<1>3. Ahead(t) \subseteq Keys /\ always[t] \subseteq Keys
  BY <1>1 DEF Ahead, Present, Covers
<1>4. ASSUME NEW k \in Ahead(t) PROVE <<k, Seen(t)[k]>> \in ever[t]
  BY <1>1 DEF Covers, Pairs, Ahead
<1>5. \A k \in always[t] : k >= th[t].at => k \in Ahead(t)
  BY <1>1 DEF Covers, Ahead
<1> QED BY <1>2, <1>3, <1>4, <1>5 DEF Ahead

\* A step of the walk.
LEMMA VisitWalks ==
  ASSUME TypeInv, HistInv, NEW t \in Threads, Frame(t), Visits(t), th[t].op \in ListOps, th[t].req.op # "none",
         Walked(t)
  PROVE  Walked(t)'
<1>1. /\ th'[t].req = th[t].req /\ ever' = ever /\ always' = always
      /\ th'[t].status = th[t].status /\ th'[t].at = Min(Ahead(t)) + 1
  BY DEF Visits, Same, data
<1>2. Ahead(t) # {}
  BY DEF Visits, Over
<1>3. PICK k : k = Min(Ahead(t))
  OBVIOUS
<1>4. k \in Ahead(t) /\ \A y \in Ahead(t) : k <= y
  BY <1>2, <1>3, SeenKeys, MinOf
<1>5. k \in Keys /\ k \in Nat \ {0} /\ k >= th[t].at /\ <<k, Seen(t)[k]>> \in ever[t]
  BY <1>4, SeenKeys
<1>6. th[t].at \in Nat /\ k >= Begins(th[t].req) /\ th'[t].at = k + 1 /\ th[t].status = "OK"
  BY <1>1, <1>3, <1>5 DEF Walked
<1>7. Keys \subseteq Nat /\ \A j \in Keys : j >= k + 1 => j >= Begins(th[t].req)
  <2>1. Keys \subseteq Nat
    BY KeysAssumption DEF KeysAssumption
  <2>2. ASSUME NEW j \in Keys, j >= k + 1 PROVE j >= th[t].at
    BY <1>5, <1>6, <2>1, <2>2
  <2> QED BY <2>1, <2>2 DEF Walked
<1>8. /\ IsList(th[t].got) /\ Len(th[t].got) \in Nat /\ DOMAIN th[t].got = 1 .. Len(th[t].got)
  BY LenProperties DEF TypeInv, IsList
<1>9. /\ \A n \in 1 .. Len(th[t].got) :
           th[t].got[n] \in ever[t] /\ th[t].got[n][1] \in Keys \cap th[t].req.accept
           /\ th[t].got[n][1] >= Begins(th[t].req) /\ th[t].got[n][1] < th[t].at
      /\ \A m, n \in 1 .. Len(th[t].got) : m < n => th[t].got[m][1] < th[t].got[n][1]
      /\ \A j \in always[t] \cap th[t].req.accept :
           j >= Begins(th[t].req) /\ j < th[t].at => \E n \in 1 .. Len(th[t].got) : th[t].got[n][1] = j
  BY DEF Walked
<1>10. \A j \in always[t] : j < k + 1 => j < th[t].at \/ j = k
  <2>1. SUFFICES ASSUME NEW j \in always[t], j < k + 1, ~(j < th[t].at) PROVE j = k
    OBVIOUS
  <2>2. j \in Nat /\ j >= th[t].at
    BY <1>6, <2>1, SeenKeys
  <2>3. k <= j
    BY <1>4, <2>2, SeenKeys
  <2> QED BY <1>5, <2>1, <2>2, <2>3
<1>11. ASSUME NEW n \in 1 .. Len(th[t].got) PROVE th[t].got[n][1] \in Nat /\ th[t].got[n][1] < k
  <2>1. PICK j : j = th[t].got[n][1]
    OBVIOUS
  <2>2. j \in Nat /\ j < th[t].at
    BY <1>7, <1>9, <2>1
  <2> QED BY <1>5, <1>6, <2>1, <2>2
<1>12. CASE k \notin th[t].req.accept
  <2>1. th'[t].got = th[t].got
    BY <1>3, <1>12 DEF Visits
  <2>2. \A n \in 1 .. Len(th[t].got) : th[t].got[n][1] < k + 1
    BY <1>5, <1>11
  <2>3. \A j \in always[t] \cap th[t].req.accept :
           j >= Begins(th[t].req) /\ j < k + 1 => \E n \in 1 .. Len(th[t].got) : th[t].got[n][1] = j
    BY <1>9, <1>10, <1>12
  <2> QED BY <1>1, <1>5, <1>6, <1>7, <1>9, <2>1, <2>2, <2>3 DEF Walked, Begins
<1>13. CASE k \in th[t].req.accept
  <2>1. PICK x : x = <<k, Seen(t)[k]>>
    OBVIOUS
  <2>2. th'[t].got = Append(th[t].got, x)
    BY <1>3, <1>13, <2>1 DEF Visits
  <2>3. PICK g : g = th'[t].got
    OBVIOUS
  <2>4. PICK l : l = Len(th[t].got)
    OBVIOUS
  <2>5. l \in Nat /\ Len(g) = l + 1 /\ x \in ever[t] /\ x[1] = k
    BY <1>5, <1>8, <2>1, <2>2, <2>3, <2>4, ListAppend
  <2>6. (\A n \in 1 .. l : g[n] = th[t].got[n]) /\ g[l + 1] = x
    BY <1>8, <2>2, <2>3, <2>4 DEF IsList
  <2>7. ASSUME NEW n \in 1 .. l + 1
        PROVE  g[n] \in ever[t] /\ g[n][1] \in Keys \cap th[t].req.accept /\ g[n][1] >= Begins(th[t].req) /\ g[n][1] < k + 1
    <3>1. CASE n \in 1 .. l
      <4>1. g[n] = th[t].got[n]
        BY <2>6, <3>1
      <4>2. th[t].got[n][1] < k + 1
        BY <1>5, <1>11, <2>4, <3>1
      <4> QED BY <1>9, <2>4, <3>1, <4>1, <4>2
    <3>2. CASE n = l + 1
      BY <1>5, <1>6, <1>13, <2>5, <2>6, <3>2
    <3> QED BY <2>5, <3>1, <3>2
  <2>8. ASSUME NEW m \in 1 .. l + 1, NEW n \in 1 .. l + 1, m < n PROVE g[m][1] < g[n][1]
    <3>1. m \in 1 .. l
      BY <2>5, <2>8
    <3>2. CASE n \in 1 .. l
      BY <1>9, <2>4, <2>6, <2>8, <3>1, <3>2
    <3>3. CASE n = l + 1
      BY <1>11, <2>4, <2>5, <2>6, <3>1, <3>3
    <3> QED BY <2>5, <3>2, <3>3
  <2>9. ASSUME NEW j \in always[t] \cap th[t].req.accept, j >= Begins(th[t].req), j < k + 1
        PROVE  \E n \in 1 .. l + 1 : g[n][1] = j
    <3>1. CASE j < th[t].at
      <4>1. PICK n \in 1 .. l : th[t].got[n][1] = j
        BY <1>9, <2>4, <2>9, <3>1
      <4> QED BY <2>5, <2>6, <4>1
    <3>2. CASE j = k
      <4>1. l + 1 \in 1 .. l + 1 /\ g[l + 1][1] = j
        BY <2>5, <2>6, <3>2
      <4> QED BY <4>1
    <3> QED BY <1>10, <2>9, <3>1, <3>2
  <2>10. \A n \in 1 .. Len(th'[t].got) :
            th'[t].got[n] \in ever'[t] /\ th'[t].got[n][1] \in Keys \cap th'[t].req.accept
            /\ th'[t].got[n][1] >= Begins(th'[t].req) /\ th'[t].got[n][1] < th'[t].at
    BY <1>1, <1>6, <2>3, <2>5, <2>7
  <2>11. \A m, n \in 1 .. Len(th'[t].got) : m < n => th'[t].got[m][1] < th'[t].got[n][1]
    BY <2>3, <2>5, <2>8
  <2>12. \A j \in always'[t] \cap th'[t].req.accept :
           j >= Begins(th'[t].req) /\ j < th'[t].at => \E n \in 1 .. Len(th'[t].got) : th'[t].got[n][1] = j
    BY <1>1, <1>6, <2>3, <2>5, <2>9
  <2>13. /\ th'[t].status = "OK" /\ th'[t].at \in Nat
         /\ \A j \in Keys : j >= th'[t].at => j >= Begins(th'[t].req)
    BY <1>1, <1>5, <1>6, <1>7
  <2> QED BY <2>10, <2>11, <2>12, <2>13 DEF Walked
<1> QED BY <1>12, <1>13
\* What the arrays of the caller hold in the end: an item or a mark in the slot
\* of every item, a mark in all others.
LEMMA CopiesSlots ==
  ASSUME NEW items, NEW sizes, NEW room, Len(items) \in Nat, Len(room) \in Nat
  PROVE  /\ DOMAIN CopySlots(items, sizes, room) = 1 .. Len(room)
         /\ \A n \in 1 .. Len(room) :
              CopySlots(items, sizes, room)[n] \in IF n <= Len(items) THEN {items[n], TooSmall} ELSE {NoMore, TooSmall}
<1>1. ASSUME NEW n \in 1 .. Len(room)
      PROVE  CopySlots(items, sizes, room)[n] \in IF n <= Len(items) THEN {items[n], TooSmall} ELSE {NoMore, TooSmall}
  <2>1. n > Len(items) <=> ~(n <= Len(items))
    OBVIOUS
  <2> QED BY <2>1 DEF CopySlots
<1> QED BY <1>1 DEF CopySlots

LEMMA CopiesPacked ==
  ASSUME NEW items, NEW sizes, NEW N \in Nat, NEW room, NEW g, Len(items) \in Nat, Len(sizes) = Len(items)
  PROVE  /\ DOMAIN CopyPacked(items, sizes, N, room, g) = 1 .. N
         /\ \A n \in 1 .. N :
              CopyPacked(items, sizes, N, room, g)[n] \in
                 IF n <= Len(items) THEN {items[n], TooSmall} ELSE {NoMore, TooSmall}
<1>1. PICK fit : fit = Fitting(sizes, room)
  OBVIOUS
<1>2. fit \in 0 .. Len(items)
  BY <1>1, FittingBound
<1>3. ASSUME NEW n \in 1 .. N
      PROVE  CopyPacked(items, sizes, N, room, g)[n] \in
                IF n <= Len(items) THEN {items[n], TooSmall} ELSE {NoMore, TooSmall}
  <2>1. CopyPacked(items, sizes, N, room, g)[n] =
          IF n <= fit THEN items[n]
          ELSE IF n <= Len(items) \/ (g /\ fit < Len(items)) THEN TooSmall ELSE NoMore
    BY <1>1 DEF CopyPacked
  <2>2. n <= fit => n <= Len(items)
    BY <1>2
  <2> QED BY <2>1, <2>2
<1> QED BY <1>3 DEF CopyPacked

LEMMA SlotsOf ==
  ASSUME TypeInv, NEW t \in Threads, Placed(t), NEW g \in BOOLEAN, Len(th[t].req.vroom) = Len(th[t].req.room)
  PROVE  /\ DOMAIN KeySlots(t, g) = 1 .. Len(th[t].req.room)
         /\ \A n \in 1 .. Len(th[t].req.room) :
              KeySlots(t, g)[n] \in IF n <= Len(th[t].got) THEN {th[t].got[n][1], TooSmall} ELSE {NoMore, TooSmall}
         /\ \A n \in 1 .. Len(th[t].req.room) :
              n <= Len(th[t].got) => ValSlots(t, g)[n] \in {th[t].got[n][2], TooSmall}
<1>1. PICK l : l = Len(th[t].got)
  OBVIOUS
<1>2. l \in Nat /\ DOMAIN th[t].got = 1 .. l
  BY <1>1, LenProperties DEF TypeInv, IsList
<1>3. PICK ls : ls = Listed(t)
  OBVIOUS
<1>4. PICK vs : vs = Values(t)
  OBVIOUS
<1>5. PICK ks : ks = KSizes(t)
  OBVIOUS
<1>6. PICK zs : zs = VSizes(t)
  OBVIOUS
<1>7. Len(ls) = l /\ \A n \in 1 .. l : ls[n] = th[t].got[n][1]
  <2>1. ls = [m \in 1 .. l |-> ls[m]] /\ \A n \in 1 .. l : ls[n] = th[t].got[n][1]
    BY <1>2, <1>3 DEF Listed
  <2> QED BY <1>2, <2>1, ListTo
<1>8. Len(vs) = l /\ \A n \in 1 .. l : vs[n] = th[t].got[n][2]
  <2>1. vs = [m \in 1 .. l |-> vs[m]] /\ \A n \in 1 .. l : vs[n] = th[t].got[n][2]
    BY <1>2, <1>4 DEF Values
  <2> QED BY <1>2, <2>1, ListTo
<1>9. Len(ks) = l
  <2>1. ks = [m \in 1 .. l |-> ks[m]]
    BY <1>2, <1>5 DEF KSizes
  <2> QED BY <1>2, <2>1, ListTo
<1>10. Len(zs) = l
  <2>1. zs = [m \in 1 .. l |-> zs[m]]
    BY <1>2, <1>6 DEF VSizes
  <2> QED BY <1>2, <2>1, ListTo
<1>11. PICK R : R = Len(th[t].req.room)
  OBVIOUS
<1>12. R \in Nat /\ Len(th[t].req.vroom) = R
  BY <1>11, LenProperties DEF Placed, Request
<1>13. /\ DOMAIN KeySlots(t, g) = 1 .. R
       /\ \A n \in 1 .. R : KeySlots(t, g)[n] \in IF n <= l THEN {ls[n], TooSmall} ELSE {NoMore, TooSmall}
  <2>1. CASE th[t].req.packed
    <3>1. PICK w : w = Total(th[t].req.room)
      OBVIOUS
    <3>2. KeySlots(t, g) = CopyPacked(ls, ks, R, w, g)
      BY <1>3, <1>5, <1>11, <2>1, <3>1 DEF KeySlots
    <3>3. Len(ls) \in Nat /\ Len(ks) = Len(ls)
      BY <1>2, <1>7, <1>9
    <3>4. \A n \in 1 .. R : CopyPacked(ls, ks, R, w, g)[n] \in
               IF n <= Len(ls) THEN {ls[n], TooSmall} ELSE {NoMore, TooSmall}
      BY <1>12, <3>3, CopiesPacked
    <3>5. DOMAIN CopyPacked(ls, ks, R, w, g) = 1 .. R
      BY DEF CopyPacked
    <3> QED BY <1>7, <3>2, <3>4, <3>5
  <2>2. CASE ~th[t].req.packed
    <3>1. PICK rm : rm = th[t].req.room
      OBVIOUS
    <3>2. KeySlots(t, g) = CopySlots(ls, ks, rm)
      BY <1>3, <1>5, <2>2, <3>1 DEF KeySlots
    <3>3. Len(ls) \in Nat /\ Len(rm) \in Nat /\ Len(rm) = R
      BY <1>2, <1>7, <1>11, <1>12, <3>1
    <3>4. /\ DOMAIN CopySlots(ls, ks, rm) = 1 .. Len(rm)
          /\ \A n \in 1 .. Len(rm) : CopySlots(ls, ks, rm)[n] \in
               IF n <= Len(ls) THEN {ls[n], TooSmall} ELSE {NoMore, TooSmall}
      BY <3>3, CopiesSlots
    <3> QED BY <1>7, <3>2, <3>3, <3>4
  <2> QED BY <2>1, <2>2
<1>14. \A n \in 1 .. R : ValSlots(t, g)[n] \in IF n <= l THEN {vs[n], TooSmall} ELSE {NoMore, TooSmall}
  <2>1. CASE th[t].req.packed
    <3>1. PICK w : w = Total(th[t].req.vroom)
      OBVIOUS
    <3>2. ValSlots(t, g) = CopyPacked(vs, zs, R, w, g)
      BY <1>4, <1>6, <1>12, <2>1, <3>1 DEF ValSlots
    <3>3. Len(vs) \in Nat /\ Len(zs) = Len(vs)
      BY <1>2, <1>8, <1>10
    <3>4. \A n \in 1 .. R : CopyPacked(vs, zs, R, w, g)[n] \in
               IF n <= Len(vs) THEN {vs[n], TooSmall} ELSE {NoMore, TooSmall}
      BY <1>12, <3>3, CopiesPacked
    <3> QED BY <1>8, <3>2, <3>4
  <2>2. CASE ~th[t].req.packed
    <3>1. PICK rm : rm = th[t].req.vroom
      OBVIOUS
    <3>2. ValSlots(t, g) = CopySlots(vs, zs, rm)
      BY <1>4, <1>6, <2>2, <3>1 DEF ValSlots
    <3>3. Len(vs) \in Nat /\ Len(rm) \in Nat /\ Len(rm) = R
      BY <1>2, <1>8, <1>12, <3>1
    <3>4. \A n \in 1 .. Len(rm) : CopySlots(vs, zs, rm)[n] \in
               IF n <= Len(vs) THEN {vs[n], TooSmall} ELSE {NoMore, TooSmall}
      BY <3>3, CopiesSlots
    <3> QED BY <1>8, <3>2, <3>3, <3>4
  <2> QED BY <2>1, <2>2
<1>15. \A n \in 1 .. R : n <= l => n \in 1 .. l
  BY <1>2, <1>12
<1> QED BY <1>1, <1>7, <1>8, <1>11, <1>13, <1>14, <1>15

\* The slots that a listing leaves behind.
LEMMA ListsSlots ==
  ASSUME TypeInv, KeptInv, Orderly, NEW t \in Threads, Lists(t), Walked(t)
  PROVE  /\ th'[t].status = "OK" /\ DOMAIN th'[t].got = 1 .. Len(th[t].req.room)
         /\ \A n \in 1 .. Len(th[t].req.room) :
              /\ th'[t].got[n][1] \in IF n <= Len(th[t].got) THEN {th[t].got[n][1], TooSmall} ELSE {NoMore, TooSmall}
              /\ th[t].req.op = "listKeyValues" /\ n <= Len(th[t].got) => th'[t].got[n][2] \in {th[t].got[n][2], TooSmall}
<1>1. Placed(t) /\ th[t].req \in conf.requests[t] /\ Request(th[t].req)
  BY RequestOf DEF Lists, Goes
<1>2. th[t].op = th[t].req.op /\ th[t].op \in ListOps /\ Len(th[t].req.vroom) = Len(th[t].req.room)
  BY <1>1 DEF Lists, ListOps, Placed, Request
<1>3. Len(th[t].req.room) \in Nat /\ DOMAIN th[t].req.room = 1 .. Len(th[t].req.room) /\ th[t].req.from \in Nat
  BY <1>1, LenProperties DEF Request
<1>4. CASE th'[t].status = th[t].status
           /\ \E g \in BOOLEAN :
                LET ks == KeySlots(t, g)
                    vs == IF th[t].op = "listKeys" THEN ks ELSE ValSlots(t, g)
                IN  th'[t].got = [n \in DOMAIN ks |-> <<ks[n], vs[n]>>]
  <2>1. PICK g \in BOOLEAN :
          th'[t].got = [n \in DOMAIN KeySlots(t, g) |->
                          <<KeySlots(t, g)[n], (IF th[t].op = "listKeys" THEN KeySlots(t, g) ELSE ValSlots(t, g))[n]>>]
    BY <1>4
  <2>2. PICK ks : ks = KeySlots(t, g)
    OBVIOUS
  <2>3. PICK vs : vs = ValSlots(t, g)
    OBVIOUS
  <2>4. /\ DOMAIN ks = 1 .. Len(th[t].req.room)
        /\ \A n \in 1 .. Len(th[t].req.room) :
             /\ ks[n] \in IF n <= Len(th[t].got) THEN {th[t].got[n][1], TooSmall} ELSE {NoMore, TooSmall}
             /\ n <= Len(th[t].got) => vs[n] \in {th[t].got[n][2], TooSmall}
    BY <1>1, <1>2, <2>2, <2>3, SlotsOf
  <2>5. th'[t].got = [n \in DOMAIN ks |-> <<ks[n], (IF th[t].op = "listKeys" THEN ks ELSE vs)[n]>>]
    BY <2>1, <2>2, <2>3
  <2>6. \A n \in DOMAIN ks : th'[t].got[n][1] = ks[n] /\ (th[t].req.op = "listKeyValues" => th'[t].got[n][2] = vs[n])
    BY <1>2, <2>5
  <2>7. th'[t].status = "OK"
    BY <1>4 DEF Walked
  <2> QED BY <2>4, <2>5, <2>6, <2>7
<1>5. CASE conf.backend = "lmdb" /\ NothingAhead(t)
           /\ th'[t].status = (IF FromIsLast(t) THEN "NotFound" ELSE "OK")
           /\ th'[t].got = [n \in DOMAIN th[t].req.room |-> <<NoMore, NoMore>>]
  <2>1. ~FromIsLast(t)
    <3>1. SUFFICES ASSUME FromIsLast(t) PROVE FALSE
      OBVIOUS
    <3>2. th[t].req.from \in Keys /\ "inclusive" \notin th[t].req.modes
      BY <3>1 DEF FromIsLast, Present, Has
    <3>3. th[t].req.from # 0
      BY <3>2, KeysAssumption DEF KeysAssumption
    <3>4. PICK k \in Kept : k > th[t].req.from
      BY <1>1, <1>2, <1>5, <3>2, <3>3 DEF Orderly
    <3>5. k \in Present(Seen(t))
      BY <1>2, <1>5, <3>4 DEF KeptInv, Seen, Walks, ListOps, Lists, Goes
    <3>6. k \in Nat
      BY <3>5, KeysAssumption DEF KeysAssumption, Present
    <3>7. th[t].at = th[t].req.from + 1
      BY <1>5, <3>2 DEF NothingAhead, FirstPos, Has
    <3>8. k >= th[t].at
      BY <1>3, <3>4, <3>6, <3>7
    <3>9. k \in Ahead(t)
      BY <3>5, <3>8 DEF Ahead
    <3> QED BY <1>5, <3>9 DEF NothingAhead
  <2>2. Len(th[t].got) \in Nat
    BY LenProperties DEF TypeInv, IsList
  <2>3. Len(th[t].got) = 0
    <3>1. SUFFICES ASSUME Len(th[t].got) # 0 PROVE FALSE
      OBVIOUS
    <3>2. 1 \in 1 .. Len(th[t].got)
      BY <2>2, <3>1
    <3>3. PICK k : k = th[t].got[1][1]
      OBVIOUS
    <3>4. k \in Keys /\ k >= Begins(th[t].req) /\ k < th[t].at
      BY <3>2, <3>3 DEF Walked
    <3>5. Begins(th[t].req) = th[t].at
      BY <1>5 DEF NothingAhead, FirstPos, Begins, Has
    <3>6. k \in Nat /\ th[t].at \in Nat
      BY <3>4, KeysAssumption DEF KeysAssumption, Walked
    <3> QED BY <3>4, <3>5, <3>6
  <2>4. \A n \in 1 .. Len(th[t].req.room) : ~(n <= Len(th[t].got))
    BY <1>3, <2>3
  <2>5. th'[t].status = "OK" /\ DOMAIN th'[t].got = 1 .. Len(th[t].req.room)
    BY <1>3, <1>5, <2>1
  <2>6. \A n \in 1 .. Len(th[t].req.room) : th'[t].got[n][1] = NoMore
    BY <1>3, <1>5
  <2> QED BY <2>4, <2>5, <2>6
<1>6. \/ /\ th'[t].status = th[t].status
         /\ \E g \in BOOLEAN :
              LET ks == KeySlots(t, g)
                  vs == IF th[t].op = "listKeys" THEN ks ELSE ValSlots(t, g)
              IN  th'[t].got = [n \in DOMAIN ks |-> <<ks[n], vs[n]>>]
      \/ /\ conf.backend = "lmdb" /\ NothingAhead(t)
         /\ th'[t].status = IF FromIsLast(t) THEN "NotFound" ELSE "OK"
         /\ th'[t].got = [n \in DOMAIN th[t].req.room |-> <<NoMore, NoMore>>]
  BY DEF Lists
<1> QED BY <1>4, <1>5, <1>6

\* As many slots as keys.
LEMMA SlotsSuffice ==
  ASSUME NEW l \in Nat, NEW g, NEW N \in Nat, l <= N, NEW S \in SUBSET (1 .. N), \A n \in 1 .. l : n \in S,
         NEW W, \A k \in W : \E n \in 1 .. l : g[n] = k
  PROVE  Cardinality(S) >= Cardinality(W)
<1>1. IsFiniteSet(1 .. l) /\ IsFiniteSet(1 .. N)
  BY FS_Interval
<1>2. PICK I : I = {n \in 1 .. l : g[n] \in W}
  OBVIOUS
<1>3. IsFiniteSet(S) /\ I \in SUBSET S /\ IsFiniteSet(I)
  <2>1. IsFiniteSet(S) /\ I \in SUBSET S
    BY <1>1, <1>2, FS_Subset
  <2> QED BY <2>1, FS_Subset
<1>4. PICK f : f = [n \in I |-> g[n]]
  OBVIOUS
<1>5. f \in Surjection(I, W)
  BY <1>2, <1>4 DEF Surjection
<1>6. IsFiniteSet(W) /\ Cardinality(W) <= Cardinality(I)
  BY <1>3, <1>5, FS_Surjection
<1>7. Cardinality(I) <= Cardinality(S)
  BY <1>3, FS_Subset
<1>8. Cardinality(W) \in Nat /\ Cardinality(I) \in Nat /\ Cardinality(S) \in Nat
  BY <1>3, <1>6, FS_CardinalityType
<1> QED BY <1>6, <1>7, <1>8

\* A set of slots that has one is not counted as none.
LEMMA SlotsCounted ==
  ASSUME NEW N \in Nat, NEW S \in SUBSET (1 .. N) PROVE Cardinality(S) > 0 <=> S # {}
<1>1. IsFiniteSet(1 .. N)
  BY FS_Interval
<1>2. IsFiniteSet(S)
  BY <1>1, FS_Subset
<1>3. Cardinality(S) \in Nat
  BY <1>2, FS_CardinalityType
<1>4. Cardinality(S) = 0 <=> S = {}
  BY <1>2, FS_EmptySet
<1>5. PICK c : c = Cardinality(S)
  OBVIOUS
<1>6. c > 0 <=> c # 0
  BY <1>3, <1>5
<1> QED BY <1>4, <1>5, <1>6

\* What is wanted is what the walk looks at.
LEMMA WantedOf ==
  ASSUME NEW t \in Threads, th[t].req.from \in Nat
  PROVE  \A k \in Keys : k \in Wanted(t) <=> k \in th[t].req.accept /\ k >= Begins(th[t].req)
<1>1. Keys \subseteq Nat \ {0}
  BY KeysAssumption DEF KeysAssumption
<1> QED BY <1>1 DEF Wanted, Begins, Has

\* A listing that comes to its end is exact.
LEMMA ListsExactly ==
  ASSUME TypeInv, HistInv, KeptInv, Orderly, NEW t \in Threads, Lists(t), Walked(t)
  PROVE  SoundListing(t)' /\ CompleteListing(t)'
<1>1. Placed(t) /\ th[t].req \in conf.requests[t] /\ Request(th[t].req)
  BY RequestOf DEF Lists, Goes
<1>2. PICK r : r = th[t].req
  OBVIOUS
<1>3. PICK got : got = th[t].got
  OBVIOUS
<1>4. PICK l : l = Len(got)
  OBVIOUS
<1>5. PICK N : N = Len(r.room)
  OBVIOUS
<1>6. PICK g : g = th'[t].got
  OBVIOUS
<1>7. /\ th[t].op = r.op /\ r.op \in ListOps /\ r.max = N /\ N \in Nat /\ r.from \in Nat
      /\ th'[t].req = r /\ ever' = ever /\ always' = always
  <2>1. th[t].op = r.op /\ r.op \in ListOps
    BY <1>1, <1>2 DEF Lists, ListOps, Placed
  <2>2. r.max = N /\ N \in Nat /\ r.from \in Nat
    BY <1>1, <1>2, <1>5, <2>1, LenProperties DEF Request, ListOps
  <2> QED BY <1>2, <2>1, <2>2 DEF Lists, Same, data
<1>8. l \in Nat
  BY <1>3, <1>4, LenProperties DEF TypeInv, IsList
<1>9. /\ th'[t].status = "OK" /\ DOMAIN g = 1 .. N
      /\ \A n \in 1 .. N : g[n][1] \in IF n <= l THEN {got[n][1], TooSmall} ELSE {NoMore, TooSmall}
      /\ \A n \in 1 .. N : r.op = "listKeyValues" /\ n <= l => g[n][2] \in {got[n][2], TooSmall}
  BY <1>2, <1>3, <1>4, <1>5, <1>6, ListsSlots
<1>10. /\ \A n \in 1 .. l : got[n] \in ever[t] /\ got[n][1] \in Keys \cap r.accept
                            /\ got[n][1] >= Begins(r) /\ got[n][1] < th[t].at
       /\ \A m, n \in 1 .. l : m < n => got[m][1] < got[n][1]
       /\ \A k \in always[t] \cap r.accept : k >= Begins(r) /\ k < th[t].at => \E n \in 1 .. l : got[n][1] = k
       /\ th[t].at \in Nat
  BY <1>2, <1>3, <1>4 DEF Walked
<1>11. TooSmall \notin Keys /\ NoMore \notin Keys /\ TooSmall # NoMore /\ Keys \subseteq Nat \ {0}
  BY NamesAssumption, KeysAssumption DEF NamesAssumption, KeysAssumption
\* A slot that holds a key holds that of the walk.
<1>12. ASSUME NEW n \in 1 .. N, g[n][1] \in Keys PROVE n \in 1 .. l /\ g[n][1] = got[n][1]
  <2>1. n <= l
    BY <1>9, <1>11, <1>12
  <2>2. n \in 1 .. l
    BY <1>7, <1>8, <2>1
  <2> QED BY <1>9, <1>11, <1>12, <2>1, <2>2
<1>13. Wanted(t)' = Wanted(t)
  BY <1>2, <1>7 DEF Wanted, Has
<1>14. \A k \in Keys : k \in Wanted(t) <=> k \in r.accept /\ k >= Begins(r)
  BY <1>2, <1>7, WantedOf
<1>15. PICK s : s = Slots(t)'
  OBVIOUS
<1>16. DOMAIN s = 1 .. N /\ \A n \in 1 .. N : s[n] = g[n][1]
  <2>1. s = [n \in DOMAIN g |-> g[n][1]]
    BY <1>6, <1>15 DEF Slots
  <2> QED BY <1>9, <2>1
<1>17. SoundListing(t)'
  <2>1. \A m, n \in DOMAIN s : m < n /\ {s[m], s[n]} \subseteq Keys => s[m] < s[n]
    <3>1. SUFFICES ASSUME NEW m \in 1 .. N, NEW n \in 1 .. N, m < n, g[m][1] \in Keys, g[n][1] \in Keys
                   PROVE  g[m][1] < g[n][1]
      BY <1>16
    <3> QED BY <1>10, <1>12, <3>1
  <2>2. {s[n] : n \in DOMAIN s} \cap Keys \subseteq Wanted(t)
    <3>1. SUFFICES ASSUME NEW n \in 1 .. N, g[n][1] \in Keys PROVE g[n][1] \in Wanted(t)
      BY <1>16
    <3>2. n \in 1 .. l /\ g[n][1] = got[n][1]
      BY <1>12, <3>1
    <3> QED BY <1>10, <1>14, <3>1, <3>2
  <2>3. ASSUME NEW n \in DOMAIN g, g[n][1] \in Keys
        PROVE  \E p \in ever[t] : p[1] = g[n][1] /\ (r.op = "listKeyValues" => g[n][2] \in {p[2], TooSmall})
    <3>1. n \in 1 .. N /\ n \in 1 .. l /\ g[n][1] = got[n][1]
      BY <1>9, <1>12, <2>3
    <3>2. n <= l
      BY <1>8, <3>1
    <3>3. got[n] \in ever[t] /\ (r.op = "listKeyValues" => g[n][2] \in {got[n][2], TooSmall})
      BY <1>9, <1>10, <3>1, <3>2
    <3> QED BY <3>1, <3>3
  <2>4. Named(t)' = {s[n] : n \in DOMAIN s} \cap Keys
    BY <1>15 DEF Named
  <2>5. \A n \in DOMAIN th'[t].got : th'[t].got[n][1] \in Keys =>
          LET a == th'[t].got[n][2] IN
          \E p \in ever'[t] : p[1] = th'[t].got[n][1] /\ (th'[t].req.op = "listKeyValues" => a \in {p[2], TooSmall})
    BY <1>6, <1>7, <2>3
  <2> QED BY <1>13, <1>15, <2>1, <2>2, <2>4, <2>5 DEF SoundListing
<1>18. CompleteListing(t)'
  <2> DEFINE C(S) == {n \in DOMAIN s : s[n] \in S}
  <2>1. \A S : C(S) \in SUBSET (1 .. N)
    BY <1>16
  <2>2. SUFFICES ASSUME Cardinality(C({NoMore})) > 0
        PROVE  /\ Wanted(t) \cap always[t] \subseteq {s[n] : n \in DOMAIN s} \cap Keys \/ Cardinality(C({TooSmall})) > 0
               /\ Cardinality(C(Keys \cup {TooSmall})) >= Cardinality(Wanted(t) \cap always[t])
    BY <1>7, <1>9, <1>13, <1>15 DEF CompleteListing, Count, Named
  <2>3. PICK n \in 1 .. N : g[n][1] = NoMore
    <3>1. C({NoMore}) # {}
      BY <1>7, <2>1, <2>2, SlotsCounted
    <3> QED BY <1>16, <3>1
  <2>4. ~(n <= l)
    <3>1. SUFFICES ASSUME n <= l PROVE FALSE
      OBVIOUS
    <3>2. n \in 1 .. l
      BY <1>7, <1>8, <2>3, <3>1
    <3>3. g[n][1] \in {got[n][1], TooSmall}
      BY <1>9, <2>3, <3>1
    <3> QED BY <1>10, <1>11, <2>3, <3>2, <3>3
  <2>5. l < N
    BY <1>7, <1>8, <2>3, <2>4
  <2>6. ~Full(t)
    BY <1>2, <1>3, <1>4, <1>7, <1>8, <2>5 DEF Full
  <2>7. Over(t)
    BY DEF Lists
  <2>8. ASSUME NEW k \in Wanted(t) \cap always[t] PROVE \E j \in 1 .. l : got[j][1] = k
    <3>1. k \in Keys /\ k \in Nat /\ k \in r.accept /\ k >= Begins(r)
      <4>1. k \in Keys
        BY <1>2, <1>7, <2>8, SeenKeys DEF ListOps
      <4> QED BY <1>11, <1>14, <2>8, <4>1
    <3>2. CASE k < th[t].at
      BY <1>10, <2>8, <3>1, <3>2
    <3>3. CASE ~(k < th[t].at)
      <4>1. k >= th[t].at
        BY <1>10, <3>1, <3>3
      <4>2. k \in Ahead(t)
        BY <1>2, <1>7, <2>8, <4>1, SeenKeys DEF ListOps
      <4>3. Min(Ahead(t)) \in r.stop \ r.accept
        BY <1>2, <2>6, <2>7, <4>2 DEF Over
      <4>4. Min(Ahead(t)) <= k
        <5>1. Ahead(t) \in SUBSET Nat /\ Ahead(t) # {}
          BY <1>2, <1>7, <4>2, SeenKeys DEF ListOps
        <5> QED BY <4>2, <5>1, MinOf
      <4>5. k < Min(Ahead(t))
        BY <1>1, <1>2, <1>7, <3>1, <4>3 DEF Orderly
      <4>6. Min(Ahead(t)) \in Nat
        <5>1. Ahead(t) \in SUBSET Nat /\ Ahead(t) # {}
          BY <1>2, <1>7, <4>2, SeenKeys DEF ListOps
        <5> QED BY <5>1, MinOf
      <4> QED BY <3>1, <4>4, <4>5, <4>6
    <3> QED BY <3>2, <3>3
  <2>9. ASSUME NEW j \in 1 .. l PROVE j \in 1 .. N /\ g[j][1] \in {got[j][1], TooSmall} /\ got[j][1] \in Keys
    <3>1. j \in 1 .. N /\ j <= l
      BY <1>7, <1>8, <2>5
    <3> QED BY <1>9, <1>10, <3>1
  <2>10. Wanted(t) \cap always[t] \subseteq {s[j] : j \in DOMAIN s} \cap Keys \/ Cardinality(C({TooSmall})) > 0
    <3>1. SUFFICES ASSUME NEW k \in Wanted(t) \cap always[t], k \notin {s[j] : j \in DOMAIN s} \cap Keys
                   PROVE  Cardinality(C({TooSmall})) > 0
      OBVIOUS
    <3>2. PICK j \in 1 .. l : got[j][1] = k
      BY <2>8
    <3>3. j \in 1 .. N /\ g[j][1] = TooSmall
      BY <1>16, <2>9, <3>1, <3>2
    <3>4. C({TooSmall}) # {}
      BY <1>16, <3>3
    <3> QED BY <1>7, <2>1, <3>4, SlotsCounted
  <2>11. Cardinality(C(Keys \cup {TooSmall})) >= Cardinality(Wanted(t) \cap always[t])
    <3>1. \A j \in 1 .. l : j \in C(Keys \cup {TooSmall})
      BY <1>16, <2>9
    <3>2. PICK S : S = C(Keys \cup {TooSmall})
      OBVIOUS
    <3>3. PICK W : W = Wanted(t) \cap always[t]
      OBVIOUS
    <3>4. PICK f : f = [j \in 1 .. l |-> got[j][1]]
      OBVIOUS
    <3>5. \A k \in W : \E j \in 1 .. l : f[j] = k
      BY <2>8, <3>3, <3>4
    <3>6. S \in SUBSET (1 .. N)
      BY <1>16, <3>2
    <3>7. \A j \in 1 .. l : j \in S
      BY <3>1, <3>2
    <3>8. l <= N /\ l \in Nat /\ N \in Nat
      BY <1>7, <1>8, <2>5
    <3> HIDE DEF C
    <3>9. Cardinality(S) >= Cardinality(W)
      BY <3>5, <3>6, <3>7, <3>8, SlotsSuffice
    <3> QED BY <3>2, <3>3, <3>9
  <2> QED BY <2>10, <2>11
<1> QED BY <1>17, <1>18

\* Where a listing begins.
LEMMA EntersWalks ==
  ASSUME TypeInv, HistInv, KeptInv, Orderly, NEW t \in Threads, Enters(t), th[t].op \in ListOps, th[t].req.op = th[t].op,
         th[t].status = "OK", th[t].got = << >>
  PROVE  Walked(t)'
<1>1. Placed(t) /\ th[t].req \in conf.requests[t] /\ Request(th[t].req)
  BY RequestOf DEF Enters, Goes
<1>2. PICK r : r = th[t].req
  OBVIOUS
<1>3. /\ th'[t].req = r /\ th'[t].got = << >> /\ th'[t].status = "OK" /\ always' = always
      /\ th'[t].at = IF conf.backend = "berkeleydb" THEN SetRange(t) ELSE FirstPos(t)
  BY <1>2 DEF Enters, Same, Still, data, Walks, ListOps
<1>4. r.from \in Nat /\ Keys \subseteq Nat \ {0}
  BY <1>1, <1>2, KeysAssumption DEF Request, KeysAssumption
<1>5. th'[t].at = Begins(r) \/ (r.from = 0 /\ th'[t].at = 0)
  <2>1. CASE conf.backend = "berkeleydb"
    <3>1. CASE r.from = 0 \/ "inclusive" \in r.modes
      <4>1. SetRange(t) = r.from
        BY <1>2, <3>1 DEF SetRange, Has
      <4> QED BY <1>3, <2>1, <3>1, <4>1 DEF Begins
    <3>2. CASE ~(r.from = 0 \/ "inclusive" \in r.modes)
      <4>1. r.from \in Kept
        <5>1. r \in conf.requests[t] /\ r.op \in ListOps
          BY <1>1, <1>2
        <5> QED BY <2>1, <3>2, <5>1 DEF Orderly
      <4>2. r.from \in Present(db)
        BY <2>1, <4>1 DEF KeptInv
      <4>3. PICK here : here = {k \in Present(db) : k >= r.from}
        OBVIOUS
      <4>4. here \in SUBSET Nat /\ r.from \in here
        <5>1. Present(db) \subseteq Nat
          BY <1>4 DEF Present
        <5>2. r.from >= r.from
          BY <1>4
        <5>3. r.from \in here
          BY <4>2, <4>3, <5>2
        <5> QED BY <4>3, <5>1, <5>3
      <4>5. PICK m : m = Min(here)
        OBVIOUS
      <4>6. m \in here /\ m <= r.from
        BY <4>4, <4>5, MinOf
      <4>7. m = r.from
        BY <1>4, <4>3, <4>4, <4>6
      <4>8. here # {} /\ KeySize[Min(here)] = KeySize[r.from] /\ Min(here) + 1 = r.from + 1
        BY <4>4, <4>5, <4>7
      <4>9. SetRange(t) = r.from + 1
        BY <1>2, <3>2, <4>3, <4>8 DEF SetRange, Has
      <4> QED BY <1>3, <2>1, <3>2, <4>9 DEF Begins
    <3> QED BY <3>1, <3>2
  <2>2. CASE conf.backend # "berkeleydb"
    BY <1>2, <1>3, <2>2 DEF FirstPos, Begins, Has
  <2> QED BY <2>1, <2>2
<1>6. PICK a : a = th'[t].at
  OBVIOUS
<1>7. PICK b : b = Begins(r)
  OBVIOUS
<1>8. b \in Nat /\ (a = b \/ (a = 0 /\ b = 1))
  BY <1>4, <1>5, <1>6, <1>7 DEF Begins
<1>9. a \in Nat /\ \A k \in Keys : (k >= a => k >= b) /\ ~(k >= b /\ k < a)
  BY <1>4, <1>8
<1>10. always'[t] \subseteq Keys
  BY <1>3, SeenKeys DEF ListOps
<1>11. Len(th'[t].got) = 0 /\ 1 .. Len(th'[t].got) = {}
  BY <1>3
<1>12. \A k \in always'[t] \cap r.accept : ~(k >= b /\ k < a)
  BY <1>9, <1>10
<1> QED BY <1>3, <1>6, <1>7, <1>9, <1>11, <1>12 DEF Walked

\* Histories of the others only get wider.
LEMMA HistoryWidens ==
  ASSUME TypeInv, NEW t \in Threads, Kind(t), NEW u \in Threads, u # t \/ ~Receives(t)
  PROVE  ever[u] \subseteq ever'[u] /\ always'[u] \subseteq always[u]
<1>1. CASE Receives(t)
  <2>1. ever'[u] = ever[u] /\ always'[u] = always[u]
    BY <1>1 DEF Receives, TypeInv
  <2> QED BY <2>1
<1>2. CASE ~Receives(t)
  <2>1. CASE UNCHANGED <<db, ever, always>>
    BY <2>1
  <2>2. ASSUME NEW d, Write(d) PROVE ever[u] \subseteq ever'[u] /\ always'[u] \subseteq always[u]
    BY <2>2, WriteCovers
  <2> QED BY <1>2, <2>1, <2>2, DataKinds
<1> QED BY <1>1, <1>2

LEMMA WalkKept ==
  ASSUME NEW u \in Threads, th'[u] = th[u], ever[u] \subseteq ever'[u], always'[u] \subseteq always[u], Walked(u)
  PROVE  Walked(u)'
BY DEF Walked

LEMMA SoundKept ==
  ASSUME NEW u \in Threads, th'[u] = th[u], ever[u] \subseteq ever'[u], SoundListing(u)
  PROVE  SoundListing(u)'
<1>1. Slots(u)' = Slots(u) /\ Named(u)' = Named(u) /\ Wanted(u)' = Wanted(u)
  BY DEF Slots, Named, Wanted, Has
<1>2. \A n \in DOMAIN th[u].got : th[u].got[n][1] \in Keys =>
        \E p \in ever'[u] : p[1] = th[u].got[n][1]
                            /\ (th[u].req.op = "listKeyValues" => th[u].got[n][2] \in {p[2], TooSmall})
  BY DEF SoundListing
<1> QED BY <1>1, <1>2 DEF SoundListing

LEMMA CompleteKept ==
  ASSUME TypeInv, HistInv, NEW u \in Threads, th[u].req.op # "none", th'[u] = th[u], always'[u] \subseteq always[u],
         CompleteListing(u)
  PROVE  CompleteListing(u)'
<1>1. Slots(u)' = Slots(u) /\ Named(u)' = Named(u) /\ Wanted(u)' = Wanted(u)
  BY DEF Slots, Named, Wanted, Has
<1>2. PICK W : W = Wanted(u) \cap always[u]
  OBVIOUS
<1>3. PICK V : V = Wanted(u) \cap always'[u]
  OBVIOUS
<1>4. V \in SUBSET W /\ W \in SUBSET Keys
  BY <1>2, <1>3, SeenKeys
<1>5. IsFiniteSet(W) /\ IsFiniteSet(V) /\ Cardinality(V) <= Cardinality(W)
  <2>1. IsFiniteSet(W)
    BY <1>4, KeysAssumption, FS_Subset DEF KeysAssumption
  <2> QED BY <1>4, <2>1, FS_Subset
<1>6. Cardinality(V) \in Nat /\ Cardinality(W) \in Nat
  BY <1>5, FS_CardinalityType
<1>7. PICK c : c = Count(u, Keys \cup {TooSmall})
  OBVIOUS
<1>8. IsFiniteSet(DOMAIN Slots(u))
  <2>1. DOMAIN Slots(u) = 1 .. Len(th[u].got) /\ Len(th[u].got) \in Nat
    BY LenProperties DEF Slots, TypeInv, IsList
  <2> QED BY <2>1, FS_Interval
<1>9. c \in Nat
  <2>1. PICK S : S = {n \in DOMAIN Slots(u) : Slots(u)[n] \in Keys \cup {TooSmall}}
    OBVIOUS
  <2>2. IsFiniteSet(S)
    BY <1>8, <2>1, FS_Subset
  <2> QED BY <1>7, <2>1, <2>2, FS_CardinalityType DEF Count
<1>10. \A S : Count(u, S)' = Count(u, S)
  BY <1>1 DEF Count
<1>11. th[u].status = "OK" /\
       (Count(u, {NoMore}) > 0 => /\ W \subseteq Named(u) \/ Count(u, {TooSmall}) > 0
                                  /\ c >= Cardinality(W))
  BY <1>2, <1>7 DEF CompleteListing
<1>12. c >= Cardinality(W) => c >= Cardinality(V)
  BY <1>5, <1>6, <1>9
<1>13. W \subseteq Named(u) => V \subseteq Named(u)
  BY <1>4
<1>14. th'[u].status = "OK" /\
       (Count(u, {NoMore}) > 0 => /\ V \subseteq Named(u) \/ Count(u, {TooSmall}) > 0
                                  /\ c >= Cardinality(V))
  BY <1>11, <1>12, <1>13
<1>15. Count(u, {NoMore})' = Count(u, {NoMore}) /\ Count(u, {TooSmall})' = Count(u, {TooSmall})
       /\ Count(u, Keys \cup {TooSmall})' = c
  BY <1>1, <1>7 DEF Count
<1> QED BY <1>1, <1>3, <1>14, <1>15 DEF CompleteListing

LEMMA ListNext == TypeInv /\ HistInv /\ KeptInv /\ Orderly /\ ListInv /\ [Next]_vars => ListInv'
<1> SUFFICES ASSUME TypeInv, HistInv, KeptInv, Orderly, ListInv, [Next]_vars,
                    NEW u \in Threads, th'[u].req.op \in ListOps
             PROVE  /\ th'[u].pc = "enter" => th'[u].status = "OK" /\ th'[u].got = << >>
                    /\ th'[u].pc = "body" => Walked(u)'
                    /\ u \in Listings' => SoundListing(u)' /\ CompleteListing(u)'
  BY DEF ListInv
<1> DEFINE Goal == /\ th'[u].pc = "enter" => th'[u].status = "OK" /\ th'[u].got = << >>
                   /\ th'[u].pc = "body" => Walked(u)'
                   /\ u \in Listings' => SoundListing(u)' /\ CompleteListing(u)'
<1>1. ASSUME th'[u] = th[u], ever[u] \subseteq ever'[u], always'[u] \subseteq always[u] PROVE Goal
  <2>1. th[u].req.op \in ListOps /\ th[u].req.op # "none"
    BY <1>1 DEF ListOps
  <2>2. /\ th[u].pc = "enter" => th[u].status = "OK" /\ th[u].got = << >>
        /\ th[u].pc = "body" => Walked(u)
        /\ u \in Listings => SoundListing(u) /\ CompleteListing(u)
    BY <2>1 DEF ListInv
  <2>3. u \in Listings' <=> u \in Listings
    BY <1>1 DEF Listings
  <2>4. th[u].pc = "body" => Walked(u)'
    BY <1>1, <2>2, WalkKept
  <2>5. u \in Listings => SoundListing(u)' /\ CompleteListing(u)'
    BY <1>1, <2>1, <2>2, SoundKept, CompleteKept
  <2> QED BY <1>1, <2>2, <2>3, <2>4, <2>5
<1>2. CASE UNCHANGED vars
  BY <1>1, <1>2 DEF vars
<1>3. ASSUME NEW t \in Threads, Step(t) PROVE Goal
  <2>1. Frame(t) /\ Kind(t) /\ conf' = conf
    BY <1>3, StepCases DEF Frame
  <2>2. CASE u # t
    <3>1. th'[u] = th[u]
      BY <2>1, <2>2 DEF Frame
    <3>2. ever[u] \subseteq ever'[u] /\ always'[u] \subseteq always[u]
      BY <2>1, <2>2, HistoryWidens
    <3> QED BY <1>1, <3>1, <3>2
  <2>3. CASE u = t /\ Receives(t)
    <3>1. \/ th'[u].pc = "enter" /\ th'[u].status = "OK" /\ th'[u].got = << >>
          \/ th'[u].pc = "idle" /\ th'[u].status = "Mode"
      BY <2>3 DEF Receives
    <3>2. u \notin Listings'
      BY <3>1 DEF Listings
    <3> QED BY <3>1, <3>2
  <2>4. CASE u = t /\ ~Receives(t)
    <3>1. th'[u].req = th[u].req /\ th[u].req.op \in ListOps
      BY <2>1, <2>4, ViewKinds
    <3>2. th[u].pc # "idle"
      BY <2>1, <2>4 DEF Kind, Refuses, Enters, EntersWriting, Looks, Visits, Resumes, Ends, Lists, Consumes,
         WritesAll, WritesOne, Skips, Unlocks, Checks, HandsOver, GivesUp, Goes
    <3>3. Placed(u)
      BY <3>2, RequestOf
    <3>4. th[u].op = th[u].req.op /\ th[u].op \in ListOps /\ th[u].pc \in {"enter", "body"}
      BY <3>1, <3>2, <3>3 DEF Placed, ListOps, TypeInv, Places
    <3>5. Refuses(u) \/ Enters(u) \/ Visits(u) \/ Lists(u)
      <4>1. th[u].op \notin {"put", "erase", "migrate", "get", "fetch"} /\ th[u].op \notin Lookups
        BY <3>4 DEF ListOps, Lookups
      <4>2. ~(EntersWriting(u) \/ Looks(u) \/ Resumes(u) \/ Ends(u) \/ Consumes(u) \/ WritesAll(u) \/ WritesOne(u)
              \/ Skips(u) \/ Unlocks(u) \/ Checks(u) \/ HandsOver(u) \/ GivesUp(u))
        BY <3>4, <4>1 DEF EntersWriting, Whole, Looks, Resumes, Ends, Consumes, WritesAll, WritesOne, Skips,
           Unlocks, Checks, HandsOver, GivesUp, Goes
      <4> QED BY <2>1, <2>4, <4>2 DEF Kind
    <3>6. /\ th[u].pc = "enter" => th[u].status = "OK" /\ th[u].got = << >>
          /\ th[u].pc = "body" => Walked(u)
      BY <3>1 DEF ListInv
    <3>7. CASE Refuses(u)
      <4>1. th'[u].pc \in {"idle", "unlock2"} /\ th'[u].status \notin {"OK", "NotFound"}
        BY <3>7 DEF Refuses, Goes, Back
      <4> QED BY <4>1 DEF Listings
    <3>8. CASE Enters(u)
      <4>1. th'[u].pc = "body" /\ th[u].pc = "enter"
        BY <3>8 DEF Enters, Goes
      <4>2. Walked(u)'
        BY <2>1, <3>4, <3>6, <3>8, <4>1, EntersWalks
      <4> QED BY <4>1, <4>2 DEF Listings
    <3>9. CASE Visits(u)
      <4>1. th'[u].pc = "body" /\ th[u].pc = "body"
        BY <3>4, <3>9 DEF Visits, ListOps
      <4>2. Walked(u)'
        BY <2>1, <2>4, <3>4, <3>6, <3>9, <4>1, VisitWalks DEF ListOps
      <4> QED BY <4>1, <4>2 DEF Listings
    <3>10. CASE Lists(u)
      <4>1. th'[u].pc = "idle" /\ th[u].pc = "body"
        BY <3>10 DEF Lists, Goes
      <4>2. SoundListing(u)' /\ CompleteListing(u)'
        BY <3>6, <3>10, <4>1, ListsExactly
      <4> QED BY <4>1, <4>2
    <3> QED BY <3>5, <3>7, <3>8, <3>9, <3>10
  <2> QED BY <2>2, <2>3, <2>4
<1> QED BY <1>2, <1>3 DEF Next

LEMMA OrderlyKept == TypeInv /\ Orderly /\ [Next]_vars => Orderly'
<1> SUFFICES ASSUME TypeInv, Orderly, [Next]_vars PROVE Orderly'
  OBVIOUS
<1>1. conf' = conf
  BY ConfKept
<1>2. Kept' = Kept
  BY <1>1 DEF Kept, Present
<1> QED BY <1>1, <1>2 DEF Orderly

\* What a client sees of the keys is exact, next to any writers: a listing names
\* no key twice or out of order, none that was not there, and passes over none
\* that was there all the time, in a setup without the listings that are known
\* to do so.
THEOREM ListingExactHolds == Spec /\ Orderly => []ListingExact
<1>1. Init => TypeInv /\ HistInv /\ DataInv /\ KeptInv /\ ListInv
  BY TypeInit, HistInit, DataInit, KeptInit, ListInit
<1> QED BY <1>1, TypeNext, HistNext, DataNext, KeptNext, OrderlyKept, ListNext, ListExact, PTL DEF Spec

-----------------------------------------------------------------------------
(* The store that is seen from outside *)

WriteModes == {"new_only", "exist_only", "append", "exist_append"}

\* The puts of a setup say at most one mode of writing, and store the values
\* that belong to puts that are one step, or to the others.
Marks(r) ==
  /\ r \in Puts
  /\ r.mode \in WriteModes \cup {"none"} /\ r.modes \cap WriteModes = {r.mode} \ {"none"}
  /\ IF AtOnce THEN \A n \in DOMAIN r.vals : r.vals[n] \in AtomicVals
     ELSE r.keys # << >> => \E n \in DOMAIN r.vals : r.vals[n] \notin AtomicVals
Marked == \A t \in Threads : \A r \in conf.requests[t] : r.op = "put" => Marks(r)

\* What keeps the others out of a put that goes from pair to pair: the lock, or
\* that there is one stream and no yield on the way.
Storing == conf.backend \in {"gdbm", "unqlite"} => Locked \/ OneStream

Putting(t) == th[t].pc = "body" /\ Whole(t)

\* Half of a put that is seen as one step is what the abstract put makes of the
\* database with as many pairs, and nobody else is in the middle of one.
StageInv ==
  \A t \in Threads : Putting(t) =>
    /\ Sane(t) /\ th[t].idx <= Len(th[t].req.keys) + 1
    /\ db = Abstract!Stages(th[t].req, before)[th[t].idx - 1]
    /\ \A u \in Threads : Putting(u) => u = t

PutInv ==
  /\ \A t \in Threads : th[t].pc # "idle" => th[t].req.modes \subseteq Supported
  /\ \A t \in Threads : th[t].op = "put" => /\ th[t].pc = "body" => th[t].view = Nothing
                                            /\ th[t].pc = "enter" => th[t].idx = 1
  /\ StageInv

\* A thread that makes a step is one that runs.
LEMMA StepRuns ==
  ASSUME NEW t \in Threads, Step(t)
  PROVE  Runnable(t)
<1> USE DEF At, In, Receive, SecondUnlock, Refuse, EnterRefused, RefuseLocked, EnterAt, Enter, EnterWriting, Snapshot,
        Overrun, Insane, Look, Done, LookEach, Copy, Call, CallOK, CallFailed, Answered, Consume, GetEach, FetchEach,
        PutBatch, PutPair, PutRefused, EraseBatch, EraseKey, EraseEach, Visit, Listing, IterEnd, CheckMigrated,
        HandOver, Cancel, Removed
<1>1. CASE leveldb_Step(t)
  BY <1>1 DEF leveldb_Step, leveldb_count, leveldb_exists, leveldb_length, leveldb_put, leveldb_get, leveldb_fetch,
     leveldb_erase, leveldb_NewIterator, leveldb_listKeys, leveldb_listKeyValues, leveldb_iter,
     leveldb_startMigration, LevelDBMigrationHandle
<1>2. CASE rocksdb_Step(t)
  BY <1>2 DEF rocksdb_Step, rocksdb_count, rocksdb_exists, rocksdb_length, rocksdb_put, rocksdb_get, rocksdb_fetch,
     rocksdb_erase, rocksdb_NewIterator, rocksdb_listKeys, rocksdb_listKeyValues, rocksdb_iter,
     rocksdb_startMigration, RocksDBMigrationHandle
<1>3. CASE lmdb_Step(t)
  BY <1>3 DEF lmdb_Step, Begin, lmdb_count, lmdb_exists, lmdb_length, lmdb_put, lmdb_get, lmdb_fetch,
     lmdb_erase, lmdb_OpenCursor, NoFirstKey, lmdb_listKeys, lmdb_listKeyValues, lmdb_iter,
     lmdb_startMigration, LMDBMigrationHandle
<1>4. CASE berkeleydb_Step(t)
  BY <1>4 DEF berkeleydb_Step, berkeleydb_count, berkeleydb_exists, berkeleydb_length, berkeleydb_put, berkeleydb_get,
     berkeleydb_fetch, berkeleydb_erase, berkeleydb_OpenCursor, Unordered, berkeleydb_listKeys,
     berkeleydb_listKeyValues, berkeleydb_iter
<1>5. CASE gdbm_Step(t)
  BY <1>5 DEF gdbm_Step, gdbm_count, gdbm_exists, gdbm_length, gdbm_put, gdbm_get, gdbm_fetch, gdbm_erase,
     gdbm_startMigration, GDBMMigrationHandle
<1>6. CASE tkrzw_Step(t)
  BY <1>6 DEF tkrzw_Step, tkrzw_count, tkrzw_exists, tkrzw_length, GetLength, tkrzw_put, tkrzw_get, GetValue,
     tkrzw_fetch, FetchValue, tkrzw_erase, MakeIterator, tkrzw_listKeys, ListKeys, tkrzw_listKeyValues, ListKeyVals,
     tkrzw_iter, Iter, tkrzw_startMigration, TkrzwDBMigrationHandle
<1>7. CASE unqlite_Step(t)
  BY <1>7 DEF unqlite_Step, unqlite_count, unqlite_exists, unqlite_length, unqlite_put, unqlite_get, unqlite_fetch,
     unqlite_erase, unqlite_startMigration, UnQLiteMigrationHandle
<1> QED BY <1>1, <1>2, <1>3, <1>4, <1>5, <1>6, <1>7 DEF Step

-----------------------------------------------------------------------------
(* The stages of a put *)

\* What the abstract put makes of a database with one pair.
LEMMA AbstractPut ==
  ASSUME NEW r, NEW s \in Databases, NEW n, r.keys[n] \in Keys, r.vals[n] \in Vals
  PROVE  /\ Abstract!Put(r, s, n) \in Databases
         /\ Abstract!Put(r, s, n) =
              IF ~Abstract!Accepts(r.mode, s[r.keys[n]]) THEN s
              ELSE IF r.mode \in {"append", "exist_append"} THEN Appended(s, r.keys[n], r.vals[n])
              ELSE Stored(s, r.keys[n], r.vals[n])
<1>1. PICK k \in Keys : k = r.keys[n]
  OBVIOUS
<1>2. PICK x : x = Abstract!Written(r.mode, s[k], r.vals[n])
  OBVIOUS
<1>3. Abstract!Put(r, s, n) = IF Abstract!Accepts(r.mode, s[k]) THEN [s EXCEPT ![k] = x] ELSE s
  BY <1>1, <1>2 DEF Abstract!Put
<1>4. CASE r.mode \in {"append", "exist_append"}
  <2>1. x = IF s[k] = Absent THEN <<r.vals[n]>> ELSE Append(s[k], r.vals[n])
    BY <1>2, <1>4 DEF Abstract!Written
  <2>2. [s EXCEPT ![k] = x] = Appended(s, k, r.vals[n])
    BY <2>1 DEF Appended
  <2> QED BY <1>1, <1>3, <1>4, <2>2, StoredTyped
<1>5. CASE r.mode \notin {"append", "exist_append"}
  <2>1. x = <<r.vals[n]>>
    BY <1>2, <1>5 DEF Abstract!Written
  <2>2. [s EXCEPT ![k] = x] = Stored(s, k, r.vals[n])
    BY <2>1 DEF Stored
  <2> QED BY <1>1, <1>3, <1>5, <2>2, StoredTyped
<1> QED BY <1>4, <1>5

\* The stages of an abstract put: nothing at first, then one pair after the other.
LEMMA AbstractStages ==
  ASSUME NEW b, Len(b.keys) \in Nat, NEW s \in Databases,
         \A n \in 1 .. Len(b.keys) : b.keys[n] \in Keys /\ b.vals[n] \in Vals
  PROVE  /\ Abstract!Stages(b, s)[0] = s
         /\ \A n \in 1 .. Len(b.keys) :
              Abstract!Stages(b, s)[n] = Abstract!Put(b, Abstract!Stages(b, s)[n - 1], n)
<1> DEFINE L == Len(b.keys)
<1>1. PICK step : step = [p \in (1 .. L) \X Databases |-> Abstract!Put(b, p[2], p[1])]
  OBVIOUS
<1>2. \A n \in 1 .. L, x \in Databases : step[<<n, x>>] = Abstract!Put(b, x, n)
  BY <1>1
<1>3. step \in [(1 .. L) \X Databases -> Databases]
  <2>1. ASSUME NEW p \in (1 .. L) \X Databases PROVE Abstract!Put(b, p[2], p[1]) \in Databases
    BY AbstractPut
  <2> QED BY <1>1, <2>1
<1>4. PICK g \in [0 .. L -> Databases] : g[0] = s /\ \A n \in 1 .. L : g[n] = step[<<n, g[n - 1]>>]
  <2>1. StagesIn(Databases, s, L, step) # {}
    BY <1>3, StagesExist
  <2> QED BY <2>1 DEF StagesIn
<1>5. g = [n \in 0 .. L |-> IF n = 0 THEN s ELSE Abstract!Put(b, g[n - 1], n)]
  <2>1. PICK h : h = [n \in 0 .. L |-> IF n = 0 THEN s ELSE Abstract!Put(b, g[n - 1], n)]
    OBVIOUS
  <2>2. ASSUME NEW n \in 0 .. L PROVE g[n] = h[n]
    <3>1. CASE n = 0
      BY <1>4, <2>1, <3>1
    <3>2. CASE n # 0
      <4>1. n \in 1 .. L /\ n - 1 \in 0 .. L /\ g[n - 1] \in Databases
        BY <3>2
      <4>2. g[n] = step[<<n, g[n - 1]>>]
        BY <1>4, <4>1
      <4> QED BY <1>2, <2>1, <3>2, <4>1, <4>2
    <3> QED BY <3>1, <3>2
  <2> QED BY <2>1, <2>2
<1>6. PICK f : f = Abstract!Stages(b, s)
  OBVIOUS
<1>7. f = [n \in 0 .. L |-> IF n = 0 THEN s ELSE Abstract!Put(b, f[n - 1], n)]
  BY <1>5, <1>6 DEF Abstract!Stages
<1>8. f[0] = s
  <2>1. 0 \in 0 .. L
    OBVIOUS
  <2> QED BY <1>7, <2>1
<1>9. ASSUME NEW n \in 1 .. L PROVE f[n] = Abstract!Put(b, f[n - 1], n)
  <2>1. n \in 0 .. L /\ n # 0
    OBVIOUS
  <2> QED BY <1>7, <2>1
<1> QED BY <1>6, <1>8, <1>9

\* A batch without a mode stores what the abstract put stores.
LEMMA BatchStages ==
  ASSUME NEW r, Request(r), r.op = "put", r.mode = "none", NEW d \in Databases
  PROVE  Batch(d, r) = Abstract!Stages(r, d)[Len(r.keys)]
<1> DEFINE L == Len(r.keys)
<1>0. L \in Nat /\ \A n \in 1 .. L : r.keys[n] \in Keys /\ r.vals[n] \in Vals
  BY PairsOf
<1>1. /\ Stages(d, r)[0] = d
      /\ \A m \in 1 .. L : Stages(d, r)[m] = Stored(Stages(d, r)[m - 1], r.keys[m], r.vals[m])
  BY StagesOf
<1>2. /\ Abstract!Stages(r, d)[0] = d
      /\ \A m \in 1 .. L : Abstract!Stages(r, d)[m] = Abstract!Put(r, Abstract!Stages(r, d)[m - 1], m)
  BY SMTT(30), <1>0, AbstractStages
<1> DEFINE T == {n \in Nat : n <= L => /\ Stages(d, r)[n] = Abstract!Stages(r, d)[n]
                                       /\ Stages(d, r)[n] \in Databases}
<1>3. 0 \in T
  BY <1>1, <1>2
<1>4. ASSUME NEW n \in Nat, n \in T PROVE n + 1 \in T
  <2> SUFFICES ASSUME n + 1 <= L
               PROVE  /\ Stages(d, r)[n + 1] = Abstract!Stages(r, d)[n + 1]
                      /\ Stages(d, r)[n + 1] \in Databases
    OBVIOUS
  <2>1. n + 1 \in 1 .. L /\ n + 1 - 1 = n /\ n <= L
    BY <1>0
  <2>2. PICK s : s = Stages(d, r)[n]
    OBVIOUS
  <2>3. s \in Databases /\ s = Abstract!Stages(r, d)[n]
    BY <1>4, <2>1, <2>2
  <2>4. Stages(d, r)[n + 1] = Stored(s, r.keys[n + 1], r.vals[n + 1])
    <3>1. Stages(d, r)[n + 1] = Stored(Stages(d, r)[n + 1 - 1], r.keys[n + 1], r.vals[n + 1])
      BY <1>1, <2>1
    <3> QED BY <2>1, <2>2, <3>1
  <2>5. Abstract!Stages(r, d)[n + 1] = Abstract!Put(r, s, n + 1)
    <3>1. Abstract!Stages(r, d)[n + 1] = Abstract!Put(r, Abstract!Stages(r, d)[n + 1 - 1], n + 1)
      BY <1>2, <2>1
    <3> QED BY <2>1, <2>3, <3>1
  <2>6. r.keys[n + 1] \in Keys /\ r.vals[n + 1] \in Vals
    BY <1>0, <2>1
  <2>7. Abstract!Accepts(r.mode, s[r.keys[n + 1]])
    BY DEF Abstract!Accepts
  <2>8. Abstract!Put(r, s, n + 1) = Stored(s, r.keys[n + 1], r.vals[n + 1]) /\ Abstract!Put(r, s, n + 1) \in Databases
    BY <2>3, <2>6, <2>7, AbstractPut
  <2> QED BY <2>4, <2>5, <2>8
<1> HIDE DEF T
<1>5. L \in T
  BY <1>0, <1>3, <1>4, InductiveSet
<1> QED BY <1>0, <1>5 DEF T, Batch

-----------------------------------------------------------------------------
(* What a step means for a put *)

\* The request of a thread in a put.
LEMMA PutFacts ==
  ASSUME TypeInv, Marked, NEW t \in Threads, th[t].pc # "idle", th[t].op = "put"
  PROVE  /\ Request(th[t].req) /\ th[t].req.op = "put" /\ Marks(th[t].req) /\ ~Consuming(t)
         /\ Len(th[t].req.keys) \in Nat
         /\ \A n \in 1 .. Len(th[t].req.keys) : th[t].req.keys[n] \in Keys /\ th[t].req.vals[n] \in Vals
<1>1. th[t].req \in conf.requests[t] /\ Request(th[t].req) /\ th[t].req.op = "put"
  BY DEF TypeInv, Placed
<1>2. Marks(th[t].req)
  BY <1>1 DEF Marked
<1> QED BY <1>1, <1>2, PairsOf DEF Consuming

\* Which keys a put refuses, and what it stores of the others, is what its mode says.
LEMMA PutOne ==
  ASSUME TypeInv, DataInv, PutInv, Marked, NEW t \in Threads, th[t].pc = "body", th[t].op = "put", More(t)
  PROVE  /\ th[t].idx \in 1 .. Len(th[t].req.keys)
         /\ Abstract!Put(th[t].req, db, th[t].idx) =
              IF KeyRefused(t) THEN db
              ELSE IF conf.backend \in {"tkrzw", "unqlite"} /\ Has(t, "append") THEN Appended(db, Key(t), Value(t))
              ELSE Stored(db, Key(t), Value(t))
<1>1. th[t].idx \in 1 .. Len(th[t].req.keys)
  BY PutFacts DEF TypeInv, More
<1>2. Key(t) \in Keys /\ Value(t) \in Vals /\ Key(t) = th[t].req.keys[th[t].idx] /\ Value(t) = th[t].req.vals[th[t].idx]
  BY <1>1, PutFacts DEF Key, Value
<1>3. Found(t) <=> db[Key(t)] # Absent
  BY DEF Found, Seen, PutInv
<1>4. PICK m : m = th[t].req.mode
  OBVIOUS
<1>5. /\ m \in WriteModes \cup {"none"} /\ th[t].req.modes \cap WriteModes = {m} \ {"none"}
      /\ th[t].req.modes \subseteq Supported
  BY <1>4, PutFacts DEF Marks, PutInv
<1>6. \A w \in WriteModes : Has(t, w) <=> m = w
  BY <1>5 DEF Has, WriteModes
<1>7. \A w \in WriteModes : m = w => w \in Supported
  BY <1>5, <1>6 DEF Has
<1>8. /\ Has(t, "new_only") <=> m = "new_only"
      /\ Has(t, "exist_only") <=> m = "exist_only"
      /\ Has(t, "append") <=> m = "append"
  BY <1>6 DEF WriteModes
<1>9. Abstract!Put(th[t].req, db, th[t].idx) =
        IF ~Abstract!Accepts(m, db[Key(t)]) THEN db
        ELSE IF m \in {"append", "exist_append"} THEN Appended(db, Key(t), Value(t))
        ELSE Stored(db, Key(t), Value(t))
  BY <1>2, <1>4, AbstractPut DEF DataInv
<1> USE DEF Abstract!Accepts, KeyRefused
<1>10. CASE conf.backend = "gdbm"
  <2>1. m \in {"none", "new_only", "exist_only"}
    BY <1>5, <1>7, <1>10 DEF WriteModes, Supported, gdbm_supportsMode
  <2> QED BY <1>1, <1>3, <1>8, <1>9, <1>10, <2>1
<1>11. CASE conf.backend = "berkeleydb"
  <2>1. m \in {"none", "new_only"}
    BY <1>5, <1>7, <1>11 DEF WriteModes, Supported, berkeleydb_supportsMode
  <2> QED BY <1>1, <1>3, <1>8, <1>9, <1>11, <2>1
<1>12. CASE conf.backend = "tkrzw"
  <2>1. m \in {"none", "new_only", "append"}
    BY <1>5, <1>7, <1>12 DEF WriteModes, Supported, tkrzw_supportsMode
  <2> QED BY <1>1, <1>3, <1>8, <1>9, <1>12, <2>1
<1>13. CASE conf.backend = "unqlite"
  <2>1. m \in {"none", "append"}
    BY <1>5, <1>7, <1>13 DEF WriteModes, Supported, unqlite_supportsMode
  <2> QED BY <1>1, <1>3, <1>8, <1>9, <1>13, <2>1
<1>14. CASE conf.backend \notin {"gdbm", "berkeleydb", "tkrzw", "unqlite"}
  <2>1. m = "none"
    BY <1>5, <1>7, <1>14 DEF WriteModes, Supported, leveldb_supportsMode
  <2> QED BY <1>1, <1>3, <1>8, <1>9, <1>14, <2>1
<1> QED BY <1>10, <1>11, <1>12, <1>13, <1>14

\* The others do nothing to the database while a put goes from pair to pair,
\* and begin no put.
LEMMA OthersWait ==
  ASSUME TypeInv, LockInv, Storing, NEW t \in Threads, NEW u \in Threads, u # t, Putting(u), Step(t), Frame(t), Kind(t)
  PROVE  db' = db /\ before' = before /\ ~(Putting(t)') /\ Putting(u)'
<1>1. ~AtYield(u) /\ conf.backend \in {"gdbm", "unqlite"}
  BY DEF AtYield, Putting, Whole
<1>2. ~OneStream
  BY <1>1, StepRuns DEF Runnable
<1>3. Locked /\ Writing(u)
  BY <1>1, <1>2 DEF Storing, Writing, Putting
<1>4. writing /\ ~Reading(t) /\ ~Writing(t)
  BY <1>3 DEF LockInv, Outer
<1>5. th[t].pc # "transfer" /\ th[t].pc # "body"
  BY <1>4 DEF Reading, Writing
<1>6. th[t].pc # "call"
  <2> SUFFICES ASSUME th[t].pc = "call" PROVE FALSE
    OBVIOUS
  <2>1. th[t].op \in {"fetch", "iter"} /\ ~Consuming(t)
    BY DEF TypeInv, Placed, Consuming
  <2> QED BY <1>4, <2>1 DEF Reading, Whole
<1>7. ~EntersWriting(t)
  BY <1>3, <1>4 DEF EntersWriting, WriteLock, Locked, HasLock, Wrlock, CanWrite
<1>8. db' = db /\ before' = before /\ (th'[t].pc = "body" => Enters(t))
  BY <1>5, <1>6, <1>7 DEF Kind, Receives, Refuses, Enters, Looks, Visits, Resumes, Ends, Lists, Consumes,
     WritesAll, WritesOne, Skips, Unlocks, Checks, HandsOver, GivesUp, Goes, data, Back
<1>9. ~(Putting(t)')
  BY <1>8 DEF Enters, Putting, Whole, Same, Frame
<1>10. Putting(u)'
  BY DEF Putting, Whole, Frame
<1> QED BY <1>8, <1>9, <1>10

\* What a thread does in the middle of such a put: one pair more, or the end.
PutsOn(t) ==
  /\ th'[t].pc = "body" /\ Same(t) /\ th'[t].idx = th[t].idx + 1 /\ More(t)
  /\ db' = Abstract!Put(th[t].req, db, th[t].idx)
PutEnds(t) ==
  /\ th'[t].pc # "body" /\ db' = db
  /\ \/ ~More(t)
     \/ Len(th[t].req.keys) = 1 /\ More(t) /\ Abstract!Put(th[t].req, db, th[t].idx) = db

LEMMA PutStep ==
  ASSUME TypeInv, DataInv, PutInv, Marked, NEW t \in Threads, Putting(t), Frame(t), Kind(t)
  PROVE  before' = before /\ (PutsOn(t) \/ PutEnds(t))
<1>1. th[t].pc = "body" /\ th[t].op = "put" /\ Whole(t)
  BY DEF Putting, Whole
<1>2. WritesOne(t) \/ Skips(t) \/ Ends(t)
  BY <1>1 DEF Kind, Receives, Refuses, Enters, EntersWriting, Looks, Visits, Resumes, Lists, Consumes, WritesAll,
     Unlocks, Checks, HandsOver, GivesUp, Goes, Lookups, Walks, ListOps
<1>3. CASE WritesOne(t)
  <2>1. More(t) /\ ~KeyRefused(t) /\ before' = before /\ Same(t) /\ th'[t].pc = "body" /\ th'[t].idx = th[t].idx + 1
        /\ db' = IF conf.backend \in {"tkrzw", "unqlite"} /\ Has(t, "append")
                   THEN Appended(db, Key(t), Value(t)) ELSE Stored(db, Key(t), Value(t))
    BY <1>1, <1>3 DEF WritesOne, Goes, Write
  <2> QED BY <1>1, <2>1, PutOne DEF PutsOn
<1>4. CASE Skips(t)
  <2>1. /\ More(t) /\ KeyRefused(t) /\ UNCHANGED <<db, before>>
        /\ Same(t) /\ th'[t].pc = "body" /\ th'[t].idx = th[t].idx + 1
    BY <1>4 DEF Skips, Goes, data
  <2> QED BY <1>1, <2>1, PutOne DEF PutsOn
<1>5. CASE Ends(t)
  <2>1. /\ UNCHANGED <<db, before>> /\ th'[t].pc = Back(t)
        /\ ~More(t) \/ (Len(th[t].req.keys) = 1 /\ More(t) /\ KeyRefused(t))
    BY <1>1, <1>5 DEF Ends, data
  <2>2. th'[t].pc # "body"
    BY <2>1 DEF Back
  <2> QED BY <1>1, <2>1, <2>2, PutOne DEF PutEnds
<1> QED BY <1>2, <1>3, <1>4, <1>5

-----------------------------------------------------------------------------
(* The invariant *)

LEMMA PutInit == Init => PutInv
<1> SUFFICES ASSUME Init PROVE PutInv
  OBVIOUS
<1>1. \A t \in Threads : th[t].pc = "idle"
  BY DEF Init, Idle
<1> QED BY <1>1 DEF PutInv, StageInv, Putting

LEMMA ModesKept ==
  ASSUME TypeInv, PutInv, NEW t \in Threads, Frame(t), Kind(t)
  PROVE  /\ th'[t].pc # "idle" => th'[t].req.modes \subseteq Supported
         /\ th'[t].op = "put" => /\ th'[t].pc = "body" => th'[t].view = Nothing
                                 /\ th'[t].pc = "enter" => th'[t].idx = 1
<1>1. CASE Receives(t)
  BY <1>1 DEF Receives
<1>2. CASE Refuses(t) \/ Enters(t) \/ EntersWriting(t)
  <2>1. th[t].view = Nothing /\ th[t].pc = "enter"
    BY <1>2 DEF TypeInv, Placed, Refuses, Enters, EntersWriting, Goes
  <2>2. th[t].op = "put" => ~Snaps(t)
    BY DEF Snaps, Lookups, Walks
  <2> QED BY <1>2, <2>1, <2>2 DEF PutInv, Refuses, Enters, EntersWriting, Goes, Same, Back
<1>3. CASE Looks(t) \/ Visits(t)
  BY <1>3 DEF PutInv, Looks, Visits, Goes, Same, Lookups, Walks
<1>4. CASE Resumes(t)
  BY <1>4 DEF PutInv, TypeInv, Placed, Resumes, Goes, Same
<1>5. CASE Ends(t) \/ Lists(t) \/ WritesAll(t) \/ Unlocks(t) \/ Checks(t) \/ HandsOver(t) \/ GivesUp(t)
  BY <1>5 DEF PutInv, Ends, Lists, WritesAll, Unlocks, Checks, HandsOver, GivesUp, Goes, Same, Back
<1>6. CASE Consumes(t)
  BY <1>6 DEF PutInv, Consumes, Goes
<1>7. CASE WritesOne(t) \/ Skips(t)
  BY <1>7 DEF PutInv, WritesOne, Skips, Goes, Same
<1> QED BY <1>1, <1>2, <1>3, <1>4, <1>5, <1>6, <1>7 DEF Kind

LEMMA EntersPut ==
  ASSUME TypeInv, NEW t \in Threads, Frame(t), Kind(t), ~Putting(t), Putting(t)'
  PROVE  EntersWriting(t)
<1>1. th'[t].pc = "body" /\ th'[t].op = "put" /\ Whole(t)'
  BY DEF Putting, Whole
<1>2. ~(Receives(t) \/ Refuses(t) \/ Lists(t) \/ Consumes(t) \/ WritesAll(t) \/ Unlocks(t) \/ Checks(t) \/ HandsOver(t)
        \/ GivesUp(t) \/ Ends(t))
  BY <1>1 DEF Receives, Refuses, Lists, Consumes, WritesAll, Unlocks, Checks, HandsOver, GivesUp, Ends, Goes, Back
<1>3. th'[t].op = th[t].op /\ th[t].op = "put" /\ Whole(t)
  BY <1>1, <1>2 DEF Kind, Enters, EntersWriting, Looks, Visits, Resumes, WritesOne, Skips, Same, Whole, Frame
<1>4. th[t].pc # "call"
  BY <1>3 DEF TypeInv, Placed
<1>5. th[t].pc # "body"
  BY <1>3 DEF Putting
<1> QED BY <1>2, <1>3, <1>4, <1>5 DEF Kind, Enters, Looks, Visits, Resumes, WritesOne, Skips, Goes

LEMMA StageStep ==
  ASSUME TypeInv, DataInv, LockInv, Storing, Marked, PutInv, NEW t \in Threads, Step(t), Frame(t), Kind(t)
  PROVE  StageInv'
<1>1. \A u \in Threads \ {t} : Putting(u)' <=> Putting(u)
  BY DEF Frame, Putting, Whole
<1>2. CASE \E u \in Threads \ {t} : Putting(u)
  <2>1. PICK u \in Threads \ {t} : Putting(u)
    BY <1>2
  <2>2. db' = db /\ before' = before /\ ~(Putting(t)') /\ Putting(u)'
    BY <2>1, OthersWait
  <2>3. \A w \in Threads : Putting(w)' => w = u
    BY <1>1, <2>1, <2>2 DEF PutInv, StageInv
  <2>4. th'[u] = th[u]
    BY DEF Frame
  <2>5. /\ Sane(u) /\ th[u].idx <= Len(th[u].req.keys) + 1
        /\ db = Abstract!Stages(th[u].req, before)[th[u].idx - 1]
    BY <2>1 DEF PutInv, StageInv
  <2>6. Sane(u)' /\ th'[u].idx <= Len(th'[u].req.keys) + 1 /\ db' = Abstract!Stages(th'[u].req, before')[th'[u].idx - 1]
    BY <2>2, <2>4, <2>5 DEF Sane
  <2> QED BY <2>3, <2>6 DEF StageInv
<1>3. CASE \A u \in Threads \ {t} : ~Putting(u)
  <2>1. \A u \in Threads : Putting(u)' => u = t
    BY <1>1, <1>3
  <2> SUFFICES ASSUME Putting(t)'
               PROVE  /\ Sane(t)' /\ th'[t].idx <= Len(th'[t].req.keys) + 1
                      /\ db' = Abstract!Stages(th'[t].req, before')[th'[t].idx - 1]
    BY <2>1 DEF StageInv
  <2>2. th'[t].pc = "body"
    BY DEF Putting
  <2>3. CASE ~Putting(t)
    <3>1. EntersWriting(t)
      BY <2>2, <2>3, EntersPut
    <3>2. /\ before' = db /\ db' = db /\ th'[t].idx = th[t].idx /\ th'[t].req = th[t].req
          /\ Sane(t) /\ th[t].pc = "enter" /\ th[t].op = "put"
      BY <3>1 DEF EntersWriting, Goes, Same, Still, Whole
    <3>3. th[t].idx = 1
      BY <3>2 DEF PutInv
    <3>4. Len(th[t].req.keys) \in Nat /\ Abstract!Stages(th[t].req, db)[0] = db
      BY <3>2, PutFacts, AbstractStages DEF DataInv
    <3> QED BY <3>2, <3>3, <3>4 DEF Sane
  <2>4. CASE Putting(t)
    <3>1. before' = before /\ PutsOn(t)
      BY <2>2, <2>4, PutStep DEF PutEnds
    <3>2. /\ Sane(t) /\ db = Abstract!Stages(th[t].req, before)[th[t].idx - 1]
          /\ th[t].pc = "body" /\ th[t].op = "put"
      BY <2>4 DEF PutInv, StageInv, Putting, Whole
    <3>3. /\ th[t].idx \in 1 .. Len(th[t].req.keys) /\ Len(th[t].req.keys) \in Nat
          /\ \A n \in 1 .. Len(th[t].req.keys) : th[t].req.keys[n] \in Keys /\ th[t].req.vals[n] \in Vals
      BY <3>1, <3>2, PutOne, PutFacts DEF PutsOn
    <3>4. \A n \in 1 .. Len(th[t].req.keys) :
            Abstract!Stages(th[t].req, before)[n] = Abstract!Put(th[t].req, Abstract!Stages(th[t].req, before)[n - 1], n)
      BY <3>3, AbstractStages DEF DataInv
    <3>5. Abstract!Stages(th[t].req, before)[th[t].idx] = Abstract!Put(th[t].req, db, th[t].idx)
      BY <3>2, <3>3, <3>4
    <3>6. th'[t].req = th[t].req /\ th'[t].idx = th[t].idx + 1 /\ th'[t].idx - 1 = th[t].idx
          /\ th'[t].idx <= Len(th[t].req.keys) + 1
      BY <3>1, <3>3 DEF PutsOn, Same
    <3>7. db' = Abstract!Stages(th[t].req, before)[th[t].idx]
      BY <3>1, <3>5 DEF PutsOn
    <3>8. db' = Abstract!Stages(th'[t].req, before')[th'[t].idx - 1]
      BY <3>1, <3>6, <3>7
    <3> QED BY <3>2, <3>6, <3>8 DEF Sane
  <2> QED BY <2>3, <2>4
<1> QED BY <1>2, <1>3

LEMMA PutNext ==
  TypeInv /\ DataInv /\ LockInv /\ Storing /\ Marked /\ PutInv /\ [Next]_vars => PutInv'
<1> SUFFICES ASSUME TypeInv, DataInv, LockInv, Storing, Marked, PutInv, [Next]_vars PROVE PutInv'
  OBVIOUS
<1>1. CASE UNCHANGED vars
  BY <1>1 DEF vars, PutInv, StageInv, Putting, Whole, Supported, Sane
<1>2. ASSUME NEW t \in Threads, Step(t) PROVE PutInv'
  <2>1. Frame(t) /\ Kind(t)
    BY <1>2, StepCases
  <2>2. Supported' = Supported
    BY <2>1 DEF Frame, Supported
  <2>3. \A u \in Threads : th'[u].pc # "idle" => th'[u].req.modes \subseteq Supported
    BY <2>1, ModesKept DEF Frame, PutInv
  <2>4. \A u \in Threads : th'[u].op = "put" => /\ th'[u].pc = "body" => th'[u].view = Nothing
                                                /\ th'[u].pc = "enter" => th'[u].idx = 1
    BY <2>1, ModesKept DEF Frame, PutInv
  <2>5. StageInv'
    BY <1>2, <2>1, StageStep
  <2> QED BY <2>2, <2>3, <2>4, <2>5 DEF PutInv
<1> QED BY <1>1, <1>2 DEF Next

-----------------------------------------------------------------------------
(* The steps of the abstract store *)

LEMMA VisibleIs ==
  /\ (\A t \in Threads : ~Putting(t)) => Visible = db
  /\ (\E t \in Threads : Putting(t)) => Visible = before
BY DEF Visible, Putting, Whole

LEMMA VisibleWillBe ==
  /\ (\A t \in Threads : ~(Putting(t)')) => Visible' = db'
  /\ (\E t \in Threads : Putting(t)') => Visible' = before'
BY DEF Visible, Putting, Whole

LEMMA StoreInit == Init => Abstract!Init
<1> SUFFICES ASSUME Init PROVE Abstract!Init
  OBVIOUS
<1>1. \A t \in Threads : ~Putting(t)
  BY DEF Init, Idle, Putting
<1>2. Visible = conf.initial /\ conf \in Setups
  BY <1>1, VisibleIs DEF Init
<1> QED BY <1>2 DEF Abstract!Init

LEMMA StoreErases ==
  ASSUME NEW K \in SUBSET Keys, Visible' = [k \in Keys |-> IF k \in K THEN Absent ELSE Visible[k]]
  PROVE  Abstract!Next
<1>1. Abstract!EraseAll(K)
  BY DEF Abstract!EraseAll
<1> QED BY <1>1 DEF Abstract!Next

LEMMA StorePuts ==
  ASSUME NEW b, b \in Atomic \cup UNION {{Single(r, n) : n \in DOMAIN r.keys} : r \in Sound \ Atomic},
         Visible' = Abstract!Stages(b, Visible)[Len(b.keys)]
  PROVE  Abstract!Next
BY DEF Abstract!Next, Abstract!PutAll

\* The only pair of a batch of one.
LEMMA SingleStages ==
  ASSUME NEW r, NEW n, r.keys[n] \in Keys, r.vals[n] \in Vals, NEW s \in Databases
  PROVE  Abstract!Stages(Single(r, n), s)[Len(Single(r, n).keys)] = Abstract!Put(r, s, n)
<1>1. PICK b : b = Single(r, n)
  OBVIOUS
<1>2. /\ Len(b.keys) = 1 /\ b.keys[1] = r.keys[n] /\ b.vals[1] = r.vals[n] /\ b.mode = r.mode
  BY <1>1 DEF Single
<1>3. /\ Abstract!Stages(b, s)[0] = s
      /\ \A m \in 1 .. Len(b.keys) : Abstract!Stages(b, s)[m] = Abstract!Put(b, Abstract!Stages(b, s)[m - 1], m)
  <2>1. Len(b.keys) \in Nat /\ \A m \in 1 .. Len(b.keys) : b.keys[m] \in Keys /\ b.vals[m] \in Vals
    BY <1>2
  <2> QED BY <2>1, AbstractStages
<1>4. Abstract!Stages(b, s)[1] = Abstract!Put(b, s, 1)
  <2>1. Abstract!Stages(b, s)[1] = Abstract!Put(b, Abstract!Stages(b, s)[1 - 1], 1)
    BY <1>2, <1>3
  <2>2. 1 - 1 = 0
    OBVIOUS
  <2> QED BY <1>3, <2>1, <2>2
<1>5. Abstract!Put(b, s, 1) = Abstract!Put(r, s, n)
  BY <1>2 DEF Abstract!Put
<1> QED BY <1>1, <1>2, <1>4, <1>5

\* What is written by a thread that is not in the middle of a put.
LEMMA WritesSeen ==
  ASSUME TypeInv, DataInv, PutInv, Marked, NEW t \in Threads, ~Putting(t), Frame(t), Kind(t),
         Visible = db, Visible' = db'
  PROVE  db' = db \/ Abstract!Next
<1>1. PICK r : r = th[t].req
  OBVIOUS
<1>2. CASE WritesAll(t) /\ th[t].op = "put"
  <2>1. th[t].pc = "body" /\ AtOnce /\ Sane(t) /\ db' = Batch(db, r) /\ conf.backend \in {"leveldb", "rocksdb", "lmdb"}
    BY <1>1, <1>2 DEF WritesAll, Goes, Write
  <2>2. Request(r) /\ r.op = "put" /\ Marks(r)
    BY <1>1, <1>2, <2>1, PutFacts
  <2>3. r.modes \subseteq {"inclusive", "consume"}
    BY <1>1, <2>1 DEF PutInv, Supported, leveldb_supportsMode
  <2>4. r.mode = "none"
    BY <2>2, <2>3 DEF Marks, WriteModes
  <2>5. r \in Atomic
    BY <1>1, <2>1, <2>2 DEF Marks, Atomic, Sound, Sane
  <2>6. db' = Abstract!Stages(r, db)[Len(r.keys)]
    BY <2>1, <2>2, <2>4, BatchStages DEF DataInv
  <2> QED BY <2>5, <2>6, StorePuts
<1>3. CASE WritesAll(t) /\ th[t].op = "erase"
  <2>1. PICK K : K = {k \in Keys : \E n \in DOMAIN r.keys : r.keys[n] = k}
    OBVIOUS
  <2>2. db' = [k \in Keys |-> IF k \in K THEN Absent ELSE db[k]]
    BY <1>1, <1>3, <2>1 DEF WritesAll, Write, Erased
  <2>3. K \in SUBSET Keys
    BY <2>1
  <2> QED BY <2>2, <2>3, StoreErases
<1>4. CASE WritesOne(t) /\ th[t].op = "put"
  <2>1. PICK n : n = th[t].idx
    OBVIOUS
  <2>2. th[t].pc = "body" /\ ~Whole(t) /\ ~AtOnce /\ More(t) /\ ~KeyRefused(t) /\ Sane(t)
    BY <1>4 DEF WritesOne, Goes, Putting
  <2>3. Request(r) /\ r.op = "put" /\ Marks(r) /\ Len(r.keys) \in Nat
        /\ \A m \in 1 .. Len(r.keys) : r.keys[m] \in Keys /\ r.vals[m] \in Vals
    BY <1>1, <1>4, <2>2, PutFacts
  <2>4. n \in 1 .. Len(r.keys) /\ db' = Abstract!Put(r, db, n)
    <3>1. db' = IF conf.backend \in {"tkrzw", "unqlite"} /\ Has(t, "append")
                  THEN Appended(db, Key(t), Value(t)) ELSE Stored(db, Key(t), Value(t))
      BY <1>4 DEF WritesOne, Write
    <3> QED BY <1>1, <1>4, <2>1, <2>2, <3>1, PutOne
  <2>5. r.keys \in Seq(Keys) /\ n \in DOMAIN r.keys
    BY <2>3, <2>4 DEF Request
  <2>6. r \in Sound \ Atomic
    <3>1. r.keys # << >>
      BY <2>4
    <3> QED BY <1>1, <2>2, <2>3, <3>1 DEF Marks, Atomic, Sound, Sane
  <2>7. Single(r, n) \in UNION {{Single(q, m) : m \in DOMAIN q.keys} : q \in Sound \ Atomic}
    BY <2>5, <2>6
  <2>8. db' = Abstract!Stages(Single(r, n), db)[Len(Single(r, n).keys)]
    BY <2>3, <2>4, SingleStages DEF DataInv
  <2> QED BY <2>7, <2>8, StorePuts
<1>5. CASE WritesOne(t) /\ th[t].op = "erase"
  <2>1. th[t].pc = "body" /\ More(t) /\ db' = [db EXCEPT ![Key(t)] = Absent]
    BY <1>5 DEF WritesOne, Goes, Write
  <2>2. db' = [k \in Keys |-> IF k \in {Key(t)} \cap Keys THEN Absent ELSE db[k]]
    BY <2>1 DEF DataInv, Databases
  <2> QED BY <2>2, StoreErases
<1>6. CASE GivesUp(t)
  <2>1. db' = db \/ db' = Empty
    BY <1>6 DEF GivesUp, data, Write
  <2>2. CASE db' = Empty
    <3>1. db' = [k \in Keys |-> IF k \in Keys THEN Absent ELSE db[k]]
      BY <2>2 DEF Empty
    <3> QED BY <3>1, StoreErases
  <2> QED BY <2>1, <2>2
<1>7. CASE ~(WritesAll(t) \/ WritesOne(t) \/ GivesUp(t))
  BY <1>7 DEF Kind, Receives, Refuses, Enters, EntersWriting, Looks, Visits, Resumes, Ends, Lists, Consumes, Skips,
     Unlocks, Checks, HandsOver, data
<1>8. WritesAll(t) \/ WritesOne(t) => th[t].op \in {"put", "erase"}
  BY DEF WritesAll, WritesOne
<1> QED BY <1>2, <1>3, <1>4, <1>5, <1>6, <1>7, <1>8

LEMMA StoreStep ==
  TypeInv /\ DataInv /\ LockInv /\ Storing /\ Marked /\ PutInv /\ [Next]_vars => [Abstract!Next]_Visible
<1> SUFFICES ASSUME TypeInv, DataInv, LockInv, Storing, Marked, PutInv, [Next]_vars, Visible' # Visible
             PROVE  Abstract!Next
  OBVIOUS
<1>1. CASE UNCHANGED vars
  BY <1>1 DEF vars, Visible
<1>2. ASSUME NEW t \in Threads, Step(t) PROVE Abstract!Next
  <2>1. Frame(t) /\ Kind(t)
    BY <1>2, StepCases
  <2>2. ASSUME NEW u \in Threads \ {t} PROVE ~Putting(u)
    <3>1. SUFFICES ASSUME Putting(u) PROVE FALSE
      OBVIOUS
    <3>2. before' = before /\ Putting(u)'
      BY <1>2, <2>1, <3>1, OthersWait
    <3> QED BY <3>1, <3>2, VisibleIs, VisibleWillBe
  <2>3. \A u \in Threads \ {t} : ~(Putting(u)')
    BY <2>1, <2>2 DEF Frame, Putting, Whole
  <2>4. CASE Putting(t)
    <3>1. before' = before /\ Visible = before
      BY <2>1, <2>4, PutStep, VisibleIs
    <3>2. ~(Putting(t)')
      BY <2>4, <3>1, VisibleWillBe
    <3>3. PutEnds(t)
      BY <2>1, <2>4, <3>2, PutStep DEF PutsOn, Putting, Whole, Same, Frame
    <3>4. Visible' = db'
      BY <2>3, <3>2, VisibleWillBe
    <3>5. PICK r : r = th[t].req
      OBVIOUS
    <3>6. /\ Sane(t) /\ th[t].idx <= Len(r.keys) + 1 /\ db = Abstract!Stages(r, before)[th[t].idx - 1]
          /\ th[t].pc = "body" /\ th[t].op = "put" /\ AtOnce
      BY <2>4, <3>5 DEF PutInv, StageInv, Putting, Whole, AtOnce
    <3>7. /\ Marks(r) /\ Len(r.keys) \in Nat /\ th[t].idx \in Nat \ {0}
          /\ \A m \in 1 .. Len(r.keys) : r.keys[m] \in Keys /\ r.vals[m] \in Vals
      BY <3>5, <3>6, PutFacts DEF TypeInv
    <3>8. r \in Atomic
      BY <3>5, <3>6, <3>7 DEF Marks, Atomic, Sound, Sane
    <3>9. CASE ~More(t)
      <4>1. th[t].idx - 1 = Len(r.keys)
        BY <3>5, <3>6, <3>7, <3>9 DEF More
      <4>2. Visible' = Abstract!Stages(r, Visible)[Len(r.keys)]
        BY <3>1, <3>3, <3>4, <3>6, <4>1 DEF PutEnds
      <4> QED BY <3>8, <4>2, StorePuts
    <3>10. CASE Len(r.keys) = 1 /\ More(t)
      <4>1. th[t].idx - 1 = 0
        BY <3>5, <3>7, <3>10 DEF More
      <4>2. Abstract!Stages(r, before)[0] = before
        BY <3>7, AbstractStages DEF DataInv
      <4>3. Visible' = Visible
        BY <3>1, <3>3, <3>4, <3>6, <4>1, <4>2 DEF PutEnds
      <4> QED BY <4>3
    <3> QED BY <3>3, <3>5, <3>9, <3>10 DEF PutEnds
  <2>5. CASE ~Putting(t)
    <3>1. Visible = db
      BY <2>2, <2>5, VisibleIs
    <3>2. ~(Putting(t)')
      <4>1. SUFFICES ASSUME Putting(t)' PROVE FALSE
        OBVIOUS
      <4>2. EntersWriting(t)
        BY <2>1, <2>5, <4>1, EntersPut DEF Putting
      <4>3. before' = db
        BY <4>2 DEF EntersWriting
      <4> QED BY <3>1, <4>1, <4>3, VisibleWillBe
    <3>3. Visible' = db'
      BY <2>3, <3>2, VisibleWillBe
    <3> QED BY <2>1, <2>5, <3>1, <3>3, WritesSeen
  <2> QED BY <2>4, <2>5
<1> QED BY <1>1, <1>2 DEF Next

LEMMA HypothesesKept ==
  TypeInv /\ Storing /\ Marked /\ [Next]_vars => Storing' /\ Marked'
<1> SUFFICES ASSUME TypeInv, Storing, Marked, [Next]_vars PROVE Storing' /\ Marked'
  OBVIOUS
<1>1. conf' = conf
  BY ConfKept
<1>2. Storing'
  BY <1>1 DEF Storing, Locked, OneStream
<1>3. AtOnce' = AtOnce
  BY <1>1 DEF AtOnce
<1>4. Marked'
  BY <1>1, <1>3 DEF Marked, Marks
<1> QED BY <1>2, <1>4

\* Seen from outside, a put that is a batch, a transaction or a write section
\* happens at once, the others pair by pair, every key is judged by the mode of
\* the put as it is when its turn comes, and keys are removed as asked for: the
\* backends over embedded databases implement the abstract store, for any
\* threads, keys, values and requests, where gdbm and unqlite have the lock or
\* one stream.
THEOREM ImplementsKVStoreHolds == Spec /\ Storing /\ Marked => ImplementsKVStore
<1>1. Init => TypeInv /\ DataInv /\ LockInv /\ PutInv /\ Abstract!Init
  BY TypeInit, DataInit, LockInit0, PutInit, StoreInit
<1>2. ImplementsKVStore <=> Abstract!Init /\ [][Abstract!Next]_Visible
  BY DEF ImplementsKVStore, Abstract!Spec
<1> QED BY <1>1, <1>2, StoreStep, PutNext, HypothesesKept, TypeNext, DataNext, LockNext, PTL DEF Spec
=============================================================================
