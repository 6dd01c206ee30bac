----------------------------- MODULE DocRequests -----------------------------
(***************************************************************************)
(* What the document backends have in common: threads that serve the coll* *)
(* and doc* functions of include/yokan/backend.hpp on one collection of a  *)
(* database, under the readers-writer lock of that database, and what the  *)
(* clients were told.  A backend is a module that extends this one and     *)
(* says which steps a thread takes for each function (DocMixin,            *)
(* ArrayDatabase, LogDatabase); a step is one call of the layer below.     *)
(*                                                                         *)
(* The database runs on one execution stream: threads change at the calls  *)
(* of the steps, and plain memory is never accessed by two of them at once.*)
(***************************************************************************)
EXTENDS Integers, RWLock, SequencesExt, FiniteSetsExt

CONSTANTS Threads,
          Setups      \* the backend, the requests that arrive, what goes wrong

VARIABLES
    conf,       \* the setup
    db,         \* the collection, as the backend keeps it
    target,     \* what the target of a migration recovered
    th,         \* the threads
    left,       \* requests that have not arrived
    acked,      \* the documents clients were told are stored
    given,      \* the ids docStore returned since the collection was created
    disturbed   \* the process was killed or a call of the layer below failed

vars == <<conf, db, target, th, left, acked, given, disturbed, lock>>
shared == <<conf, left, disturbed>>
ghosts == <<acked, given>>

None == [none |-> TRUE]
Hole == <<"erased">>      \* in the place of a document that was erased or skipped

Idle == [pc |-> "idle", op |-> None, meta |-> None, i |-> 0, got |-> <<>>, must |-> <<>>]

\* The documents of consecutive ids that start with from, and of a request.
From(from, docs) == [id \in from .. from + Len(docs) - 1 |-> docs[id - from + 1]]
Named(op) == [id \in ToSet(op.ids) |->
                op.docs[Max({n \in DOMAIN op.ids : op.ids[n] = id})]]

Over(f, g) == [id \in DOMAIN f \cup DOMAIN g |-> IF id \in DOMAIN f THEN f[id] ELSE g[id]]
Without(f, S) == Restrict(f, DOMAIN f \ S)

Reading == {"load", "fetch", "list", "iter"}

\* The ids that requests in progress may be changing.
Touches(op) == IF op.kind \in {"update", "erase"} THEN ToSet(op.ids)
               ELSE IF op.kind = "drop" THEN DOMAIN acked ELSE {}
Busy == UNION {Touches(th[t].op) : t \in {u \in Threads : th[u].pc # "idle"}}

\* The documents a reading request is bound to return.
Asked(op) == IF op.kind \in {"load", "fetch"} THEN ToSet(op.ids)
             ELSE {id \in DOMAIN acked : id >= op.from}
Due(op) == Restrict(acked, (Asked(op) \cap DOMAIN acked) \ Busy)

\* What clients do.  Orderly ones name ids they were given, and still hold,
\* create, drop or move a collection when nothing else happens to it, and ask
\* for what needs a document when there was one.  The provider forgets the
\* database when its migration has ended.
Exclusive(op) == op.kind \in conf.exclusive

Orderly(op) ==
    /\ target = None \/ op.kind = "migrate"
    /\ \A u \in Threads : th[u].pc # "idle" => ~Exclusive(op) /\ ~Exclusive(th[u].op)
    /\ op.kind \in conf.nonempty => given # <<>>
    /\ op.kind \in {"update", "erase", "load", "fetch"} =>
         \A id \in ToSet(op.ids) : id \in DOMAIN acked \/ id \in op.fresh

Begin(t) ==
    /\ th[t].pc = "idle"
    /\ \E op \in left :
         /\ conf.orderly => Orderly(op)
         /\ left' = left \ {op}
         /\ th' = [u \in Threads |->
                     IF u # t THEN [th[u] EXCEPT !.must = Without(@, Touches(op))]
                     ELSE [Idle EXCEPT !.pc = "start", !.op = op,
                             !.must = IF op.kind \in Reading THEN Due(op) ELSE <<>>]]
    /\ UNCHANGED <<conf, db, target, ghosts, disturbed, lock>>

At(t, kind, pc) == th[t].op # None /\ th[t].op.kind = kind /\ th[t].pc = pc

Goto(t, pc) == th' = [th EXCEPT ![t].pc = pc]

\* The end of a request: the answer, and what the client makes of it.
Return(t, status, got) ==
    th' = [th EXCEPT ![t].pc = "idle", ![t].got = got,
                     ![t].must = IF status = "OK" THEN @ ELSE <<>>]

Answer(t, status) == Return(t, status, <<>>) /\ UNCHANGED ghosts

AnswerWith(t, got) == Return(t, "OK", got) /\ UNCHANGED ghosts

Stored(t, ids, docs) ==
    /\ acked' = Over(From(ids, docs), acked)
    /\ given' = given \o [n \in 1 .. Len(docs) |-> ids + n - 1]
    /\ Return(t, "OK", <<>>)

Updated(t) ==
    acked' = Over(Named(th[t].op), acked) /\ UNCHANGED given /\ Return(t, "OK", <<>>)

Erased(t) ==
    /\ acked' = Without(acked, ToSet(th[t].op.ids)) /\ UNCHANGED given
    /\ Return(t, "OK", <<>>)

Dropped(t) == acked' = <<>> /\ given' = <<>> /\ Return(t, "OK", <<>>)

\* A request that failed half way: the documents may have changed or not.
Uncertain(t) ==
    /\ acked' = Without(acked, Touches(th[t].op)) /\ UNCHANGED given
    /\ Return(t, "Error", <<>>)

\* The process dies and is started again: clients do not know what became of
\* the documents they were changing.
Died ==
    /\ conf.kills /\ ~disturbed
    /\ disturbed' = TRUE
    /\ th' = [t \in Threads |-> Idle]
    /\ acked' = Without(acked, Busy)
    /\ readers' = 0 /\ writing' = FALSE
    /\ UNCHANGED <<conf, target, left, given>>
=============================================================================
