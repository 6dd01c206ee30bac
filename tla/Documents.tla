------------------------------ MODULE Documents ------------------------------
(***************************************************************************)
(* The backends that keep documents, one at a time: those that do it on    *)
(* top of their key/value pairs, sorted or not (DocMixin), array           *)
(* (ArrayDatabase) and log (LogDatabase).                                  *)
(***************************************************************************)
EXTENDS DocMixin, ArrayDatabase, LogDatabase

Fresh == CASE conf.backend = "mixin" -> mixin_Fresh
           [] conf.backend = "array" -> array_Fresh
           [] conf.backend = "log" -> log_Fresh

Docs(d) == CASE conf.backend = "mixin" -> mixin_Docs(d)
             [] conf.backend = "array" -> array_Docs(d)
             [] conf.backend = "log" -> log_Docs(d)

There(d) == CASE conf.backend = "mixin" -> mixin_There(d)
              [] conf.backend = "array" -> array_There(d)
              [] conf.backend = "log" -> log_There(d)

Size(d) == CASE conf.backend = "mixin" -> mixin_Size(d)
             [] conf.backend = "array" -> array_Size(d)
             [] conf.backend = "log" -> log_Size(d)

Init ==
    /\ conf \in Setups
    /\ db = Fresh /\ target = None
    /\ th = [t \in Threads |-> Idle]
    /\ left = conf.requests
    /\ acked = <<>> /\ given = <<>> /\ disturbed = FALSE
    /\ LockInit

Run(t) ==
    \/ conf.backend = "mixin" /\ mixin_Run(t)
    \/ conf.backend = "array" /\ array_Run(t)
    \/ conf.backend = "log" /\ log_Run(t)

Restart ==
    \/ conf.backend = "mixin" /\ mixin_Restart
    \/ conf.backend = "log" /\ log_Restart

Next == (\E t \in Threads : Begin(t) \/ Run(t)) \/ Restart

\* Argobots runs every thread that can run.
Spec == Init /\ [][Next]_vars /\ \A t \in Threads : WF_vars(Run(t))

-----------------------------------------------------------------------------
\* A document that docStore or docUpdate acknowledged is there, unchanged,
\* until a client erases, updates or drops it: other stores that run at the
\* same time, a migration, the death of the process between the steps of a
\* request or the failure of one leave it alone.  No id is returned twice.
AckedDocsKept ==
    LET held == IF target = None THEN Docs(db) ELSE Docs(target.coll) IN
    /\ \A id \in DOMAIN acked :
         id \in Busy \/ (id \in DOMAIN held /\ held[id] = acked[id])
    /\ IsInjective(given)

\* When nothing is in progress, and nothing failed before, the size of the
\* collection is the number of its documents, although it is maintained apart
\* from them.  (It is not after a migration of the array backend.)
SizeExact ==
    (\A t \in Threads : th[t].pc = "idle") /\ ~disturbed /\ There(db)
        => Size(db) = Cardinality(DOMAIN Docs(db))

\* A request that reads documents returns, among those it asks for, every one
\* that was there when it began and that nobody changed before it ended, even
\* if it goes through the collection without the lock or one id at a time.
ReadsComplete ==
    \A t \in Threads :
        th[t].pc = "idle" /\ th[t].op # None /\ th[t].op.kind \in Reading =>
            LET due == th[t].must
                all == DOMAIN th[t].got IN
            /\ \A id \in DOMAIN due \cap all : th[t].got[id] = due[id]
            /\ th[t].op.kind \in {"load", "fetch"} => DOMAIN due \subseteq all
            /\ th[t].op.kind \in {"list", "iter"} /\ Cardinality(all) < th[t].op.max
                 => DOMAIN due \subseteq all

\* Every request is answered unless the process dies.
OperationsReturn ==
    \A t \in Threads : th[t].pc = "start" ~> th[t].pc = "idle"
=============================================================================
