------------------------------- MODULE Provider -------------------------------
(***************************************************************************)
(* Providers of one or more processes: registration, requests, migration   *)
(* of a provider's database to another provider through REMI, destruction. *)
(* Requests run next to a migration and next to each other; a migration is *)
(* a sequence of calls any of which may fail.                              *)
(*                                                                         *)
(* What a database does under its lock is one step here (MapDatabase and   *)
(* Backends have the detail): an operation waits while a migration handle  *)
(* exists and is refused once the handle was given up without cancel().    *)
(* REMI is external: it runs the target's two callbacks around the copy of *)
(* the files and removes the files of the source after a success.          *)
(***************************************************************************)
EXTENDS Integers

CONSTANTS
    Providers,
    Databases,      \* the objects that may be created
    Null,
    Setups,         \* requests, migrations, destructions, what may fail
    MaxRequests,    \* of a setup
    MaxMigrations   \* of a setup

ASSUME SetupsAssumption ==
    /\ Null \notin Databases
    /\ \A c \in Setups :
         /\ Null \notin DOMAIN c.migrations
         /\ \A m \in DOMAIN c.migrations :
              c.migrations[m].from \in Providers /\ c.migrations[m].to \in Providers
         /\ \A r \in DOMAIN c.requests : c.requests[r].to \in Providers

VARIABLES
    conf,       \* the setup
    prov,       \* the providers: pointer to the database, registered RPCs
    dbs,        \* the database objects
    req,        \* the handlers of the requests
    mig,        \* the calls of yk_provider_migrate_database
    acked,      \* keys whose put returned success
    closed      \* keys in databases that were closed with their provider

vars == <<conf, prov, dbs, req, mig, acked, closed>>

Requests == DOMAIN conf.requests
Migrations == DOMAIN conf.migrations

MayFail(what) == what \in conf.faults

NoProvider == [at |-> "none", db |-> Null, rpcs |-> {}, class |-> FALSE]
NoDatabase == [at |-> "none", lock |-> Null, migrated |-> FALSE, keys |-> {}]

\* RPCs of the provider: two that stand for the others, and the one that a
\* migration asks for the REMI provider.
RPCs == {"put", "list_keyvals_direct", "get_remi_provider_id"}

Init ==
    /\ conf \in Setups
    /\ prov = [p \in Providers |-> NoProvider]
    /\ dbs = [d \in Databases |-> NoDatabase]
    /\ req = [r \in Requests |-> [pc |-> "start", db |-> Null, ret |-> "none",
                                  stale |-> FALSE]]
    /\ mig = [m \in Migrations |-> [pc |-> "start", db |-> Null, ret |-> "none"]]
    /\ acked = {}
    /\ closed = {}

NewDatabase(d) == dbs[d].at = "none" /\ \A e \in Databases :
                     dbs[e].at = "none" => e >= d

-----------------------------------------------------------------------------
\* yk_provider_register.

\* open_database_from_config: a configuration without a database is fine.
open_database_from_config(p) ==
    \/ /\ p \notin conf.withDatabase
       /\ prov' = [prov EXCEPT ![p] = [@ EXCEPT !.at = "registered", !.rpcs = RPCs,
                                                !.class = p \in conf.remi]]
       /\ UNCHANGED dbs
    \/ \E d \in Databases :
         /\ p \in conf.withDatabase
         /\ NewDatabase(d)
         /\ dbs' = [dbs EXCEPT ![d].at = "open"]
         /\ prov' = [prov EXCEPT ![p] = [@ EXCEPT !.at = "registered", !.db = d,
                                           !.rpcs = RPCs, !.class = p \in conf.remi]]

\* The configuration is checked, the migration class is registered with REMI,
\* then the cache and the database are opened and the RPCs registered.  On an
\* error the provider is deleted; the migration class is left as it is.
yk_provider_register(p) ==
    /\ prov[p].at = "none"
    /\ \/ open_database_from_config(p)
       \/ /\ MayFail("register")
          /\ prov' = [prov EXCEPT ![p].at = "deleted", ![p].class = p \in conf.remi]
          /\ UNCHANGED dbs
    /\ UNCHANGED <<conf, req, mig, acked, closed>>

AllRegistered == \A p \in Providers : prov[p].at # "none"

-----------------------------------------------------------------------------
\* A handler.

To(r) == conf.requests[r].to
Early(r) == conf.requests[r].when = "before"

\* A request that is sent before, or after, its provider is destroyed.
MayArrive(r) == IF Early(r) THEN AllRegistered ELSE prov[To(r)].at = "deleted"

\* The handler takes the pointer to the database from its provider.  A
\* request for an RPC that is not registered is refused by margo; one that
\* is registered for a provider that was deleted runs on freed memory.
TakeDatabase(r) ==
    /\ req[r].pc = "start"
    /\ MayArrive(r)
    /\ LET to == prov[To(r)]
       IN  req' = [req EXCEPT ![r] =
             IF conf.requests[r].rpc \notin to.rpcs
             THEN [@ EXCEPT !.pc = "done", !.ret = "NoSuchRPC"]
             ELSE IF to.at = "deleted"
             THEN [@ EXCEPT !.pc = "done", !.ret = "any", !.stale = TRUE]
             ELSE IF to.db = Null
             THEN [@ EXCEPT !.pc = "done", !.ret = "InvalidDatabase"]
             ELSE [@ EXCEPT !.pc = "holds", !.db = to.db]]
    /\ UNCHANGED <<conf, prov, dbs, mig, acked, closed>>

\* Later (data may be transferred in between) the database is called.  It
\* may have been deleted meanwhile: then anything can be the answer.
CallDatabase(r) ==
    /\ req[r].pc = "holds"
    /\ LET d == dbs[req[r].db]
           key == conf.requests[r].key
       IN  \/ /\ d.at = "deleted"
              /\ req' = [req EXCEPT ![r].pc = "done", ![r].ret = "any",
                                    ![r].stale = TRUE]
              /\ UNCHANGED <<dbs, acked>>
           \/ /\ d.at = "open" /\ d.lock = Null /\ d.migrated
              /\ req' = [req EXCEPT ![r].pc = "done", ![r].ret = "Migrated"]
              /\ UNCHANGED <<dbs, acked>>
           \/ /\ d.at = "open" /\ d.lock = Null /\ ~d.migrated
              /\ req' = [req EXCEPT ![r].pc = "done", ![r].ret = "OK"]
              /\ IF conf.requests[r].rpc = "put"
                 THEN /\ dbs' = [dbs EXCEPT ![req[r].db].keys = @ \cup {key}]
                      /\ acked' = acked \cup {key}
                 ELSE UNCHANGED <<dbs, acked>>
    /\ UNCHANGED <<conf, prov, mig, closed>>

-----------------------------------------------------------------------------
\* yk_provider_migrate_database.

From(m) == conf.migrations[m].from
Target(m) == conf.migrations[m].to

Go(m, pc) == mig' = [mig EXCEPT ![m].pc = pc]
Returns(m, ret) == mig' = [mig EXCEPT ![m].pc = "done", ![m].ret = ret]

CheckDatabase(m) ==
    /\ mig[m].pc = "start" /\ AllRegistered
    /\ IF prov[From(m)].at = "deleted" \/ prov[From(m)].db = Null
       THEN Returns(m, "InvalidDatabase")
       ELSE mig' = [mig EXCEPT ![m].pc = "ask", ![m].db = prov[From(m)].db]
    /\ UNCHANGED <<conf, prov, dbs, req, acked, closed>>

\* The target is looked up and asked for its REMI provider.  A finalized target
\* still has the RPC registered: its handler runs on freed memory, and may say
\* anything.
Asked(m) == "get_remi_provider_id" \in prov[Target(m)].rpcs
Freed(m) == prov[Target(m)].at = "deleted"

get_remi_provider_id_from_remote(m) ==
    /\ mig[m].pc = "ask"
    /\ \/ Asked(m) /\ (prov[Target(m)].class \/ Freed(m)) /\ Go(m, "freeze")
       \/ Asked(m) /\ (~prov[Target(m)].class \/ Freed(m)) /\ Returns(m, "Unsupported")
       \/ (~Asked(m) \/ Freed(m) \/ MayFail("ask")) /\ Returns(m, "FromMercury")
    /\ UNCHANGED <<conf, prov, dbs, req, acked, closed>>

\* A handle of REMI is created, then startMigration: the lock of the database
\* is taken (or waited for) and held as long as the migration handle exists.
\* Mutant: the lock is not kept.
Freeze_no_lock(m) ==
    /\ mig[m].pc = "freeze"
    /\ dbs[mig[m].db].lock = Null
    /\ Go(m, "fileset")
    /\ UNCHANGED <<conf, prov, dbs, req, acked, closed>>
Freeze(m) ==
    /\ mig[m].pc = "freeze"
    /\ LET d == dbs[mig[m].db]
       IN  \/ /\ d.lock = Null /\ ~d.migrated
              /\ dbs' = [dbs EXCEPT ![mig[m].db].lock = m]
              /\ Go(m, "fileset")
           \/ d.lock = Null /\ d.migrated /\ Returns(m, "Migrated") /\ UNCHANGED dbs
           \/ MayFail("handle") /\ Returns(m, "FromRemi") /\ UNCHANGED dbs
    /\ UNCHANGED <<conf, prov, req, acked, closed>>

\* The destructor of the migration handle: unless the handle was cancelled the
\* database has migrated and what it holds is erased; the lock is released.
Drop(m, cancelled) ==
    LET d == dbs[mig[m].db]
    IN  dbs' = [dbs EXCEPT ![mig[m].db] =
                  [d EXCEPT !.lock = Null, !.migrated = ~cancelled,
                            !.keys = IF cancelled THEN d.keys ELSE {}]]

\* The fileset is filled.  An error here returns without cancel().
FillFileset(m) ==
    /\ mig[m].pc = "fileset"
    /\ \/ Go(m, "before") /\ UNCHANGED dbs
       \/ MayFail("fileset") /\ Returns(m, "FromRemi") /\ Drop(m, FALSE)
    /\ UNCHANGED <<conf, prov, req, acked, closed>>

\* remi_fileset_migrate did not succeed.
\* Mutants: the handle is never given up, or given up without cancel().
Cancel_keeps_lock(m) ==
    /\ Returns(m, "FromRemi")
    /\ UNCHANGED dbs
Cancel_forgotten(m) ==
    /\ Returns(m, "FromRemi")
    /\ Drop(m, FALSE)
Cancel(m) ==
    /\ Returns(m, "FromRemi")
    /\ Drop(m, TRUE)

\* The target accepts the files only if it has no database.
\* Mutant: it always does.
before_migration_cb_accepts(m) ==
    /\ mig[m].pc = "before"
    /\ prov[Target(m)].class
    /\ Go(m, "copy")
    /\ UNCHANGED <<conf, prov, dbs, req, acked, closed>>
before_migration_cb(m) ==
    /\ mig[m].pc = "before"
    /\ LET t == prov[Target(m)]
       IN  \/ t.class /\ t.db = Null /\ Go(m, "copy") /\ UNCHANGED dbs
           \/ (~t.class \/ t.db # Null \/ MayFail("before")) /\ Cancel(m)
    /\ UNCHANGED <<conf, prov, req, acked, closed>>

CopyFiles(m) ==
    /\ mig[m].pc = "copy"
    /\ \/ Go(m, "after") /\ UNCHANGED dbs
       \/ MayFail("copy") /\ Cancel(m)
    /\ UNCHANGED <<conf, prov, req, acked, closed>>

\* The target opens a database on the files and attaches it, without looking
\* whether one was attached since.
after_migration_cb(m) ==
    /\ mig[m].pc = "after"
    /\ \/ /\ prov[Target(m)].class
          /\ \E d \in Databases :
               /\ NewDatabase(d)
               /\ dbs' = [dbs EXCEPT ![d].at = "open", ![d].keys = dbs[mig[m].db].keys]
               /\ prov' = [prov EXCEPT ![Target(m)].db = d]
          /\ Go(m, "clear")
       \/ /\ ~prov[Target(m)].class \/ MayFail("after")
          /\ Cancel(m)
          /\ UNCHANGED prov
    /\ UNCHANGED <<conf, req, acked, closed>>

\* mh.reset(): the requests that waited find that the database has migrated.
Release(m) ==
    /\ mig[m].pc = "clear"
    /\ Drop(m, FALSE)
    /\ Go(m, "delete")
    /\ UNCHANGED <<conf, prov, req, acked, closed>>

\* destroy() and delete.  A handler may still hold the pointer.
DeleteSource(m) ==
    /\ mig[m].pc = "delete"
    /\ dbs' = [dbs EXCEPT ![prov[From(m)].db].at = "deleted"]
    /\ prov' = [prov EXCEPT ![From(m)].db = Null]
    /\ Returns(m, "OK")
    /\ UNCHANGED <<conf, req, acked, closed>>

-----------------------------------------------------------------------------
\* yk_provider_destroy, called when no request and no migration of the
\* provider is in progress: yk_finalize_provider deregisters the migration
\* class, deletes the database, deregisters RPCs and deletes the provider.

Deregistered == {"put"}

Quiet(p) ==
    /\ \A r \in Requests : To(r) = p /\ Early(r) => req[r].pc = "done"
    /\ \A m \in Migrations : p \in {From(m), Target(m)} => mig[m].pc \in {"start", "done"}

yk_finalize_provider(p) ==
    /\ p \in conf.destroys /\ AllRegistered
    /\ prov[p].at = "registered"
    /\ Quiet(p)
    /\ prov' = [prov EXCEPT ![p].at = "deleted", ![p].class = FALSE,
                            ![p].rpcs = @ \ Deregistered]
    /\ IF prov[p].db = Null THEN UNCHANGED <<dbs, closed>>
       ELSE /\ dbs' = [dbs EXCEPT ![prov[p].db].at = "deleted"]
            /\ closed' = closed \cup dbs[prov[p].db].keys
    /\ UNCHANGED <<conf, req, mig, acked>>

-----------------------------------------------------------------------------
MigrateStep(m) ==
    CheckDatabase(m) \/ get_remi_provider_id_from_remote(m) \/ Freeze(m)
    \/ FillFileset(m) \/ before_migration_cb(m) \/ CopyFiles(m)
    \/ after_migration_cb(m) \/ Release(m) \/ DeleteSource(m)

RequestStep(r) == TakeDatabase(r) \/ CallDatabase(r)

Next ==
    \/ \E p \in Providers : yk_provider_register(p) \/ yk_finalize_provider(p)
    \/ \E r \in Requests : RequestStep(r)
    \/ \E m \in Migrations : MigrateStep(m)

\* Providers get registered, threads run on.
Fairness ==
    /\ \A p \in Providers : WF_vars(yk_provider_register(p))
    /\ \A r \in 1 .. MaxRequests : WF_vars(r \in Requests /\ RequestStep(r))
    /\ \A m \in 1 .. MaxMigrations : WF_vars(m \in Migrations /\ MigrateStep(m))

Spec == Init /\ [][Next]_vars /\ Fairness

-----------------------------------------------------------------------------
\* Properties.

Attached == {prov[p].db : p \in {q \in Providers : prov[q].at = "registered"}} \ {Null}
Serves(d) == dbs[d].at = "open" /\ dbs[d].lock = Null /\ ~dbs[d].migrated

\* A write that was acknowledged (by a request that did not run on freed
\* memory) is in the database of a provider at any time of a migration,
\* whoever it has reached and whichever of its remote calls fails, or in one
\* that was closed with its provider.  It is not kept after an error of the
\* fileset, when the code erases the source (provider.cpp:616-663): the setups
\* with that error are not meant here.
AckedWritesKept ==
    ~MayFail("fileset") =>
        acked \subseteq closed \cup UNION {dbs[d].keys : d \in {e \in Attached :
                                                                  dbs[e].at = "open"}}

\* Who is told "Database has migrated" (include/yokan/common.h:53) is told so of a
\* database that another provider has taken over: the provider deletes it, or is
\* about to, and its migration returns success.
MigratedMeansMoved ==
    \A r \in Requests :
        req[r].ret = "Migrated" =>
            \E m \in Migrations :
                mig[m].db = req[r].db /\ (mig[m].pc = "delete" \/ mig[m].ret = "OK")

\* Two databases never serve the same data: from the moment the target's copy
\* can be written to, the source's refuses (or has its requests wait), so
\* that no write goes to a copy that is about to be deleted.
NoSplitBrain ==
    \A d, e \in Attached :
        d # e /\ Serves(d) /\ Serves(e) => dbs[d].keys \cap dbs[e].keys = {}

\* A migration that returned success has left its provider without the
\* database, which is deleted; one that failed has given the database back:
\* its lock is free of this migration and it serves requests as before (but
\* for an error of the fileset, after which it has "migrated" to nowhere).
MigrationSettled ==
    \A m \in Migrations :
        mig[m].pc = "done" /\ mig[m].db # Null /\ ~MayFail("fileset") =>
            LET d == mig[m].db IN
              IF mig[m].ret = "OK" THEN dbs[d].at = "deleted" /\ d \notin Attached
              ELSE dbs[d].lock # m /\ (dbs[d].migrated =>
                     \E n \in Migrations \ {m} : mig[n].db = d
                        /\ (mig[n].pc = "delete" \/ mig[n].ret = "OK"))

\* Nobody runs on a provider or a database that was deleted.
NothingStale == \A r \in Requests : ~req[r].stale

RequestAnswered(r) == r \in {e \in Requests : Early(e)} => req[r].pc = "done"
MigrationOver(m) == m \in Migrations => mig[m].pc = "done"

\* Every request is answered and every migration returns: nobody is left
\* waiting for a lock that a migration took.
EverybodyAnswered ==
    /\ \A r \in 1 .. MaxRequests : <>RequestAnswered(r)
    /\ \A m \in 1 .. MaxMigrations : <>MigrationOver(m)
=============================================================================
