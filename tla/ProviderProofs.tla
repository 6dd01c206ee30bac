--------------------------- MODULE ProviderProofs ---------------------------
(***************************************************************************)
(* Proofs about Provider, for any number of providers, requests, databases  *)
(* and migrations that run next to each other, and whatever call fails.     *)
(***************************************************************************)
EXTENDS Provider, TLAPS

\* What the migrations of a process must not do, because the code does not
\* protect itself against it (README): two of them move the database of one
\* provider, or two of them move a database to one provider.  Migrations to a
\* provider without REMI are refused, so they are free, unless the provider is
\* finalized, when freed memory answers for it.
MigrationsApart(c) ==
    \A m, n \in DOMAIN c.migrations :
        m # n /\ {c.migrations[m].to, c.migrations[n].to} \subseteq c.remi \cup c.destroys
        => /\ c.migrations[m].from # c.migrations[n].from
           /\ c.migrations[m].to # c.migrations[n].to

\* A key stands for one write.
WritesApart(c) ==
    \A r, s \in DOMAIN c.requests :
        r # s /\ c.requests[r].rpc = "put" /\ c.requests[s].rpc = "put"
        => c.requests[r].key # c.requests[s].key

-----------------------------------------------------------------------------
(* The invariant *)

Keys == {conf.requests[r].key : r \in Requests}

ProviderRec == [at : {"none", "registered", "deleted"}, db : Databases \cup {Null},
                rpcs : SUBSET RPCs, class : BOOLEAN]
DatabaseRec == [at : {"none", "open", "deleted"}, lock : Migrations \cup {Null},
                migrated : BOOLEAN, keys : SUBSET Keys]
Locking == {"fileset", "before", "copy", "after", "clear"}
Active  == {"freeze", "delete"} \cup Locking
MigrationRets == {"none", "InvalidDatabase", "Unsupported", "FromMercury", "Migrated",
                  "FromRemi", "OK"}
RequestRec == [pc : {"start", "holds", "done"}, db : Databases \cup {Null},
               ret : {"none", "NoSuchRPC", "any", "InvalidDatabase", "Migrated", "OK"},
               stale : BOOLEAN]
MigrationRec == [pc : {"start", "ask", "done"} \cup Active, db : Databases \cup {Null},
                 ret : MigrationRets]

TypeInv ==
    /\ conf \in Setups
    /\ prov \in [Providers -> ProviderRec]
    /\ dbs \in [Databases -> DatabaseRec]
    /\ req \in [Requests -> RequestRec]
    /\ mig \in [Migrations -> MigrationRec]
    /\ \A d \in Databases : dbs[d].at = "none" => dbs[d] = NoDatabase
    /\ \A r \in Requests : req[r].pc = "holds" => req[r].db # Null

\* A registered provider has a database of its own or none, and every open
\* database has its provider.
Placement ==
    /\ \A p \in Providers :
         /\ prov[p].db # Null => dbs[prov[p].db].at # "none"
         /\ prov[p].db # Null /\ prov[p].at = "registered" => dbs[prov[p].db].at = "open"
         /\ prov[p].at = "none" => prov[p].db = Null /\ prov[p].rpcs = {}
         /\ prov[p].class => p \in conf.remi
         /\ prov[p].at = "deleted" /\ prov[p].rpcs # {} =>
              ~prov[p].class /\ p \in conf.destroys
    /\ \A p, q \in Providers : prov[p].db # Null /\ prov[p].db = prov[q].db => p = q
    /\ \A d \in Databases : dbs[d].at = "open" =>
         \E p \in Providers : prov[p].at = "registered" /\ prov[p].db = d

Movable(m) == Target(m) \in conf.remi \cup conf.destroys

\* The target of a migration that goes on, when the providers are P: it has its
\* migration class, or has been finalized before it was asked.
Reached(P, m) ==
    \/ P[Target(m)].at = "registered" /\ P[Target(m)].class
    \/ P[Target(m)].at = "deleted" /\ ~P[Target(m)].class /\ Target(m) \in conf.destroys

\* Where each migration is, seen from its two providers and its database.
Migrating ==
    \A m \in Migrations :
        /\ mig[m].pc # "start" => AllRegistered
        /\ mig[m].pc = "start" => mig[m].db = Null
        /\ mig[m].pc # "done" => mig[m].ret = "none"
        /\ mig[m].db # Null => dbs[mig[m].db].at # "none"
        /\ mig[m].pc \in {"ask"} \cup Active =>
             /\ mig[m].db # Null /\ prov[From(m)].at = "registered"
             /\ Movable(m) => prov[From(m)].db = mig[m].db
        /\ mig[m].pc \in Active => Reached(prov, m)
        /\ mig[m].pc \in {"copy", "after", "clear", "delete"} => prov[Target(m)].class
        /\ mig[m].pc \in {"copy", "after"} => prov[Target(m)].db = Null
        /\ mig[m].pc = "delete" => dbs[mig[m].db].migrated
        /\ mig[m].ret = "OK" => mig[m].db # Null /\ dbs[mig[m].db].at = "deleted"

\* A lock belongs to the migration that took it, and a database refuses only
\* what has been moved.
Locks ==
    \A d \in Databases :
        /\ \A m \in Migrations : dbs[d].lock = m <=> mig[m].db = d /\ mig[m].pc \in Locking
        /\ dbs[d].migrated /\ ~MayFail("fileset") =>
             \E n \in Migrations : mig[n].db = d /\ (mig[n].pc = "delete" \/ mig[n].ret = "OK")

\* The database is a source whose copy serves already.
Moved(d) == \E m \in Migrations : mig[m].db = d /\ mig[m].pc \in {"clear", "delete"}

\* What is acknowledged or stored is never only in a source that waits to be
\* deleted.
Kept ==
    \A k : k \in acked \/ (\E d \in Databases : dbs[d].at = "open" /\ k \in dbs[d].keys)
           => k \in closed \/ \E e \in Databases : dbs[e].at = "open" /\ k \in dbs[e].keys
                                                    /\ ~Moved(e)

\* Data are in two databases only while one of them waits to be deleted.
Copies ==
    /\ \A r \in Requests : conf.requests[r].rpc = "put" /\ req[r].pc # "done" =>
         \A d \in Databases : conf.requests[r].key \notin dbs[d].keys
    /\ \A d, e \in Databases :
         d # e /\ dbs[d].at = "open" /\ dbs[e].at = "open"
         /\ (\E k : k \in dbs[d].keys /\ k \in dbs[e].keys) => Moved(d) \/ Moved(e)

PInv == TypeInv /\ Placement /\ Migrating /\ Locks


-----------------------------------------------------------------------------
(* What the steps do *)

\* What is known of the parameters of a setup.
LEMMA SetupTypes ==
    ASSUME TypeInv
    PROVE  /\ Null \notin Databases /\ Null \notin Migrations
           /\ \A m \in Migrations : From(m) \in Providers /\ Target(m) \in Providers
           /\ \A r \in Requests : To(r) \in Providers
BY SetupsAssumption DEF SetupsAssumption, TypeInv, Migrations, Requests, From, Target, To


\* Only provider p has changed; it points to d.
ProviderTo(p, d) ==
    /\ prov' \in [Providers -> ProviderRec]
    /\ prov'[p].db = d
    /\ \A q \in Providers : q # p => prov'[q] = prov[q]

\* Only database d has changed.
DatabaseTo(d, at, lock, migrated, keys) ==
    /\ dbs' \in [Databases -> DatabaseRec]
    /\ dbs'[d].at = at /\ dbs'[d].lock = lock /\ dbs'[d].keys = keys
    /\ dbs'[d].migrated <=> migrated
    /\ \A e \in Databases : e # d => dbs'[e] = dbs[e]

\* Only migration m has changed.
MigrationTo(m, pc, d) ==
    /\ mig' \in [Migrations -> MigrationRec]
    /\ mig'[m].pc = pc /\ mig'[m].db = d
    /\ \A n \in Migrations : n # m => mig'[n] = mig[n]

\* A new database for provider p, or for the target of a migration.
LEMMA OpenEffect ==
    ASSUME TypeInv, NEW d \in Databases, dbs[d].at = "none", NEW K \in SUBSET Keys,
           \/ dbs' = [dbs EXCEPT ![d].at = "open"] /\ K = {}
           \/ dbs' = [dbs EXCEPT ![d].at = "open", ![d].keys = K]
    PROVE  DatabaseTo(d, "open", Null, FALSE, K)
<1>1. dbs[d] \in DatabaseRec /\ DOMAIN dbs = Databases
  BY DEF TypeInv
<1>a. dbs[d].lock = Null /\ dbs[d].migrated = FALSE /\ dbs[d].keys = {}
  BY DEF TypeInv, NoDatabase
<1>2. dbs'[d] \in DatabaseRec /\ dbs'[d].at = "open" /\ dbs'[d].lock = Null
      /\ dbs'[d].migrated = FALSE /\ dbs'[d].keys = K
  <2>1. CASE dbs' = [dbs EXCEPT ![d].at = "open"] /\ K = {}
    <3>1. dbs'[d] = [dbs[d] EXCEPT !.at = "open"]
      BY <1>1, <2>1
    <3> QED BY <1>1, <1>a, <2>1, <3>1 DEF DatabaseRec
  <2>2. CASE dbs' = [dbs EXCEPT ![d].at = "open", ![d].keys = K]
    <3>1. dbs'[d] = [dbs[d] EXCEPT !.at = "open", !.keys = K]
      BY <1>1, <2>2
    <3> QED BY <1>1, <1>a, <3>1 DEF DatabaseRec
  <2> QED BY <2>1, <2>2
<1> QED BY <1>1, <1>2 DEF TypeInv, DatabaseTo

\* The migration class of a new provider is a Boolean.
LEMMA ClassOf ==
    ASSUME NEW p PROVE \E c \in BOOLEAN : c = (p \in conf.remi) /\ (c => p \in conf.remi)
<1>1. CASE p \in conf.remi
  <2>1. (p \in conf.remi) = TRUE
    BY <1>1
  <2> QED BY <1>1, <2>1
<1>2. CASE p \notin conf.remi
  <2>1. (p \in conf.remi) = FALSE
    BY <1>2
  <2> QED BY <1>2, <2>1
<1> QED BY <1>1, <1>2

\* yk_provider_register: an error, no database, or a new one.
LEMMA RegisterEffect ==
    ASSUME TypeInv, NEW p \in Providers, yk_provider_register(p)
    PROVE  /\ UNCHANGED <<conf, req, mig, acked, closed>>
           /\ prov[p].at = "none"
           /\ prov'[p].at \in {"registered", "deleted"}
           /\ prov'[p].class => p \in conf.remi
           /\ prov'[p].at = "deleted" => prov'[p].rpcs = prov[p].rpcs
           /\ \/ dbs' = dbs /\ ProviderTo(p, prov[p].db)
              \/ \E d \in Databases : /\ dbs[d].at = "none" /\ prov'[p].at = "registered"
                                      /\ DatabaseTo(d, "open", Null, FALSE, {})
                                      /\ ProviderTo(p, d)
<1>1. PICK c \in BOOLEAN : c = (p \in conf.remi) /\ (c => p \in conf.remi)
  BY ClassOf
<1>2. prov[p] \in ProviderRec /\ DOMAIN prov = Providers
  BY DEF TypeInv
<1>3. UNCHANGED <<conf, req, mig, acked, closed>> /\ prov[p].at = "none"
  BY DEF yk_provider_register
<1>4. CASE p \notin conf.withDatabase /\ open_database_from_config(p)
  <2>1. dbs' = dbs /\ prov' = [prov EXCEPT ![p] = [prov[p] EXCEPT !.at = "registered",
                                                     !.rpcs = RPCs, !.class = c]]
    BY <1>1, <1>4 DEF open_database_from_config
  <2>2. prov'[p] = [prov[p] EXCEPT !.at = "registered", !.rpcs = RPCs, !.class = c]
    BY <1>2, <2>1
  <2>3. prov'[p] \in ProviderRec /\ prov'[p].at = "registered" /\ prov'[p].class = c
        /\ prov'[p].db = prov[p].db
    BY <1>2, <2>2 DEF ProviderRec
  <2> QED BY <1>1, <1>2, <1>3, <2>1, <2>3 DEF TypeInv, ProviderTo
<1>5. CASE p \in conf.withDatabase /\ open_database_from_config(p)
  <2>1. PICK d \in Databases :
           /\ dbs[d].at = "none" /\ dbs' = [dbs EXCEPT ![d].at = "open"]
           /\ prov' = [prov EXCEPT ![p] = [prov[p] EXCEPT !.at = "registered", !.db = d,
                                             !.rpcs = RPCs, !.class = c]]
    BY <1>1, <1>5 DEF open_database_from_config, NewDatabase
  <2>2. prov'[p] = [prov[p] EXCEPT !.at = "registered", !.db = d, !.rpcs = RPCs, !.class = c]
    BY <1>2, <2>1
  <2>3. prov'[p] \in ProviderRec /\ prov'[p].at = "registered" /\ prov'[p].class = c
        /\ prov'[p].db = d
    BY <1>2, <2>2 DEF ProviderRec
  <2>4. DatabaseTo(d, "open", Null, FALSE, {})
    BY <2>1, OpenEffect
  <2>5. ProviderTo(p, d)
    BY <1>2, <2>1, <2>3 DEF TypeInv, ProviderTo
  <2> QED BY <1>1, <1>3, <2>1, <2>3, <2>4, <2>5
<1>6. CASE ~open_database_from_config(p)
  <2>1. dbs' = dbs /\ prov' = [prov EXCEPT ![p].at = "deleted", ![p].class = c]
    BY <1>1, <1>6 DEF yk_provider_register
  <2>2. prov'[p] = [prov[p] EXCEPT !.at = "deleted", !.class = c]
    BY <1>2, <2>1
  <2>3. prov'[p] \in ProviderRec /\ prov'[p].at = "deleted" /\ prov'[p].class = c
        /\ prov'[p].db = prov[p].db /\ prov'[p].rpcs = prov[p].rpcs
    BY <1>2, <2>2 DEF ProviderRec
  <2> QED BY <1>1, <1>2, <1>3, <2>1, <2>3 DEF TypeInv, ProviderTo
<1> QED BY <1>4, <1>5, <1>6 DEF open_database_from_config

\* yk_finalize_provider.
LEMMA FinalizeEffect ==
    ASSUME TypeInv, NEW p \in Providers, yk_finalize_provider(p)
    PROVE  /\ UNCHANGED <<conf, req, mig, acked>>
           /\ prov[p].at = "registered" /\ Quiet(p)
           /\ prov'[p].at = "deleted" /\ ~prov'[p].class /\ p \in conf.destroys
           /\ ProviderTo(p, prov[p].db)
           /\ \/ prov[p].db = Null /\ UNCHANGED <<dbs, closed>>
              \/ \E s \in Databases :
                   /\ prov[p].db = s /\ closed' = closed \cup dbs[s].keys
                   /\ DatabaseTo(s, "deleted", dbs[s].lock, dbs[s].migrated, dbs[s].keys)
<1>1. prov[p] \in ProviderRec /\ DOMAIN prov = Providers
  BY DEF TypeInv
<1>2. UNCHANGED <<conf, req, mig, acked>> /\ prov[p].at = "registered" /\ Quiet(p)
      /\ p \in conf.destroys
      /\ prov' = [prov EXCEPT ![p].at = "deleted", ![p].class = FALSE,
                              ![p].rpcs = @ \ Deregistered]
  BY DEF yk_finalize_provider
<1>3. prov'[p] = [prov[p] EXCEPT !.at = "deleted", !.class = FALSE,
                                 !.rpcs = prov[p].rpcs \ Deregistered]
  BY <1>1, <1>2 DEF ProviderRec
<1>4. prov'[p] \in ProviderRec /\ prov'[p].at = "deleted" /\ prov'[p].class = FALSE
      /\ prov'[p].db = prov[p].db
  BY <1>1, <1>3 DEF ProviderRec
<1>5. ProviderTo(p, prov[p].db)
  BY <1>1, <1>2, <1>4 DEF TypeInv, ProviderTo
<1>6. CASE prov[p].db = Null
  BY <1>2, <1>4, <1>5, <1>6 DEF yk_finalize_provider
<1>7. CASE prov[p].db # Null
  <2>1. PICK s \in Databases : prov[p].db = s
    BY <1>1, <1>7 DEF ProviderRec
  <2>2. dbs' = [dbs EXCEPT ![s].at = "deleted"] /\ closed' = closed \cup dbs[s].keys
    BY <1>7, <2>1 DEF yk_finalize_provider
  <2>3. dbs[s] \in DatabaseRec /\ DOMAIN dbs = Databases
    BY DEF TypeInv
  <2>4. dbs'[s] \in DatabaseRec /\ dbs'[s].at = "deleted" /\ dbs'[s].lock = dbs[s].lock
        /\ dbs'[s].migrated = dbs[s].migrated /\ dbs'[s].keys = dbs[s].keys
    BY <2>2, <2>3 DEF DatabaseRec
  <2>5. DatabaseTo(s, "deleted", dbs[s].lock, dbs[s].migrated, dbs[s].keys)
    BY <2>2, <2>3, <2>4 DEF TypeInv, DatabaseTo
  <2> QED BY <1>2, <1>4, <1>5, <2>1, <2>2, <2>5
<1> QED BY <1>6, <1>7


\* A handler takes the pointer, or has done so and calls the database.
LEMMA RequestEffect ==
    ASSUME TypeInv, NEW r \in Requests, RequestStep(r)
    PROVE  /\ UNCHANGED <<conf, prov, mig, closed>>
           /\ req[r].pc # "done"
           /\ req' \in [Requests -> RequestRec]
           /\ req'[r].pc = "holds" => req'[r].db # Null
           /\ \A s \in Requests : s # r => req'[s] = req[s]
           /\ \/ UNCHANGED <<dbs, acked>>
              \/ \E d \in Databases :
                   /\ conf.requests[r].rpc = "put" /\ req'[r].pc = "done"
                   /\ Serves(d)
                   /\ acked' = acked \cup {conf.requests[r].key}
                   /\ DatabaseTo(d, "open", dbs[d].lock, dbs[d].migrated,
                                 dbs[d].keys \cup {conf.requests[r].key})
<1>1. req[r] \in RequestRec /\ DOMAIN req = Requests
  BY DEF TypeInv
<1>2. CASE TakeDatabase(r)
  <2>1. UNCHANGED <<conf, prov, dbs, mig, acked, closed>> /\ req[r].pc # "done"
    BY <1>2 DEF TakeDatabase
  <2>2. prov[To(r)].db \in Databases \cup {Null}
    BY SetupTypes DEF TypeInv, ProviderRec
  <2>3. \/ req' = [req EXCEPT ![r] = [req[r] EXCEPT !.pc = "done", !.ret = "NoSuchRPC"]]
        \/ req' = [req EXCEPT ![r] = [req[r] EXCEPT !.pc = "done", !.ret = "any", !.stale = TRUE]]
        \/ req' = [req EXCEPT ![r] = [req[r] EXCEPT !.pc = "done", !.ret = "InvalidDatabase"]]
        \/ /\ prov[To(r)].db # Null
           /\ req' = [req EXCEPT ![r] = [req[r] EXCEPT !.pc = "holds", !.db = prov[To(r)].db]]
    BY <1>2, Zenon DEF TakeDatabase
  <2>4. PICK x \in RequestRec : req' = [req EXCEPT ![r] = x] /\ (x.pc = "holds" => x.db # Null)
    <3>1. CASE req' = [req EXCEPT ![r] = [req[r] EXCEPT !.pc = "done", !.ret = "NoSuchRPC"]]
      <4> DEFINE x == [req[r] EXCEPT !.pc = "done", !.ret = "NoSuchRPC"]
      <4>1. x \in RequestRec /\ x.pc = "done"
        BY <1>1 DEF RequestRec
      <4> QED BY <3>1, <4>1, Zenon
    <3>2. CASE req' = [req EXCEPT ![r] = [req[r] EXCEPT !.pc = "done", !.ret = "any", !.stale = TRUE]]
      <4> DEFINE x == [req[r] EXCEPT !.pc = "done", !.ret = "any", !.stale = TRUE]
      <4>1. x \in RequestRec /\ x.pc = "done"
        BY <1>1 DEF RequestRec
      <4> QED BY <3>2, <4>1, Zenon
    <3>3. CASE req' = [req EXCEPT ![r] = [req[r] EXCEPT !.pc = "done", !.ret = "InvalidDatabase"]]
      <4> DEFINE x == [req[r] EXCEPT !.pc = "done", !.ret = "InvalidDatabase"]
      <4>1. x \in RequestRec /\ x.pc = "done"
        BY <1>1 DEF RequestRec
      <4> QED BY <3>3, <4>1, Zenon
    <3>4. CASE /\ prov[To(r)].db # Null
               /\ req' = [req EXCEPT ![r] = [req[r] EXCEPT !.pc = "holds", !.db = prov[To(r)].db]]
      <4> DEFINE x == [req[r] EXCEPT !.pc = "holds", !.db = prov[To(r)].db]
      <4>1. x \in RequestRec /\ x.db # Null
        BY <1>1, <2>2, <3>4 DEF RequestRec
      <4> QED BY <3>4, <4>1, Zenon
    <3> QED BY <2>3, <3>1, <3>2, <3>3, <3>4
  <2> QED BY <2>1, <2>4 DEF TypeInv
<1>3. CASE CallDatabase(r)
  <2>1. UNCHANGED <<conf, prov, mig, closed>> /\ req[r].pc # "done"
    BY <1>3 DEF CallDatabase
  <2>2. \/ req' = [req EXCEPT ![r].pc = "done", ![r].ret = "any", ![r].stale = TRUE]
        \/ req' = [req EXCEPT ![r].pc = "done", ![r].ret = "Migrated"]
        \/ req' = [req EXCEPT ![r].pc = "done", ![r].ret = "OK"]
    BY <1>3 DEF CallDatabase
  <2>3. \/ req'[r] = [req[r] EXCEPT !.pc = "done", !.ret = "any", !.stale = TRUE]
        \/ req'[r] = [req[r] EXCEPT !.pc = "done", !.ret = "Migrated"]
        \/ req'[r] = [req[r] EXCEPT !.pc = "done", !.ret = "OK"]
    BY <1>1, <2>2
  <2>4. req'[r] \in RequestRec /\ req'[r].pc = "done"
    <3>1. CASE req'[r] = [req[r] EXCEPT !.pc = "done", !.ret = "any", !.stale = TRUE]
      BY <1>1, <3>1 DEF RequestRec
    <3>2. CASE req'[r] = [req[r] EXCEPT !.pc = "done", !.ret = "Migrated"]
      BY <1>1, <3>2 DEF RequestRec
    <3>3. CASE req'[r] = [req[r] EXCEPT !.pc = "done", !.ret = "OK"]
      BY <1>1, <3>3 DEF RequestRec
    <3> QED BY <2>3, <3>1, <3>2, <3>3
  <2>5. req' \in [Requests -> RequestRec] /\ \A s \in Requests : s # r => req'[s] = req[s]
    BY <2>2, <2>4 DEF TypeInv
  <2>6. CASE UNCHANGED <<dbs, acked>>
    BY <2>1, <2>4, <2>5, <2>6
  <2>7. CASE ~UNCHANGED <<dbs, acked>>
    <3> DEFINE d == req[r].db
               k == conf.requests[r].key
    <3>1. /\ dbs[d].at = "open" /\ dbs[d].lock = Null /\ ~dbs[d].migrated
          /\ conf.requests[r].rpc = "put"
          /\ dbs' = [dbs EXCEPT ![d].keys = @ \cup {k}] /\ acked' = acked \cup {k}
      BY <1>3, <2>7 DEF CallDatabase
    <3>2. d \in Databases
      BY <1>1, <1>3 DEF CallDatabase, TypeInv, RequestRec
    <3>3. dbs[d] \in DatabaseRec /\ DOMAIN dbs = Databases /\ k \in Keys
      BY <3>2 DEF TypeInv, Keys
    <3> HIDE DEF d, k
    <3>4. dbs'[d] = [dbs[d] EXCEPT !.keys = dbs[d].keys \cup {k}]
      BY <3>1, <3>2, <3>3 DEF DatabaseRec
    <3>5. dbs'[d] \in DatabaseRec /\ dbs'[d].at = "open" /\ dbs'[d].lock = dbs[d].lock
          /\ dbs'[d].migrated = dbs[d].migrated /\ dbs'[d].keys = dbs[d].keys \cup {k}
      BY <3>1, <3>3, <3>4 DEF DatabaseRec
    <3>6. DatabaseTo(d, "open", dbs[d].lock, dbs[d].migrated, dbs[d].keys \cup {k})
      BY <3>1, <3>3, <3>5 DEF TypeInv, DatabaseTo
    <3>7. Serves(d)
      BY <3>1 DEF Serves
    <3> QED BY <2>1, <2>4, <2>5, <3>1, <3>2, <3>6, <3>7 DEF k
  <2> QED BY <2>6, <2>7
<1> QED BY <1>2, <1>3 DEF RequestStep

\* A migration goes on.
LEMMA GoEffect ==
    ASSUME TypeInv, NEW m \in Migrations, NEW pc \in {"start", "ask", "done"} \cup Active,
           Go(m, pc)
    PROVE  MigrationTo(m, pc, mig[m].db) /\ mig'[m].ret = mig[m].ret
<1>1. mig[m] \in MigrationRec /\ DOMAIN mig = Migrations
  BY DEF TypeInv
<1>2. mig'[m] = [mig[m] EXCEPT !.pc = pc]
  BY <1>1 DEF Go
<1>3. mig'[m] \in MigrationRec /\ mig'[m].pc = pc /\ mig'[m].db = mig[m].db
      /\ mig'[m].ret = mig[m].ret
  BY <1>1, <1>2 DEF MigrationRec
<1> QED BY <1>1, <1>3 DEF TypeInv, Go, MigrationTo

\* A migration returns.
LEMMA ReturnsEffect ==
    ASSUME TypeInv, NEW m \in Migrations, NEW ret \in MigrationRets, Returns(m, ret)
    PROVE  MigrationTo(m, "done", mig[m].db) /\ mig'[m].ret = ret
<1>1. mig[m] \in MigrationRec /\ DOMAIN mig = Migrations
  BY DEF TypeInv
<1>2. mig'[m] = [mig[m] EXCEPT !.pc = "done", !.ret = ret]
  BY <1>1 DEF Returns
<1>3. mig'[m] \in MigrationRec /\ mig'[m].pc = "done" /\ mig'[m].db = mig[m].db
      /\ mig'[m].ret = ret
  BY <1>1, <1>2 DEF MigrationRec
<1> QED BY <1>1, <1>3 DEF TypeInv, Returns, MigrationTo

\* The migration handle goes, and with it what the database has.
LEMMA DropEffect ==
    ASSUME TypeInv, NEW m \in Migrations, NEW s \in Databases, mig[m].db = s,
           Drop(m, FALSE)
    PROVE  DatabaseTo(s, dbs[s].at, Null, TRUE, {})
<1>1. dbs[s] \in DatabaseRec /\ DOMAIN dbs = Databases
  BY DEF TypeInv
<1>2. dbs' = [dbs EXCEPT ![s] = [dbs[s] EXCEPT !.lock = Null, !.migrated = TRUE, !.keys = {}]]
  BY DEF Drop
<1>3. dbs'[s] = [dbs[s] EXCEPT !.lock = Null, !.migrated = TRUE, !.keys = {}]
  BY <1>1, <1>2
<1>4. dbs'[s] \in DatabaseRec /\ dbs'[s].at = dbs[s].at /\ dbs'[s].lock = Null
      /\ dbs'[s].migrated = TRUE /\ dbs'[s].keys = {}
  BY <1>1, <1>3 DEF DatabaseRec
<1> QED BY <1>1, <1>2, <1>4 DEF TypeInv, DatabaseTo

\* The migration handle goes once it was cancelled.
LEMMA CancelEffect ==
    ASSUME TypeInv, NEW m \in Migrations, NEW s \in Databases, mig[m].db = s,
           Drop(m, TRUE)
    PROVE  DatabaseTo(s, dbs[s].at, Null, FALSE, dbs[s].keys)
<1>1. dbs[s] \in DatabaseRec /\ DOMAIN dbs = Databases
  BY DEF TypeInv
<1>a. PICK g \in BOOLEAN : g = ~TRUE
  OBVIOUS
<1>b. g = FALSE
  BY <1>a
<1>c. dbs' = [dbs EXCEPT ![s] = [dbs[s] EXCEPT !.lock = Null, !.migrated = g,
                                                !.keys = dbs[s].keys]]
  BY <1>a DEF Drop
<1>2. dbs' = [dbs EXCEPT ![s] = [dbs[s] EXCEPT !.lock = Null, !.migrated = FALSE,
                                                !.keys = dbs[s].keys]]
  BY <1>b, <1>c
<1>3. dbs'[s] = [dbs[s] EXCEPT !.lock = Null, !.migrated = FALSE, !.keys = dbs[s].keys]
  BY <1>1, <1>2
<1>4. dbs'[s] \in DatabaseRec /\ dbs'[s].at = dbs[s].at /\ dbs'[s].lock = Null
      /\ dbs'[s].migrated = FALSE /\ dbs'[s].keys = dbs[s].keys
  BY <1>1, <1>3 DEF DatabaseRec
<1> QED BY <1>1, <1>2, <1>4 DEF TypeInv, DatabaseTo

\* The kinds of steps of a migration: it goes on without touching anything,
\* locks its database, gives up, attaches the copy, lets the requests that
\* wait see that the database has moved, deletes the source.
Walks(m) ==
    /\ UNCHANGED <<prov, dbs>>
    /\ \/ /\ mig[m].pc = "start" /\ AllRegistered
          /\ MigrationTo(m, "done", mig[m].db) /\ mig'[m].ret # "OK"
       \/ /\ mig[m].pc = "start" /\ AllRegistered
          /\ prov[From(m)].at = "registered" /\ prov[From(m)].db # Null
          /\ MigrationTo(m, "ask", prov[From(m)].db) /\ mig'[m].ret = mig[m].ret
       \/ /\ mig[m].pc = "ask"
          /\ prov[Target(m)].rpcs # {}
          /\ prov[Target(m)].class \/ prov[Target(m)].at = "deleted"
          /\ MigrationTo(m, "freeze", mig[m].db) /\ mig'[m].ret = mig[m].ret
       \/ /\ mig[m].pc \in {"ask", "freeze"}
          /\ MigrationTo(m, "done", mig[m].db) /\ mig'[m].ret # "OK"
       \/ /\ mig[m].pc = "fileset"
          /\ MigrationTo(m, "before", mig[m].db) /\ mig'[m].ret = mig[m].ret
       \/ /\ mig[m].pc = "before" /\ prov[Target(m)].class /\ prov[Target(m)].db = Null
          /\ MigrationTo(m, "copy", mig[m].db) /\ mig'[m].ret = mig[m].ret
       \/ /\ mig[m].pc = "copy"
          /\ MigrationTo(m, "after", mig[m].db) /\ mig'[m].ret = mig[m].ret

TakesLock(m, s) ==
    /\ UNCHANGED prov
    /\ mig[m].pc = "freeze" /\ dbs[s].lock = Null
    /\ DatabaseTo(s, dbs[s].at, m, dbs[s].migrated, dbs[s].keys)
    /\ MigrationTo(m, "fileset", s) /\ mig'[m].ret = mig[m].ret

GivesUp(m, s) ==
    /\ UNCHANGED prov
    /\ mig[m].pc \in {"fileset", "before", "copy", "after"}
    /\ MigrationTo(m, "done", s) /\ mig'[m].ret # "OK"
    /\ \/ DatabaseTo(s, dbs[s].at, Null, FALSE, dbs[s].keys)
       \/ MayFail("fileset") /\ DatabaseTo(s, dbs[s].at, Null, TRUE, {})

Attaches(m, s, d) ==
    /\ mig[m].pc = "after" /\ dbs[d].at = "none"
    /\ DatabaseTo(d, "open", Null, FALSE, dbs[s].keys)
    /\ ProviderTo(Target(m), d)
    /\ prov'[Target(m)].at = prov[Target(m)].at
    /\ prov'[Target(m)].class = prov[Target(m)].class
    /\ MigrationTo(m, "clear", s) /\ mig'[m].ret = mig[m].ret

Releases(m, s) ==
    /\ UNCHANGED prov
    /\ mig[m].pc = "clear"
    /\ DatabaseTo(s, dbs[s].at, Null, TRUE, {})
    /\ MigrationTo(m, "delete", s) /\ mig'[m].ret = mig[m].ret

Deletes(m, s) ==
    /\ mig[m].pc = "delete" /\ prov[From(m)].db = s
    /\ DatabaseTo(s, "deleted", dbs[s].lock, dbs[s].migrated, dbs[s].keys)
    /\ ProviderTo(From(m), Null)
    /\ prov'[From(m)].at = prov[From(m)].at
    /\ prov'[From(m)].class = prov[From(m)].class
    /\ MigrationTo(m, "done", s) /\ mig'[m].ret = "OK"

\* Where only the pointer to the database changes.
LEMMA PointTo ==
    ASSUME TypeInv, NEW p \in Providers, NEW d \in Databases \cup {Null},
           prov' = [prov EXCEPT ![p].db = d]
    PROVE  /\ ProviderTo(p, d)
           /\ prov'[p].at = prov[p].at /\ prov'[p].class = prov[p].class
<1>1. prov[p] \in ProviderRec /\ DOMAIN prov = Providers
  BY DEF TypeInv
<1>2. prov'[p] = [prov[p] EXCEPT !.db = d]
  BY <1>1
<1>3. prov'[p] \in ProviderRec /\ prov'[p].db = d /\ prov'[p].at = prov[p].at
      /\ prov'[p].class = prov[p].class
  BY <1>1, <1>2 DEF ProviderRec
<1> QED BY <1>1, <1>3 DEF TypeInv, ProviderTo

\* The first step of a migration.
LEMMA CheckKind ==
    ASSUME TypeInv, NEW m \in Migrations, CheckDatabase(m) PROVE Walks(m)
<1>4. From(m) \in Providers
  BY SetupTypes
<1>1. UNCHANGED <<prov, dbs>> /\ mig[m].pc = "start" /\ AllRegistered
  BY DEF CheckDatabase
<1>2. CASE Returns(m, "InvalidDatabase")
  BY <1>1, <1>2, ReturnsEffect DEF Walks, MigrationRets
<1>3. CASE ~Returns(m, "InvalidDatabase")
  <2>1. /\ prov[From(m)].at # "deleted" /\ prov[From(m)].db # Null
        /\ mig' = [mig EXCEPT ![m].pc = "ask", ![m].db = prov[From(m)].db]
    BY <1>3 DEF CheckDatabase
  <2>2. prov[From(m)] \in ProviderRec /\ mig[m] \in MigrationRec /\ DOMAIN mig = Migrations
    BY <1>4 DEF TypeInv
  <2>3. prov[From(m)].at = "registered" /\ prov[From(m)].db \in Databases
    BY <1>4, <1>1, <2>1, <2>2 DEF ProviderRec, AllRegistered
  <2>4. mig'[m] = [mig[m] EXCEPT !.pc = "ask", !.db = prov[From(m)].db]
    BY <2>1, <2>2
  <2>5. mig'[m] \in MigrationRec /\ mig'[m].pc = "ask" /\ mig'[m].db = prov[From(m)].db
        /\ mig'[m].ret = mig[m].ret
    BY <2>2, <2>3, <2>4 DEF MigrationRec
  <2>6. MigrationTo(m, "ask", prov[From(m)].db)
    BY <2>1, <2>2, <2>5 DEF TypeInv, MigrationTo
  <2> QED BY <1>1, <2>1, <2>3, <2>5, <2>6 DEF Walks
<1> QED BY <1>2, <1>3

\* Every other step of a migration is of one of the kinds.
LEMMA MigrateKinds ==
    ASSUME TypeInv, NEW m \in Migrations, MigrateStep(m), ~CheckDatabase(m),
           NEW s \in Databases, mig[m].db = s,
           mig[m].pc = "delete" => prov[From(m)].db = s
    PROVE  Walks(m) \/ TakesLock(m, s) \/ GivesUp(m, s) \/ Releases(m, s) \/ Deletes(m, s)
           \/ \E d \in Databases : Attaches(m, s, d)
<1> USE DEF Active, Locking, MigrationRets
<1>0. Target(m) \in Providers /\ From(m) \in Providers
  BY SetupTypes
<1>c. ASSUME Cancel(m), mig[m].pc \in {"before", "copy", "after"}, UNCHANGED prov
      PROVE  GivesUp(m, s)
  <2>1. MigrationTo(m, "done", s) /\ mig'[m].ret # "OK"
    BY <1>c, ReturnsEffect DEF Cancel
  <2>2. DatabaseTo(s, dbs[s].at, Null, FALSE, dbs[s].keys)
    BY <1>c, CancelEffect DEF Cancel
  <2> QED BY <1>c, <2>1, <2>2 DEF GivesUp
<1>2. CASE get_remi_provider_id_from_remote(m)
  <2>1. UNCHANGED <<prov, dbs>> /\ mig[m].pc = "ask"
    BY <1>2 DEF get_remi_provider_id_from_remote
  <2>2. CASE Go(m, "freeze") /\ Asked(m) /\ (prov[Target(m)].class \/ Freed(m))
    BY <2>1, <2>2, GoEffect DEF Walks, Asked, Freed
  <2>3. CASE Returns(m, "Unsupported") \/ Returns(m, "FromMercury")
    BY <2>1, <2>3, ReturnsEffect DEF Walks
  <2> QED BY <1>2, <2>2, <2>3 DEF get_remi_provider_id_from_remote
<1>3. CASE Freeze(m)
  <2>1. UNCHANGED prov /\ mig[m].pc = "freeze"
    BY <1>3 DEF Freeze
  <2>2. CASE dbs[s].lock = Null /\ dbs' = [dbs EXCEPT ![s].lock = m] /\ Go(m, "fileset")
    <3>1. dbs[s] \in DatabaseRec /\ DOMAIN dbs = Databases
      BY DEF TypeInv
    <3>2. dbs'[s] = [dbs[s] EXCEPT !.lock = m]
      BY <2>2, <3>1
    <3>3. dbs'[s] \in DatabaseRec /\ dbs'[s].at = dbs[s].at /\ dbs'[s].lock = m
          /\ dbs'[s].migrated = dbs[s].migrated /\ dbs'[s].keys = dbs[s].keys
      BY <3>1, <3>2 DEF DatabaseRec
    <3>4. DatabaseTo(s, dbs[s].at, m, dbs[s].migrated, dbs[s].keys)
      BY <2>2, <3>1, <3>3 DEF TypeInv, DatabaseTo
    <3>5. MigrationTo(m, "fileset", s) /\ mig'[m].ret = mig[m].ret
      BY <2>2, GoEffect
    <3> QED BY <2>1, <2>2, <3>4, <3>5 DEF TakesLock
  <2>3. CASE (Returns(m, "Migrated") \/ Returns(m, "FromRemi")) /\ UNCHANGED dbs
    BY <2>1, <2>3, ReturnsEffect DEF Walks
  <2> QED BY <1>3, <2>2, <2>3 DEF Freeze
<1>4. CASE FillFileset(m)
  <2>1. UNCHANGED prov /\ mig[m].pc = "fileset"
    BY <1>4 DEF FillFileset
  <2>2. CASE Go(m, "before") /\ UNCHANGED dbs
    BY <2>1, <2>2, GoEffect DEF Walks
  <2>3. CASE MayFail("fileset") /\ Returns(m, "FromRemi") /\ Drop(m, FALSE)
    <3>1. MigrationTo(m, "done", s) /\ mig'[m].ret # "OK"
      BY <2>3, ReturnsEffect
    <3>2. DatabaseTo(s, dbs[s].at, Null, TRUE, {})
      BY <2>3, DropEffect
    <3> QED BY <2>1, <2>3, <3>1, <3>2 DEF GivesUp
  <2> QED BY <1>4, <2>2, <2>3 DEF FillFileset
<1>5. CASE before_migration_cb(m)
  <2>1. UNCHANGED prov /\ mig[m].pc = "before"
    BY <1>5 DEF before_migration_cb
  <2>2. CASE prov[Target(m)].class /\ prov[Target(m)].db = Null /\ Go(m, "copy")
             /\ UNCHANGED dbs
    BY <2>1, <2>2, GoEffect DEF Walks
  <2>3. CASE Cancel(m)
    BY <1>c, <2>1, <2>3
  <2> QED BY <1>5, <2>2, <2>3 DEF before_migration_cb
<1>6. CASE CopyFiles(m)
  <2>1. UNCHANGED prov /\ mig[m].pc = "copy"
    BY <1>6 DEF CopyFiles
  <2>2. CASE Go(m, "after") /\ UNCHANGED dbs
    BY <2>1, <2>2, GoEffect DEF Walks
  <2>3. CASE Cancel(m)
    BY <1>c, <2>1, <2>3
  <2> QED BY <1>6, <2>2, <2>3 DEF CopyFiles
<1>7. CASE after_migration_cb(m)
  <2>1. mig[m].pc = "after"
    BY <1>7 DEF after_migration_cb
  <2>2. CASE Cancel(m) /\ UNCHANGED prov
    BY <1>c, <2>1, <2>2
  <2>3. CASE ~(Cancel(m) /\ UNCHANGED prov)
    <3>1. PICK d \in Databases :
             /\ dbs[d].at = "none"
             /\ dbs' = [dbs EXCEPT ![d].at = "open", ![d].keys = dbs[s].keys]
             /\ prov' = [prov EXCEPT ![Target(m)].db = d]
      BY <1>7, <2>3 DEF after_migration_cb, NewDatabase
    <3>2. Go(m, "clear")
      BY <1>7, <2>3 DEF after_migration_cb
    <3>3. dbs[s].keys \in SUBSET Keys
      BY DEF TypeInv, DatabaseRec
    <3>4. DatabaseTo(d, "open", Null, FALSE, dbs[s].keys)
      BY <3>1, <3>3, OpenEffect
    <3>5. /\ ProviderTo(Target(m), d)
          /\ prov'[Target(m)].at = prov[Target(m)].at
          /\ prov'[Target(m)].class = prov[Target(m)].class
      BY <1>0, <3>1, PointTo
    <3>6. MigrationTo(m, "clear", s) /\ mig'[m].ret = mig[m].ret
      BY <3>2, GoEffect
    <3> QED BY <2>1, <3>1, <3>4, <3>5, <3>6 DEF Attaches
  <2> QED BY <2>2, <2>3
<1>8. CASE Release(m)
  <2>1. UNCHANGED prov /\ mig[m].pc = "clear" /\ Go(m, "delete") /\ Drop(m, FALSE)
    BY <1>8 DEF Release
  <2>2. DatabaseTo(s, dbs[s].at, Null, TRUE, {})
    BY <2>1, DropEffect
  <2>3. MigrationTo(m, "delete", s) /\ mig'[m].ret = mig[m].ret
    BY <2>1, GoEffect
  <2> QED BY <2>1, <2>2, <2>3 DEF Releases
<1>9. CASE DeleteSource(m)
  <2>1. /\ mig[m].pc = "delete" /\ prov[From(m)].db = s
        /\ dbs' = [dbs EXCEPT ![s].at = "deleted"]
        /\ prov' = [prov EXCEPT ![From(m)].db = Null]
        /\ Returns(m, "OK")
    BY <1>9 DEF DeleteSource
  <2>2. dbs[s] \in DatabaseRec /\ DOMAIN dbs = Databases
    BY DEF TypeInv
  <2>3. dbs'[s] = [dbs[s] EXCEPT !.at = "deleted"]
    BY <2>1, <2>2
  <2>4. dbs'[s] \in DatabaseRec /\ dbs'[s].at = "deleted" /\ dbs'[s].lock = dbs[s].lock
        /\ dbs'[s].migrated = dbs[s].migrated /\ dbs'[s].keys = dbs[s].keys
    BY <2>2, <2>3 DEF DatabaseRec
  <2>5. DatabaseTo(s, "deleted", dbs[s].lock, dbs[s].migrated, dbs[s].keys)
    BY <2>1, <2>2, <2>4 DEF TypeInv, DatabaseTo
  <2>6. /\ ProviderTo(From(m), Null)
        /\ prov'[From(m)].at = prov[From(m)].at
        /\ prov'[From(m)].class = prov[From(m)].class
    BY <1>0, <2>1, PointTo
  <2>7. MigrationTo(m, "done", s) /\ mig'[m].ret = "OK"
    BY <2>1, ReturnsEffect
  <2> QED BY <2>1, <2>5, <2>6, <2>7 DEF Deletes
<1> QED BY <1>2, <1>3, <1>4, <1>5, <1>6, <1>7, <1>8, <1>9 DEF MigrateStep

-----------------------------------------------------------------------------
(* The invariant is kept *)

\* The parameters of the setup stay.
LEMMA Parameters ==
    ASSUME conf' = conf
    PROVE  /\ Migrations' = Migrations /\ Requests' = Requests /\ Keys' = Keys
           /\ DatabaseRec' = DatabaseRec
           /\ \A n : From(n)' = From(n) /\ Target(n)' = Target(n) /\ (Movable(n)' <=> Movable(n))
           /\ \A n : Reached(prov, n)' <=> Reached(prov', n)
           /\ \A f : MayFail(f)' <=> MayFail(f)
BY DEF Reached,  Migrations, Requests, Keys, DatabaseRec, From, Target, Movable, MayFail

\* Types, and databases and handlers that are not made yet.
LEMMA Typed ==
    ASSUME TypeInv, conf' = conf,
           prov' = prov \/ prov' \in [Providers -> ProviderRec],
           mig' = mig \/ mig' \in [Migrations -> MigrationRec],
           req' = req \/ (\E r \in Requests :
                            /\ req' \in [Requests -> RequestRec]
                            /\ req'[r].pc = "holds" => req'[r].db # Null
                            /\ \A s \in Requests : s # r => req'[s] = req[s]),
           dbs' = dbs \/ (\E d \in Databases :
                            /\ dbs' \in [Databases -> DatabaseRec]
                            /\ dbs'[d].at # "none"
                            /\ \A e \in Databases : e # d => dbs'[e] = dbs[e])
    PROVE  TypeInv'
<1>1. Migrations' = Migrations /\ Requests' = Requests /\ DatabaseRec' = DatabaseRec
  BY Parameters
<1>2. prov' \in [Providers -> ProviderRec] /\ mig' \in [Migrations -> MigrationRec]
      /\ conf' \in Setups
  BY DEF TypeInv
<1>3. req' \in [Requests -> RequestRec]
      /\ \A r \in Requests : req'[r].pc = "holds" => req'[r].db # Null
  BY DEF TypeInv
<1>4. dbs' \in [Databases -> DatabaseRec]
      /\ \A d \in Databases : dbs'[d].at = "none" => dbs'[d] = NoDatabase
  BY DEF TypeInv
<1> QED BY <1>1, <1>2, <1>3, <1>4 DEF TypeInv

\* What is always known of an active migration, and that no other one has its
\* database or its providers.
LEMMA ActiveAlone ==
    ASSUME PInv, MigrationsApart(conf), NEW m \in Migrations, mig[m].pc \in Active
    PROVE  /\ mig[m].db \in Databases /\ prov[From(m)].db = mig[m].db
           /\ dbs[mig[m].db].at = "open" /\ Movable(m)
           /\ \A n \in Migrations : n # m /\ mig[n].pc \in Active =>
                mig[n].db # mig[m].db /\ From(n) # From(m) /\ Target(n) # Target(m)
<1> USE DEF PInv
<1>1. \A n \in Migrations : From(n) \in Providers /\ Target(n) \in Providers
  BY SetupTypes
<1>2. \A n \in Migrations : mig[n].pc \in Active =>
         /\ mig[n].db # Null /\ mig[n].db \in Databases /\ Movable(n)
         /\ prov[From(n)].db = mig[n].db /\ prov[From(n)].at = "registered"
  <2> SUFFICES ASSUME NEW n \in Migrations, mig[n].pc \in Active
               PROVE  /\ mig[n].db # Null /\ mig[n].db \in Databases /\ Movable(n)
                      /\ prov[From(n)].db = mig[n].db /\ prov[From(n)].at = "registered"
    OBVIOUS
  <2>1. mig[n] \in MigrationRec
    BY DEF TypeInv
  <2>2. mig[n].db # Null /\ prov[From(n)].at = "registered" /\ Reached(prov, n)
        /\ (Movable(n) => prov[From(n)].db = mig[n].db)
    BY DEF Migrating
  <2>3. Movable(n)
    BY <1>1, <2>2 DEF Placement, Movable, Reached
  <2> QED BY <2>1, <2>2, <2>3 DEF MigrationRec
<1>3. dbs[mig[m].db].at = "open"
  BY <1>1, <1>2 DEF Placement
<1>4. ASSUME NEW n \in Migrations, n # m, mig[n].pc \in Active
      PROVE  mig[n].db # mig[m].db /\ From(n) # From(m) /\ Target(n) # Target(m)
  <2>1. From(n) # From(m) /\ Target(n) # Target(m)
    BY <1>2, <1>4 DEF MigrationsApart, Movable, From, Target, Migrations
  <2> QED BY <1>1, <1>2, <1>4, <2>1 DEF Placement
<1> QED BY <1>2, <1>3, <1>4

\* A new provider: no migration has begun.
LEMMA RegisterKeeps ==
    ASSUME PInv, NEW p \in Providers, yk_provider_register(p)
    PROVE  PInv'
<1> USE DEF PInv
<1>1. conf' = conf /\ mig' = mig /\ req' = req /\ prov[p].at = "none"
  BY RegisterEffect
<1>2. \A m \in Migrations : mig[m].pc = "start"
  BY <1>1 DEF Migrating, AllRegistered
<1>3. /\ prov' \in [Providers -> ProviderRec] /\ prov'[p].at # "none"
      /\ \A q \in Providers : q # p => prov'[q] = prov[q]
      /\ prov'[p].class => p \in conf.remi
      /\ prov'[p].at = "deleted" => prov'[p].rpcs = {}
  BY RegisterEffect DEF ProviderTo, Placement
<1>4. \/ dbs' = dbs /\ prov'[p].db = prov[p].db
      \/ \E d \in Databases : /\ dbs[d].at = "none" /\ prov'[p].at = "registered"
                              /\ DatabaseTo(d, "open", Null, FALSE, {})
                              /\ prov'[p].db = d
  BY RegisterEffect DEF ProviderTo
<1>5. TypeInv'
  <2>1. dbs' = dbs \/ (\E d \in Databases :
                            /\ dbs' \in [Databases -> DatabaseRec]
                            /\ dbs'[d].at # "none"
                            /\ \A e \in Databases : e # d => dbs'[e] = dbs[e])
    BY <1>4 DEF DatabaseTo
  <2> QED BY <1>1, <1>3, <2>1, Typed
<1>6. \A d \in Databases : dbs[d].at = "none" => dbs[d].lock = Null /\ ~dbs[d].migrated
  BY DEF TypeInv, NoDatabase
<1>7. Placement'
  <2>1. CASE dbs' = dbs /\ prov'[p].db = prov[p].db
    BY <1>1, <1>3, <2>1 DEF Placement
  <2>2. ASSUME NEW d \in Databases, dbs[d].at = "none", prov'[p].at = "registered",
               DatabaseTo(d, "open", Null, FALSE, {}), prov'[p].db = d
        PROVE  Placement'
    <3>1. \A q \in Providers : q # p => prov'[q] = prov[q] /\ prov[q].db # d
      BY <1>3, <2>2, SetupTypes DEF Placement
    <3>2. \A e \in Databases : e # d => dbs'[e] = dbs[e]
      BY <2>2 DEF DatabaseTo
    <3>3. dbs'[d].at = "open"
      BY <2>2 DEF DatabaseTo
    <3>4. \A q \in Providers : prov[q].db # Null => prov[q].db \in Databases
      BY DEF TypeInv, ProviderRec
    <3>5. \A q \in Providers :
            /\ prov'[q].db # Null => dbs'[prov'[q].db].at # "none"
            /\ prov'[q].db # Null /\ prov'[q].at = "registered" => dbs'[prov'[q].db].at = "open"
            /\ prov'[q].at = "none" => prov'[q].db = Null /\ prov'[q].rpcs = {}
            /\ prov'[q].class => q \in conf.remi
            /\ prov'[q].at = "deleted" /\ prov'[q].rpcs # {} =>
                 ~prov'[q].class /\ q \in conf.destroys
      BY <1>3, <2>2, <3>1, <3>2, <3>3, <3>4 DEF Placement
    <3>6. \A q, t \in Providers : prov'[q].db # Null /\ prov'[q].db = prov'[t].db => q = t
      BY <2>2, <3>1 DEF Placement
    <3>7. ASSUME NEW e \in Databases, dbs'[e].at = "open"
          PROVE  \E q \in Providers : prov'[q].at = "registered" /\ prov'[q].db = e
      BY <1>1, <2>2, <3>1, <3>2, <3>7 DEF Placement
    <3> QED BY <1>1, <3>5, <3>6, <3>7 DEF Placement
  <2> QED BY <1>4, <2>1, <2>2
<1>8. Migrating'
  BY <1>1, <1>2, Parameters DEF Migrating, Active, Locking
<1>9. Locks'
  <2>1. \A d \in Databases : dbs'[d].lock = dbs[d].lock /\ (dbs'[d].migrated => dbs[d].migrated)
    BY <1>4, <1>6 DEF DatabaseTo
  <2> QED BY <1>1, <2>1, Parameters DEF Locks
<1> QED BY <1>5, <1>7, <1>8, <1>9

\* The end of a provider that has no migration in progress.
LEMMA FinalizeKeeps ==
    ASSUME PInv, NEW p \in Providers, yk_finalize_provider(p)
    PROVE  PInv'
<1> USE DEF PInv
<1>1. conf' = conf /\ mig' = mig /\ req' = req
  BY FinalizeEffect
<1>2. /\ prov[p].at = "registered" /\ Quiet(p)
      /\ prov'[p].at = "deleted" /\ ~prov'[p].class /\ prov'[p].db = prov[p].db
      /\ p \in conf.destroys /\ prov' \in [Providers -> ProviderRec]
      /\ \A q \in Providers : q # p => prov'[q] = prov[q]
  BY FinalizeEffect DEF ProviderTo
<1>3. \/ dbs' = dbs /\ prov[p].db = Null
      \/ \E s \in Databases :
           /\ prov[p].db = s
           /\ DatabaseTo(s, "deleted", dbs[s].lock, dbs[s].migrated, dbs[s].keys)
  BY FinalizeEffect
<1>4. TypeInv'
  <2>1. dbs' = dbs \/ (\E d \in Databases :
                            /\ dbs' \in [Databases -> DatabaseRec]
                            /\ dbs'[d].at # "none"
                            /\ \A e \in Databases : e # d => dbs'[e] = dbs[e])
    BY <1>3 DEF DatabaseTo
  <2> QED BY <1>1, <1>2, <2>1, Typed
<1>5. Placement'
  <2>1. CASE dbs' = dbs /\ prov[p].db = Null
    BY <1>1, <1>2, <2>1, SetupTypes DEF Placement
  <2>2. ASSUME NEW s \in Databases, prov[p].db = s,
               DatabaseTo(s, "deleted", dbs[s].lock, dbs[s].migrated, dbs[s].keys)
        PROVE  Placement'
    <3>1. \A q \in Providers : q # p => prov'[q] = prov[q] /\ prov[q].db # s
      BY <1>2, <2>2, SetupTypes DEF Placement
    <3>2. (\A e \in Databases : e # s => dbs'[e] = dbs[e]) /\ dbs'[s].at = "deleted"
      BY <2>2 DEF DatabaseTo
    <3>3. \A q \in Providers : prov[q].db # Null => prov[q].db \in Databases
      BY DEF TypeInv, ProviderRec
    <3>4. \A q \in Providers :
            /\ prov'[q].db # Null => dbs'[prov'[q].db].at # "none"
            /\ prov'[q].db # Null /\ prov'[q].at = "registered" => dbs'[prov'[q].db].at = "open"
            /\ prov'[q].at = "none" => prov'[q].db = Null /\ prov'[q].rpcs = {}
            /\ prov'[q].class => q \in conf.remi
            /\ prov'[q].at = "deleted" /\ prov'[q].rpcs # {} =>
                 ~prov'[q].class /\ q \in conf.destroys
      BY <1>2, <2>2, <3>1, <3>2, <3>3 DEF Placement
    <3>5. \A q, t \in Providers : prov'[q].db # Null /\ prov'[q].db = prov'[t].db => q = t
      BY <1>2, <3>1 DEF Placement
    <3>6. ASSUME NEW e \in Databases, dbs'[e].at = "open"
          PROVE  \E q \in Providers : prov'[q].at = "registered" /\ prov'[q].db = e
      <4>1. e # s /\ dbs[e].at = "open"
        BY <3>2, <3>6
      <4> QED BY <1>2, <2>2, <3>1, <4>1 DEF Placement
    <3> QED BY <1>1, <3>4, <3>5, <3>6 DEF Placement
  <2> QED BY <1>3, <2>1, <2>2
<1>6. /\ \A d \in Databases : /\ dbs'[d].lock = dbs[d].lock
                              /\ dbs'[d].migrated <=> dbs[d].migrated
                              /\ dbs[d].at # "none" => dbs'[d].at # "none"
                              /\ dbs[d].at = "deleted" => dbs'[d].at = "deleted"
  BY <1>3 DEF DatabaseTo
<1>7. Migrating'
  <2>1. \A m \in Migrations : p \in {From(m), Target(m)} => mig[m].pc \in {"start", "done"}
    BY <1>2 DEF Quiet
  <2>2. \A m \in Migrations : mig[m].db # Null => mig[m].db \in Databases
    BY DEF TypeInv, MigrationRec
  <2>3. \A m \in Migrations : From(m) \in Providers /\ Target(m) \in Providers
    BY SetupTypes
  <2>4. \A m \in Migrations : mig[m].pc \in {"ask"} \cup Active =>
           From(m) # p /\ Target(m) # p
    BY <2>1 DEF Active, Locking
  <2>5. AllRegistered => AllRegistered'
    BY <1>2 DEF AllRegistered
  <2>6. ASSUME NEW m \in Migrations
        PROVE  /\ mig[m].pc \in {"ask"} \cup Active =>
                    /\ mig[m].db # Null /\ prov'[From(m)].at = "registered"
                    /\ Movable(m) => prov'[From(m)].db = mig[m].db
               /\ mig[m].pc \in Active => Reached(prov', m)
               /\ mig[m].pc \in {"copy", "after", "clear", "delete"} => prov'[Target(m)].class
               /\ mig[m].pc \in {"copy", "after"} => prov'[Target(m)].db = Null
    BY <1>2, <2>3, <2>4 DEF Migrating, Reached, Active, Locking
  <2>7. ASSUME NEW m \in Migrations
        PROVE  /\ mig[m].pc = "start" => mig[m].db = Null
               /\ mig[m].pc # "done" => mig[m].ret = "none"
               /\ mig[m].db # Null => dbs'[mig[m].db].at # "none"
               /\ mig[m].pc = "delete" => dbs'[mig[m].db].migrated
               /\ mig[m].ret = "OK" => mig[m].db # Null /\ dbs'[mig[m].db].at = "deleted"
    BY <1>6, <2>2 DEF Migrating, Active
  <2> QED BY <1>1, <2>5, <2>6, <2>7, Parameters DEF Migrating
<1>8. Locks'
  BY <1>1, <1>6, Parameters DEF Locks
<1> QED BY <1>4, <1>5, <1>7, <1>8

\* Requests change neither placement nor locks.
LEMMA RequestKeeps ==
    ASSUME PInv, NEW r \in Requests, RequestStep(r)
    PROVE  PInv'
<1> USE DEF PInv
<1>1. conf' = conf /\ mig' = mig /\ prov' = prov
  BY RequestEffect
<1>2. \A d \in Databases : /\ dbs'[d].lock = dbs[d].lock /\ dbs'[d].at = dbs[d].at
                           /\ dbs'[d].migrated <=> dbs[d].migrated
  BY RequestEffect DEF DatabaseTo, Serves
<1>3. TypeInv'
  <2>1. dbs' = dbs \/ (\E d \in Databases :
                            /\ dbs' \in [Databases -> DatabaseRec]
                            /\ dbs'[d].at # "none"
                            /\ \A e \in Databases : e # d => dbs'[e] = dbs[e])
    BY RequestEffect DEF DatabaseTo
  <2> QED BY <1>1, <2>1, RequestEffect, Typed
<1>4. Placement'
  BY <1>1, <1>2, SetupTypes DEF Placement, TypeInv, ProviderRec
<1>5. Migrating'
  <2>1. \A m \in Migrations : mig[m].db # Null => mig[m].db \in Databases
    BY DEF TypeInv, MigrationRec
  <2>2. AllRegistered' <=> AllRegistered
    BY <1>1 DEF AllRegistered
  <2>3. ASSUME NEW m \in Migrations
        PROVE  /\ mig[m].db # Null => dbs'[mig[m].db].at # "none"
               /\ mig[m].pc = "delete" => dbs'[mig[m].db].migrated
               /\ mig[m].ret = "OK" => mig[m].db # Null /\ dbs'[mig[m].db].at = "deleted"
    BY <1>2, <2>1 DEF Migrating, Active
  <2> QED BY <1>1, <2>2, <2>3, Parameters DEF Migrating
<1>6. Locks'
  BY <1>1, <1>2, Parameters DEF Locks
<1> QED BY <1>3, <1>4, <1>5, <1>6

\* A step of a migration that changes neither provider nor database.
LEMMA WalksKeeps ==
    ASSUME PInv, NEW m \in Migrations, Walks(m), conf' = conf, req' = req
    PROVE  PInv'
<1> USE DEF PInv
<1>1. prov' = prov /\ dbs' = dbs /\ mig' \in [Migrations -> MigrationRec]
      /\ \A n \in Migrations : n # m => mig'[n] = mig[n]
  BY DEF Walks, MigrationTo
<1>2. TypeInv'
  BY <1>1, Typed
<1>3. Placement'
  BY <1>1 DEF Placement
<1>4. From(m) \in Providers
  BY SetupTypes
<1>5. Migrating'
  <2>1. ASSUME NEW n \in Migrations
        PROVE  /\ mig'[n].pc # "start" => AllRegistered
               /\ mig'[n].pc = "start" => mig'[n].db = Null
               /\ mig'[n].pc # "done" => mig'[n].ret = "none"
               /\ mig'[n].db # Null => dbs[mig'[n].db].at # "none"
               /\ mig'[n].pc \in {"ask"} \cup Active =>
                    /\ mig'[n].db # Null /\ prov[From(n)].at = "registered"
                    /\ Movable(n) => prov[From(n)].db = mig'[n].db
               /\ mig'[n].pc \in Active => Reached(prov, n)
               /\ mig'[n].pc \in {"copy", "after", "clear", "delete"} => prov[Target(n)].class
               /\ mig'[n].pc \in {"copy", "after"} => prov[Target(n)].db = Null
               /\ mig'[n].pc = "delete" => dbs[mig'[n].db].migrated
               /\ mig'[n].ret = "OK" => mig'[n].db # Null /\ dbs[mig'[n].db].at = "deleted"
    <3>1. CASE n # m
      BY <1>1, <2>1, <3>1 DEF Migrating
    <3>2. CASE n = m
      <4>1. Target(m) \in Providers
        BY SetupTypes
      <4>2. mig'[m].pc \in Active => Reached(prov, m)
        <5>1. CASE mig[m].pc = "ask" /\ mig'[m].pc = "freeze"
          <6>1. AllRegistered /\ prov[Target(m)].rpcs # {}
                /\ (prov[Target(m)].class \/ prov[Target(m)].at = "deleted")
            BY <5>1 DEF Walks, MigrationTo, Migrating
          <6>2. prov[Target(m)].at \in {"registered", "deleted"}
            BY <4>1, <6>1 DEF AllRegistered, TypeInv, ProviderRec
          <6> QED BY <4>1, <6>1, <6>2 DEF Placement, Reached
        <5>2. CASE mig'[m].pc \in Active => mig[m].pc \in Active
          BY <5>2 DEF Migrating
        <5> QED BY <5>1, <5>2 DEF Walks, MigrationTo, Active, Locking
      <4>3. /\ mig'[m].pc \in {"copy", "after", "clear", "delete"} => prov[Target(m)].class
            /\ mig'[m].pc \in {"copy", "after"} => prov[Target(m)].db = Null
            /\ mig'[m].pc # "delete"
        BY DEF Migrating, Walks, MigrationTo
      <4>4. /\ mig'[m].pc # "start" /\ AllRegistered
            /\ mig'[m].pc # "done" => mig'[m].ret = "none"
            /\ mig'[m].db # Null => dbs[mig'[m].db].at # "none"
            /\ mig'[m].ret # "OK"
        BY <1>4 DEF Migrating, Walks, MigrationTo, Placement
      <4>5. mig'[m].pc \in {"ask"} \cup Active =>
               /\ mig'[m].db # Null /\ prov[From(m)].at = "registered"
               /\ Movable(m) => prov[From(m)].db = mig'[m].db
        BY DEF Migrating, Walks, MigrationTo, Active, Locking
      <4> QED BY <3>2, <4>2, <4>3, <4>4, <4>5
    <3> QED BY <3>1, <3>2
  <2> QED BY <1>1, <2>1, Parameters DEF Migrating, AllRegistered
<1>6. Locks'
  <2>1. \A d \in Databases, n \in Migrations :
          (mig'[n].db = d /\ mig'[n].pc \in Locking) <=> (mig[n].db = d /\ mig[n].pc \in Locking)
    BY <1>1, SetupTypes DEF Walks, MigrationTo, Locking, Migrating
  <2>2. \A n \in Migrations : mig[n].pc = "delete" \/ mig[n].ret = "OK" => mig'[n] = mig[n]
    BY <1>1 DEF Walks, MigrationTo, Migrating
  <2> QED BY <1>1, <2>1, <2>2, Parameters DEF Locks
<1> QED BY <1>2, <1>3, <1>5, <1>6

\* Steps that only change the lock of the database of an active migration.
LEMMA LockStepKeeps ==
    ASSUME PInv, MigrationsApart(conf), NEW m \in Migrations, NEW s \in Databases, mig[m].db = s,
           TakesLock(m, s) \/ GivesUp(m, s) \/ Releases(m, s), conf' = conf, req' = req
    PROVE  PInv'
<1> USE DEF PInv
<1>1. prov' = prov /\ mig' \in [Migrations -> MigrationRec] /\ mig'[m].db = s
      /\ \A n \in Migrations : n # m => mig'[n] = mig[n]
  BY DEF TakesLock, GivesUp, Releases, MigrationTo
<1>2. dbs' \in [Databases -> DatabaseRec] /\ dbs'[s].at = dbs[s].at
      /\ \A e \in Databases : e # s => dbs'[e] = dbs[e]
  BY DEF TakesLock, GivesUp, Releases, DatabaseTo
<1>3. mig[m].pc \in Active
  BY DEF TakesLock, GivesUp, Releases, Active, Locking
<1>4. dbs[s].at = "open"
  BY <1>3, ActiveAlone
<1>5. TypeInv'
  BY <1>1, <1>2, <1>4, Typed
<1>6. Placement'
  <2>1. \A d \in Databases : dbs'[d].at = dbs[d].at
    BY <1>2
  <2>2. \A q \in Providers : prov[q].db # Null => prov[q].db \in Databases
    BY DEF TypeInv, ProviderRec
  <2>3. \A q \in Providers :
          /\ prov[q].db # Null => dbs'[prov[q].db].at # "none"
          /\ prov[q].db # Null /\ prov[q].at = "registered" => dbs'[prov[q].db].at = "open"
    BY <2>1, <2>2 DEF Placement
  <2>4. \A e \in Databases : dbs'[e].at = "open" =>
          \E q \in Providers : prov[q].at = "registered" /\ prov[q].db = e
    BY <2>1 DEF Placement
  <2> QED BY <1>1, <2>3, <2>4 DEF Placement
<1>7. Migrating'
  <2>0. \A n \in Migrations : mig[n].db # Null => mig[n].db \in Databases
    BY DEF TypeInv, MigrationRec
  <2>1. ASSUME NEW n \in Migrations
        PROVE  /\ mig'[n].pc # "start" => AllRegistered
               /\ mig'[n].pc = "start" => mig'[n].db = Null
               /\ mig'[n].pc # "done" => mig'[n].ret = "none"
               /\ mig'[n].db # Null => dbs'[mig'[n].db].at # "none"
               /\ mig'[n].pc \in {"ask"} \cup Active =>
                    /\ mig'[n].db # Null /\ prov[From(n)].at = "registered"
                    /\ Movable(n) => prov[From(n)].db = mig'[n].db
               /\ mig'[n].pc \in Active => Reached(prov, n)
               /\ mig'[n].pc \in {"copy", "after", "clear", "delete"} => prov[Target(n)].class
               /\ mig'[n].pc \in {"copy", "after"} => prov[Target(n)].db = Null
               /\ mig'[n].pc = "delete" => dbs'[mig'[n].db].migrated
               /\ mig'[n].ret = "OK" => mig'[n].db # Null /\ dbs'[mig'[n].db].at = "deleted"
    <3>1. CASE n # m
      <4>1. mig[n].pc = "delete" => mig[n].db # s
        BY <1>3, <3>1, ActiveAlone DEF Active
      <4>2. mig[n].pc = "delete" => mig[n].db # Null
        BY DEF Migrating, Active
      <4> QED BY <1>1, <1>2, <2>0, <3>1, <4>1, <4>2 DEF Migrating
    <3>2. CASE n = m
      <4>1. mig'[m].pc = "delete" => dbs'[s].migrated
        BY DEF TakesLock, GivesUp, Releases, MigrationTo, DatabaseTo
      <4>2. mig'[m].pc \in {"fileset", "delete", "done"}
            /\ (mig'[m].pc # "done" => mig'[m].ret = mig[m].ret) /\ mig'[m].ret # "OK"
        BY DEF TakesLock, GivesUp, Releases, MigrationTo, Migrating
      <4>3. mig'[m].pc \in {"copy", "after", "clear", "delete"} => mig[m].pc = "clear"
        BY <4>2 DEF TakesLock, GivesUp, Releases, MigrationTo
      <4>4. /\ mig'[m].pc \in Active => Reached(prov, m)
            /\ mig'[m].pc \in {"copy", "after", "clear", "delete"} => prov[Target(m)].class
        BY <1>3, <4>3 DEF Migrating
      <4>5. /\ AllRegistered /\ mig[m].ret = "none" /\ s # Null
            /\ prov[From(m)].at = "registered" /\ (Movable(m) => prov[From(m)].db = s)
        BY <1>3, SetupTypes DEF Migrating, Active, Locking
      <4> QED BY <1>1, <1>2, <1>4, <3>2, <4>1, <4>2, <4>4, <4>5
    <3> QED BY <3>1, <3>2
  <2> QED BY <1>1, <2>1, Parameters DEF Migrating, AllRegistered
<1>8. Locks'
  <2>1. \A d \in Databases, n \in Migrations :
          dbs'[d].lock = n <=> mig'[n].db = d /\ mig'[n].pc \in Locking
    <3> SUFFICES ASSUME NEW d \in Databases, NEW n \in Migrations
                 PROVE  dbs'[d].lock = n <=> mig'[n].db = d /\ mig'[n].pc \in Locking
      OBVIOUS
    <3>1. CASE d # s
      <4>1. dbs'[d].lock = n <=> mig[n].db = d /\ mig[n].pc \in Locking
        BY <1>2, <3>1 DEF Locks
      <4>2. CASE n = m
        BY <1>1, <3>1, <4>1, <4>2
      <4>3. CASE n # m
        BY <1>1, <4>1, <4>3
      <4> QED BY <4>2, <4>3
    <3>2. CASE d = s /\ TakesLock(m, s)
      BY <1>1, <3>2, SetupTypes DEF Locks, TakesLock, MigrationTo, DatabaseTo, Locking
    <3>3. CASE d = s /\ (GivesUp(m, s) \/ Releases(m, s))
      <4>1. mig[m].pc \in Locking /\ mig'[m].pc \notin Locking /\ dbs'[s].lock = Null
        BY <3>3 DEF GivesUp, Releases, MigrationTo, DatabaseTo, Locking
      <4> QED BY <1>1, <3>3, <4>1, SetupTypes DEF Locks
    <3> QED BY <3>1, <3>2, <3>3
  <2>2. ASSUME NEW d \in Databases, dbs'[d].migrated, ~MayFail("fileset")
        PROVE  \E n \in Migrations : mig'[n].db = d /\ (mig'[n].pc = "delete" \/ mig'[n].ret = "OK")
    <3>1. mig[m].pc # "delete" /\ mig[m].ret # "OK"
      BY DEF TakesLock, GivesUp, Releases, Migrating
    <3>2. dbs[d].migrated \/ (d = s /\ Releases(m, s))
      BY <1>2, <2>2 DEF TakesLock, GivesUp, Releases, DatabaseTo
    <3>3. CASE dbs[d].migrated
      BY <1>1, <2>2, <3>1, <3>3 DEF Locks
    <3>4. CASE d = s /\ Releases(m, s)
      BY <1>1, <3>4 DEF Releases, MigrationTo
    <3> QED BY <3>2, <3>3, <3>4
  <2> QED BY <2>1, <2>2, Parameters DEF Locks
<1> QED BY <1>5, <1>6, <1>7, <1>8

\* The target attaches a new database.
LEMMA AttachesKeeps ==
    ASSUME PInv, MigrationsApart(conf), NEW m \in Migrations, NEW s \in Databases, mig[m].db = s,
           NEW d \in Databases, Attaches(m, s, d), conf' = conf, req' = req
    PROVE  PInv'
<1> USE DEF PInv
<1> DEFINE t == Target(m)
<1>1. mig[m].pc = "after" /\ dbs[d].at = "none"
      /\ mig' \in [Migrations -> MigrationRec] /\ mig'[m].db = s /\ mig'[m].pc = "clear"
      /\ mig'[m].ret = mig[m].ret
      /\ \A n \in Migrations : n # m => mig'[n] = mig[n]
  BY DEF Attaches, MigrationTo
<1>2. dbs' \in [Databases -> DatabaseRec] /\ dbs'[d].at = "open" /\ dbs'[d].lock = Null
      /\ ~dbs'[d].migrated
      /\ \A e \in Databases : e # d => dbs'[e] = dbs[e]
  BY DEF Attaches, DatabaseTo
<1>3. /\ prov' \in [Providers -> ProviderRec]
      /\ prov'[t].db = d /\ prov'[t].at = prov[t].at /\ prov'[t].class = prov[t].class
      /\ \A q \in Providers : q # t => prov'[q] = prov[q]
  BY DEF Attaches, ProviderTo
<1>4. t \in Providers /\ Null \notin Databases
      /\ \A n \in Migrations : From(n) \in Providers /\ Target(n) \in Providers
  BY SetupTypes
<1>5. prov[t].at = "registered" /\ prov[t].class /\ prov[t].db = Null
  BY <1>1 DEF Migrating, Active, Locking, Reached
<1>6. mig[m].pc \in Active
  BY <1>1 DEF Active, Locking
<1>7. dbs[s].at = "open" /\ s # d /\ prov[From(m)].db = s
  BY <1>1, <1>6, ActiveAlone
<1>8. TypeInv'
  BY <1>1, <1>2, <1>3, Typed
<1>9. \A q \in Providers : prov[q].db # Null => prov[q].db \in Databases /\ prov[q].db # d
  BY <1>1 DEF TypeInv, ProviderRec, Placement
<1> HIDE DEF t
<1>10. Placement'
  <2>1. \A q \in Providers :
          /\ prov'[q].db # Null => dbs'[prov'[q].db].at # "none"
          /\ prov'[q].db # Null /\ prov'[q].at = "registered" => dbs'[prov'[q].db].at = "open"
          /\ prov'[q].at = "none" => prov'[q].db = Null /\ prov'[q].rpcs = {}
          /\ prov'[q].class => q \in conf.remi
          /\ prov'[q].at = "deleted" /\ prov'[q].rpcs # {} =>
               ~prov'[q].class /\ q \in conf.destroys
    BY <1>2, <1>3, <1>4, <1>5, <1>9 DEF Placement
  <2>2. \A q, u \in Providers : prov'[q].db # Null /\ prov'[q].db = prov'[u].db => q = u
    BY <1>3, <1>4, <1>9 DEF Placement
  <2>3. ASSUME NEW e \in Databases, dbs'[e].at = "open"
        PROVE  \E q \in Providers : prov'[q].at = "registered" /\ prov'[q].db = e
    <3>1. CASE e = d
      BY <1>3, <1>4, <1>5, <3>1
    <3>2. CASE e # d
      <4>1. PICK q \in Providers : prov[q].at = "registered" /\ prov[q].db = e
        BY <1>2, <2>3, <3>2 DEF Placement
      <4> QED BY <1>3, <1>4, <1>5, <4>1
    <3> QED BY <3>1, <3>2
  <2> QED BY <2>1, <2>2, <2>3 DEF Placement
<1>11. Migrating'
  <2>0. \A n \in Migrations : mig[n].db # Null => mig[n].db \in Databases /\ mig[n].db # d
    BY <1>1 DEF TypeInv, MigrationRec, Migrating
  <2>1. AllRegistered'
    BY <1>1, <1>3, <1>4 DEF Migrating, AllRegistered
  <2>2. ASSUME NEW n \in Migrations
        PROVE  /\ mig'[n].pc = "start" => mig'[n].db = Null
               /\ mig'[n].pc # "done" => mig'[n].ret = "none"
               /\ mig'[n].db # Null => dbs'[mig'[n].db].at # "none"
               /\ mig'[n].pc \in {"ask"} \cup Active =>
                    /\ mig'[n].db # Null /\ prov'[From(n)].at = "registered"
                    /\ Movable(n) => prov'[From(n)].db = mig'[n].db
               /\ mig'[n].pc \in Active => Reached(prov', n)
               /\ mig'[n].pc \in {"copy", "after", "clear", "delete"} => prov'[Target(n)].class
               /\ mig'[n].pc \in {"copy", "after"} => prov'[Target(n)].db = Null
               /\ mig'[n].pc = "delete" => dbs'[mig'[n].db].migrated
               /\ mig'[n].ret = "OK" => mig'[n].db # Null /\ dbs'[mig'[n].db].at = "deleted"
    <3>1. CASE n # m
      <4>1. /\ mig[n].pc = "start" => mig[n].db = Null
            /\ mig[n].pc # "done" => mig[n].ret = "none"
            /\ mig[n].db # Null => dbs'[mig[n].db].at # "none"
            /\ mig[n].pc = "delete" => dbs'[mig[n].db].migrated
            /\ mig[n].ret = "OK" => mig[n].db # Null /\ dbs'[mig[n].db].at = "deleted"
        BY <1>2, <2>0 DEF Migrating, Active
      <4>2. mig[n].pc \in {"ask"} \cup Active =>
               /\ mig[n].db # Null /\ prov'[From(n)].at = "registered"
               /\ Movable(n) => prov'[From(n)].db = mig[n].db
        BY <1>3, <1>4, <1>5 DEF Migrating
      <4>3. /\ mig[n].pc \in Active => Reached(prov', n)
            /\ mig[n].pc \in {"copy", "after", "clear", "delete"} => prov'[Target(n)].class
        BY <1>3, <1>4, <1>5 DEF Migrating, Reached
      <4>4. mig[n].pc \in {"copy", "after"} => prov'[Target(n)].db = Null
        <5>1. mig[n].pc \in {"copy", "after"} => Target(n) # t
          BY <1>6, <3>1, ActiveAlone DEF Active, Locking, t
        <5> QED BY <1>3, <1>4, <5>1 DEF Migrating
      <4> QED BY <1>1, <3>1, <4>1, <4>2, <4>3, <4>4
    <3>2. CASE n = m
      <4>1. mig[m].ret = "none" /\ prov[From(m)].at = "registered" /\ From(m) # t
        BY <1>1, <1>4, <1>5, <1>7 DEF Migrating, Active, Locking
      <4>2. Reached(prov', m) /\ prov'[Target(m)].class
        BY <1>3, <1>5 DEF Reached, t
      <4>3. prov'[From(m)].at = "registered" /\ prov'[From(m)].db = s
        BY <1>3, <1>4, <1>7, <4>1
      <4>4. s # Null /\ dbs'[s].at # "none"
        BY <1>2, <1>4, <1>7
      <4> QED BY <1>1, <3>2, <4>1, <4>2, <4>3, <4>4
    <3> QED BY <3>1, <3>2
  <2> QED BY <2>1, <2>2, Parameters DEF Migrating
<1>12. Locks'
  <2>1. dbs[d].lock = Null /\ ~dbs[d].migrated
    BY <1>1 DEF TypeInv, NoDatabase
  <2>2. \A n \in Migrations : /\ mig'[n].db = mig[n].db /\ mig'[n].ret = mig[n].ret
                              /\ mig'[n].pc \in Locking <=> mig[n].pc \in Locking
                              /\ mig[n].pc = "delete" => mig'[n].pc = "delete"
    BY <1>1 DEF Locking
  <2>3. \A e \in Databases : dbs'[e].lock = dbs[e].lock /\ (dbs'[e].migrated => dbs[e].migrated)
    BY <1>2, <2>1
  <2> QED BY <2>2, <2>3, Parameters DEF Locks
<1> QED BY <1>8, <1>10, <1>11, <1>12

\* The source is deleted.
LEMMA DeletesKeeps ==
    ASSUME PInv, MigrationsApart(conf), NEW m \in Migrations, NEW s \in Databases, mig[m].db = s,
           Deletes(m, s), conf' = conf, req' = req
    PROVE  PInv'
<1> USE DEF PInv
<1> DEFINE f == From(m)
<1>1. mig[m].pc = "delete"
      /\ mig' \in [Migrations -> MigrationRec] /\ mig'[m].db = s /\ mig'[m].pc = "done"
      /\ mig'[m].ret = "OK"
      /\ \A n \in Migrations : n # m => mig'[n] = mig[n]
  BY DEF Deletes, MigrationTo
<1>2. dbs' \in [Databases -> DatabaseRec] /\ dbs'[s].at = "deleted" /\ dbs'[s].lock = dbs[s].lock
      /\ (dbs'[s].migrated <=> dbs[s].migrated)
      /\ \A e \in Databases : e # s => dbs'[e] = dbs[e]
  BY DEF Deletes, DatabaseTo
<1>3. /\ prov' \in [Providers -> ProviderRec] /\ prov[f].db = s
      /\ prov'[f].db = Null /\ prov'[f].at = prov[f].at /\ prov'[f].class = prov[f].class
      /\ \A q \in Providers : q # f => prov'[q] = prov[q]
  BY DEF Deletes, ProviderTo
<1>4. f \in Providers /\ Null \notin Databases
      /\ \A n \in Migrations : From(n) \in Providers /\ Target(n) \in Providers
  BY SetupTypes
<1>5. mig[m].pc \in Active /\ mig[m].pc # "done"
  BY <1>1 DEF Active
<1>6. dbs[s].at = "open" /\ Movable(m) /\ prov[f].at = "registered"
  BY <1>5, ActiveAlone DEF Migrating
<1>7. TypeInv'
  BY <1>1, <1>2, <1>3, Typed
<1>8. \A q \in Providers : /\ prov[q].db # Null => prov[q].db \in Databases
                           /\ q # f => prov[q].db # s
  BY <1>3, <1>4 DEF TypeInv, ProviderRec, Placement
<1> HIDE DEF f
<1>9. Placement'
  <2>1. \A q \in Providers :
          /\ prov'[q].db # Null => dbs'[prov'[q].db].at # "none"
          /\ prov'[q].db # Null /\ prov'[q].at = "registered" => dbs'[prov'[q].db].at = "open"
          /\ prov'[q].at = "none" => prov'[q].db = Null /\ prov'[q].rpcs = {}
          /\ prov'[q].class => q \in conf.remi
          /\ prov'[q].at = "deleted" /\ prov'[q].rpcs # {} =>
               ~prov'[q].class /\ q \in conf.destroys
    BY <1>2, <1>3, <1>4, <1>6, <1>8 DEF Placement
  <2>2. \A q, u \in Providers : prov'[q].db # Null /\ prov'[q].db = prov'[u].db => q = u
    BY <1>3, <1>4 DEF Placement
  <2>3. ASSUME NEW e \in Databases, dbs'[e].at = "open"
        PROVE  \E q \in Providers : prov'[q].at = "registered" /\ prov'[q].db = e
    <3>1. e # s /\ dbs[e].at = "open"
      BY <1>2, <2>3
    <3>2. PICK q \in Providers : prov[q].at = "registered" /\ prov[q].db = e
      BY <3>1 DEF Placement
    <3> QED BY <1>3, <3>1, <3>2
  <2> QED BY <2>1, <2>2, <2>3 DEF Placement
<1>10. Migrating'
  <2>0. \A n \in Migrations : mig[n].db # Null => mig[n].db \in Databases
    BY DEF TypeInv, MigrationRec
  <2>1. AllRegistered'
    BY <1>1, <1>3, <1>4 DEF Migrating, AllRegistered
  <2>2. ASSUME NEW n \in Migrations
        PROVE  /\ mig'[n].pc = "start" => mig'[n].db = Null
               /\ mig'[n].pc # "done" => mig'[n].ret = "none"
               /\ mig'[n].db # Null => dbs'[mig'[n].db].at # "none"
               /\ mig'[n].pc \in {"ask"} \cup Active =>
                    /\ mig'[n].db # Null /\ prov'[From(n)].at = "registered"
                    /\ Movable(n) => prov'[From(n)].db = mig'[n].db
               /\ mig'[n].pc \in Active => Reached(prov', n)
               /\ mig'[n].pc \in {"copy", "after", "clear", "delete"} => prov'[Target(n)].class
               /\ mig'[n].pc \in {"copy", "after"} => prov'[Target(n)].db = Null
               /\ mig'[n].pc = "delete" => dbs'[mig'[n].db].migrated
               /\ mig'[n].ret = "OK" => mig'[n].db # Null /\ dbs'[mig'[n].db].at = "deleted"
    <3>1. CASE n # m
      <4>1. /\ mig[n].pc = "start" => mig[n].db = Null
            /\ mig[n].pc # "done" => mig[n].ret = "none"
            /\ mig[n].db # Null => dbs'[mig[n].db].at # "none"
            /\ mig[n].pc = "delete" => dbs'[mig[n].db].migrated
            /\ mig[n].ret = "OK" => mig[n].db # Null /\ dbs'[mig[n].db].at = "deleted"
        BY <1>2, <2>0 DEF Migrating, Active
      <4>2. mig[n].pc \in {"ask"} \cup Active =>
               /\ mig[n].db # Null /\ prov'[From(n)].at = "registered"
               /\ Movable(n) => prov'[From(n)].db = mig[n].db
        <5>1. Movable(n) => From(n) # f
          BY <1>6, <3>1 DEF MigrationsApart, Movable, From, Target, Migrations, f
        <5> QED BY <1>3, <1>4, <1>6, <5>1 DEF Migrating
      <4>3. /\ mig[n].pc \in Active => Reached(prov', n)
            /\ mig[n].pc \in {"copy", "after", "clear", "delete"} => prov'[Target(n)].class
        BY <1>3, <1>4 DEF Migrating, Reached
      <4>4. mig[n].pc \in {"copy", "after"} => prov'[Target(n)].db = Null
        BY <1>3, <1>4 DEF Migrating
      <4> QED BY <1>1, <3>1, <4>1, <4>2, <4>3, <4>4
    <3>2. CASE n = m
      BY <1>1, <1>2, <1>4, <3>2 DEF Active, Locking
    <3> QED BY <3>1, <3>2
  <2> QED BY <2>1, <2>2, Parameters DEF Migrating
<1>11. Locks'
  <2>1. \A n \in Migrations : /\ mig'[n].db = mig[n].db
                              /\ mig'[n].pc \in Locking <=> mig[n].pc \in Locking
                              /\ mig[n].ret = "OK" => mig'[n].ret = "OK"
                              /\ mig[n].pc = "delete" => mig'[n].pc = "delete" \/ mig'[n].ret = "OK"
    BY <1>1 DEF Locking
  <2>2. \A e \in Databases : dbs'[e].lock = dbs[e].lock /\ (dbs'[e].migrated <=> dbs[e].migrated)
    BY <1>2
  <2> QED BY <2>1, <2>2, Parameters DEF Locks
<1> QED BY <1>7, <1>9, <1>10, <1>11

\* Every step of a migration keeps the invariant.
LEMMA MigrateKeeps ==
    ASSUME PInv, MigrationsApart(conf), NEW m \in Migrations, MigrateStep(m)
    PROVE  PInv' /\ UNCHANGED <<conf, req, acked, closed>>
           /\ \/ Walks(m)
              \/ \E s \in Databases :
                    /\ mig[m].db = s
                    /\ \/ TakesLock(m, s) \/ GivesUp(m, s) \/ Releases(m, s) \/ Deletes(m, s)
                       \/ \E d \in Databases : Attaches(m, s, d)
<1>1. UNCHANGED <<conf, req, acked, closed>>
  BY DEF MigrateStep, CheckDatabase, get_remi_provider_id_from_remote, Freeze, FillFileset,
     before_migration_cb, CopyFiles, after_migration_cb, Release, DeleteSource
<1>2. CASE CheckDatabase(m)
  BY <1>1, <1>2, CheckKind, WalksKeeps DEF PInv
<1>3. CASE ~CheckDatabase(m)
  <2>1. mig[m].pc \in {"ask"} \cup Active
    BY <1>3 DEF MigrateStep, get_remi_provider_id_from_remote, Freeze, FillFileset,
       before_migration_cb, CopyFiles, after_migration_cb, Release, DeleteSource, Active, Locking
  <2>2. PICK s \in Databases : mig[m].db = s
    BY <2>1 DEF PInv, TypeInv, MigrationRec, Migrating
  <2>3. mig[m].pc = "delete" => prov[From(m)].db = s
    BY <2>2, ActiveAlone DEF Active
  <2>4. Walks(m) \/ TakesLock(m, s) \/ GivesUp(m, s) \/ Releases(m, s) \/ Deletes(m, s)
        \/ \E d \in Databases : Attaches(m, s, d)
    BY <1>3, <2>2, <2>3, MigrateKinds DEF PInv
  <2> QED BY <1>1, <2>2, <2>4, WalksKeeps, LockStepKeeps, AttachesKeeps, DeletesKeeps
<1> QED BY <1>2, <1>3

\* Nothing is there at the beginning.
LEMMA InitPInv == Init => PInv
<1> SUFFICES ASSUME Init PROVE PInv
  OBVIOUS
<1>1. NoProvider \in ProviderRec
  BY DEF NoProvider, ProviderRec
<1>2. NoDatabase \in DatabaseRec
  BY DEF NoDatabase, DatabaseRec
<1>3. TypeInv
  <2>1. [pc |-> "start", db |-> Null, ret |-> "none", stale |-> FALSE] \in RequestRec
    BY DEF RequestRec
  <2>2. [pc |-> "start", db |-> Null, ret |-> "none"] \in MigrationRec
    BY DEF MigrationRec, MigrationRets
  <2> QED BY <1>1, <1>2, <2>1, <2>2 DEF Init, TypeInv
<1>4. Placement
  BY DEF Init, Placement, NoProvider, NoDatabase
<1>5. Migrating
  BY DEF Init, Migrating, Active, Locking
<1>6. Locks
  BY <1>3, SetupTypes DEF Init, Locks, Locking, NoDatabase
<1> QED BY <1>3, <1>4, <1>5, <1>6 DEF PInv

\* Everything that happens keeps the invariant.
LEMMA NextPInv == PInv /\ MigrationsApart(conf) /\ [Next]_vars => PInv' /\ conf' = conf
<1> SUFFICES ASSUME PInv, MigrationsApart(conf), [Next]_vars PROVE PInv' /\ conf' = conf
  OBVIOUS
<1>1. CASE UNCHANGED vars
  BY <1>1 DEF vars, PInv, TypeInv, Placement, Migrating, Locks, Migrations, Requests, Keys,
     DatabaseRec, From, Target, Movable, Reached, MayFail, AllRegistered
<1>2. CASE \E p \in Providers : yk_provider_register(p) \/ yk_finalize_provider(p)
  BY <1>2, RegisterKeeps, FinalizeKeeps, RegisterEffect, FinalizeEffect DEF PInv
<1>3. CASE \E r \in Requests : RequestStep(r)
  BY <1>3, RequestKeeps, RequestEffect DEF PInv
<1>4. CASE \E m \in Migrations : MigrateStep(m)
  BY <1>4, MigrateKeeps
<1> QED BY <1>1, <1>2, <1>3, <1>4 DEF Next

\* What is known of a migration that has returned.
LEMMA Settled == PInv => MigrationSettled
<1> SUFFICES ASSUME PInv PROVE MigrationSettled
  OBVIOUS
<1> USE DEF PInv
<1>1. \A d \in Attached : d \in Databases /\ dbs[d].at = "open"
  BY DEF Attached, Placement, TypeInv, ProviderRec
<1>2. ASSUME NEW m \in Migrations, mig[m].pc = "done", mig[m].db # Null, ~MayFail("fileset")
      PROVE  IF mig[m].ret = "OK" THEN dbs[mig[m].db].at = "deleted" /\ mig[m].db \notin Attached
             ELSE dbs[mig[m].db].lock # m /\ (dbs[mig[m].db].migrated =>
                     \E n \in Migrations \ {m} : mig[n].db = mig[m].db
                        /\ (mig[n].pc = "delete" \/ mig[n].ret = "OK"))
  <2>1. mig[m].db \in Databases
    BY <1>2 DEF TypeInv, MigrationRec
  <2>2. CASE mig[m].ret = "OK"
    BY <1>1, <1>2, <2>2 DEF Migrating
  <2>3. CASE mig[m].ret # "OK"
    <3>1. dbs[mig[m].db].lock # m
      BY <1>2, <2>1 DEF Locks, Locking
    <3>2. dbs[mig[m].db].migrated => \E n \in Migrations : mig[n].db = mig[m].db
                        /\ (mig[n].pc = "delete" \/ mig[n].ret = "OK")
      BY <1>2, <2>1 DEF Locks
    <3> QED BY <1>2, <2>3, <3>1, <3>2
  <2> QED BY <2>2, <2>3
<1> QED BY <1>2 DEF MigrationSettled

\* The migrations of every setup keep apart.
LEMMA PInvAlways ==
    ASSUME \A c \in Setups : MigrationsApart(c)
    PROVE  Spec => []PInv
<1>1. PInv => MigrationsApart(conf)
  BY DEF PInv, TypeInv
<1> QED BY <1>1, InitPInv, NextPInv, PTL DEF Spec

\* A migration that returned has settled: after a success the provider is
\* without the database, which is deleted; after an error (but for one of the
\* fileset) the database is free of it and refuses only what another one moved.
THEOREM MigrationsSettle ==
    ASSUME \A c \in Setups : MigrationsApart(c)
    PROVE  Spec => []MigrationSettled
BY PInvAlways, Settled, PTL

-----------------------------------------------------------------------------
(* Acknowledged writes *)

\* Attached are the databases that are open.
LEMMA AttachedOpen ==
    ASSUME PInv PROVE Attached = {d \in Databases : dbs[d].at = "open"}
<1> USE DEF PInv
<1>1. \A d \in Attached : d \in Databases /\ dbs[d].at = "open"
  BY DEF Attached, Placement, TypeInv, ProviderRec
<1>2. \A d \in Databases : dbs[d].at = "open" => d \in Attached
  BY SetupTypes DEF Attached, Placement
<1> QED BY <1>1, <1>2

\* A source whose copy serves does not.
LEMMA MovedServesNot ==
    ASSUME PInv, NEW d \in Databases, Moved(d) PROVE ~Serves(d)
<1> USE DEF PInv
<1>1. PICK m \in Migrations : mig[m].db = d /\ mig[m].pc \in {"clear", "delete"}
  BY DEF Moved
<1>2. CASE mig[m].pc = "clear"
  BY <1>1, <1>2, SetupTypes DEF Locks, Locking, Serves
<1>3. CASE mig[m].pc = "delete"
  BY <1>1, <1>3 DEF Migrating, Serves
<1> QED BY <1>1, <1>2, <1>3

\* What a step of a migration does to the databases that wait to be deleted:
\* nothing but for the two that attach the copy and delete the source, and that
\* their handle erases what they have.
LEMMA MovedKept ==
    ASSUME PInv, NEW m \in Migrations, conf' = conf, NEW s \in Databases,
           Walks(m) \/ (mig[m].db = s /\ (TakesLock(m, s) \/ GivesUp(m, s) \/ Releases(m, s)))
    PROVE  /\ \A d \in Databases : Moved(d)' <=> Moved(d)
           /\ \A d \in Databases : dbs'[d].at = dbs[d].at /\ dbs'[d].keys \subseteq dbs[d].keys
           /\ \A d \in Databases : dbs'[d].keys # dbs[d].keys => Moved(d) \/ MayFail("fileset")
<1>1. \A n \in Migrations : n # m => mig'[n] = mig[n]
  BY DEF Walks, TakesLock, GivesUp, Releases, MigrationTo
<1>2. \A d \in Databases : (mig'[m].db = d /\ mig'[m].pc \in {"clear", "delete"})
                       <=> (mig[m].db = d /\ mig[m].pc \in {"clear", "delete"})
  BY DEF Walks, TakesLock, GivesUp, Releases, MigrationTo
<1>3. \A d \in Databases : dbs'[d].at = dbs[d].at /\ dbs'[d].keys \subseteq dbs[d].keys
  BY DEF Walks, TakesLock, GivesUp, Releases, DatabaseTo
<1>5. \A d \in Databases : dbs'[d].keys # dbs[d].keys => Moved(d) \/ MayFail("fileset")
  BY DEF Walks, TakesLock, GivesUp, Releases, DatabaseTo, Moved
<1>4. \A d \in Databases : Moved(d)' <=> Moved(d)
  <2> SUFFICES ASSUME NEW d \in Databases PROVE Moved(d)' <=> Moved(d)
    OBVIOUS
  <2>1. \A n \in Migrations : (mig'[n].db = d /\ mig'[n].pc \in {"clear", "delete"})
                       <=> (mig[n].db = d /\ mig[n].pc \in {"clear", "delete"})
    BY <1>1, <1>2
  <2> QED BY <2>1, Parameters DEF Moved
<1> QED BY <1>3, <1>4, <1>5

\* The copy: the source is moved, and nothing is moved that was not.
LEMMA MovedByAttach ==
    ASSUME PInv, MigrationsApart(conf), NEW m \in Migrations, NEW s \in Databases, mig[m].db = s,
           NEW d \in Databases, Attaches(m, s, d), conf' = conf
    PROVE  /\ s # d /\ ~Moved(s) /\ dbs[s].at = "open" /\ dbs[d].at = "none"
           /\ Moved(s)' /\ ~Moved(d)'
           /\ \A e \in Databases : e # s => (Moved(e)' <=> Moved(e))
           /\ dbs'[d].at = "open" /\ dbs'[d].keys = dbs[s].keys
           /\ \A e \in Databases : e # d => dbs'[e] = dbs[e]
<1> USE DEF PInv
<1>1. mig[m].pc = "after" /\ dbs[d].at = "none" /\ mig'[m].db = s /\ mig'[m].pc = "clear"
      /\ \A n \in Migrations : n # m => mig'[n] = mig[n]
  BY DEF Attaches, MigrationTo
<1>2. dbs'[d].at = "open" /\ dbs'[d].keys = dbs[s].keys
      /\ \A e \in Databases : e # d => dbs'[e] = dbs[e]
  BY DEF Attaches, DatabaseTo
<1>3. mig[m].pc \in Active
  BY <1>1 DEF Active, Locking
<1>4. dbs[s].at = "open" /\ ~Moved(s)
  BY <1>1, <1>3, ActiveAlone DEF Moved, Active, Locking
<1>5. \A n \in Migrations : mig[n].db # d
  BY <1>1, SetupTypes DEF Migrating
<1>6. ASSUME NEW e \in Databases, e # s PROVE Moved(e)' <=> Moved(e)
  <2>1. \A n \in Migrations : (mig'[n].db = e /\ mig'[n].pc \in {"clear", "delete"})
                       <=> (mig[n].db = e /\ mig[n].pc \in {"clear", "delete"})
    BY <1>1, <1>6
  <2> QED BY <2>1, Parameters DEF Moved
<1>7. Moved(s)'
  BY <1>1, Parameters DEF Moved
<1>8. ~Moved(d)
  BY <1>5 DEF Moved
<1> QED BY <1>1, <1>2, <1>4, <1>6, <1>7, <1>8

\* The deletion: the source is neither moved nor open any more.
LEMMA MovedByDelete ==
    ASSUME PInv, NEW m \in Migrations, NEW s \in Databases, mig[m].db = s,
           Deletes(m, s), conf' = conf
    PROVE  /\ Moved(s) /\ dbs'[s].at = "deleted" /\ dbs'[s].keys = dbs[s].keys
           /\ \A e \in Databases : e # s => (Moved(e)' <=> Moved(e)) /\ dbs'[e] = dbs[e]
<1>1. mig[m].pc = "delete" /\ mig'[m].db = s
      /\ \A n \in Migrations : n # m => mig'[n] = mig[n]
  BY DEF Deletes, MigrationTo
<1>2. dbs'[s].at = "deleted" /\ dbs'[s].keys = dbs[s].keys
      /\ \A e \in Databases : e # s => dbs'[e] = dbs[e]
  BY DEF Deletes, DatabaseTo
<1>3. ASSUME NEW e \in Databases, e # s PROVE Moved(e)' <=> Moved(e)
  <2>1. \A n \in Migrations : (mig'[n].db = e /\ mig'[n].pc \in {"clear", "delete"})
                       <=> (mig[n].db = e /\ mig[n].pc \in {"clear", "delete"})
    BY <1>1, <1>3
  <2> QED BY <2>1, Parameters DEF Moved
<1> QED BY <1>1, <1>2, <1>3 DEF Moved

\* Without a step of a migration.
LEMMA MovedElse ==
    ASSUME conf' = conf, mig' = mig PROVE \A e : Moved(e)' <=> Moved(e)
BY Parameters DEF Moved

\* What is acknowledged or stored stays: a write reaches a database that serves,
\* a copy takes over what its source has before that is deleted.
LEMMA NextKept ==
    PInv /\ Kept /\ MigrationsApart(conf) /\ ~MayFail("fileset") /\ [Next]_vars => Kept'
<1> SUFFICES ASSUME PInv, Kept, MigrationsApart(conf), ~MayFail("fileset"), [Next]_vars
             PROVE  Kept'
  OBVIOUS
<1>1. CASE UNCHANGED vars
  <2>1. (\A e : Moved(e)' <=> Moved(e)) /\ dbs' = dbs /\ acked' = acked /\ closed' = closed
    BY <1>1, MovedElse DEF vars
  <2> QED BY <2>1 DEF Kept
<1>2. ASSUME NEW p \in Providers, yk_provider_register(p) PROVE Kept'
  <2>1. (\A e : Moved(e)' <=> Moved(e)) /\ acked' = acked /\ closed' = closed
    BY <1>2, RegisterEffect, MovedElse DEF PInv
  <2>2. \A d \in Databases : /\ dbs'[d].keys = dbs[d].keys
                             /\ dbs[d].at = "open" => dbs'[d].at = "open"
                             /\ dbs'[d].at = "open" => dbs[d].at = "open" \/ dbs'[d].keys = {}
    <3>1. \/ dbs' = dbs
          \/ \E d \in Databases : dbs[d].at = "none" /\ DatabaseTo(d, "open", Null, FALSE, {})
      BY <1>2, RegisterEffect DEF PInv
    <3>2. \A d \in Databases : dbs[d].at = "none" => dbs[d].keys = {}
      BY DEF PInv, TypeInv, NoDatabase
    <3> QED BY <3>1, <3>2 DEF DatabaseTo
  <2> QED BY <2>1, <2>2 DEF Kept
<1>3. ASSUME NEW p \in Providers, yk_finalize_provider(p) PROVE Kept'
  <2>1. (\A e : Moved(e)' <=> Moved(e)) /\ acked' = acked
    BY <1>3, FinalizeEffect, MovedElse DEF PInv
  <2>2. CASE dbs' = dbs /\ closed' = closed
    BY <2>1, <2>2 DEF Kept
  <2>3. CASE ~(dbs' = dbs /\ closed' = closed)
    <3>1. PICK s \in Databases :
             /\ closed' = closed \cup dbs[s].keys
             /\ DatabaseTo(s, "deleted", dbs[s].lock, dbs[s].migrated, dbs[s].keys)
      BY <1>3, <2>3, FinalizeEffect DEF PInv
    <3>2. dbs'[s].at = "deleted" /\ \A e \in Databases : e # s => dbs'[e] = dbs[e]
      BY <3>1 DEF DatabaseTo
    <3> QED BY <2>1, <3>1, <3>2 DEF Kept
  <2> QED BY <2>2, <2>3
<1>4. ASSUME NEW r \in Requests, RequestStep(r) PROVE Kept'
  <2>1. (\A e : Moved(e)' <=> Moved(e)) /\ closed' = closed
    BY <1>4, RequestEffect, MovedElse DEF PInv
  <2>2. CASE dbs' = dbs /\ acked' = acked
    BY <2>1, <2>2 DEF Kept
  <2>3. CASE ~(dbs' = dbs /\ acked' = acked)
    <3> DEFINE k == conf.requests[r].key
    <3>1. PICK d \in Databases :
             /\ Serves(d) /\ acked' = acked \cup {k}
             /\ DatabaseTo(d, "open", dbs[d].lock, dbs[d].migrated, dbs[d].keys \cup {k})
      BY <1>4, <2>3, RequestEffect DEF PInv
    <3> HIDE DEF k
    <3>2. dbs[d].at = "open" /\ ~Moved(d)
      BY <3>1, MovedServesNot DEF Serves
    <3>3. dbs'[d].at = "open" /\ dbs'[d].keys = dbs[d].keys \cup {k}
          /\ \A e \in Databases : e # d => dbs'[e] = dbs[e]
      BY <3>1 DEF DatabaseTo
    <3> QED BY <2>1, <3>1, <3>2, <3>3 DEF Kept
  <2> QED BY <2>2, <2>3
<1>5. ASSUME NEW m \in Migrations, MigrateStep(m) PROVE Kept'
  <2>1. conf' = conf /\ acked' = acked /\ closed' = closed
    BY <1>5, MigrateKeeps
  <2>2. ASSUME NEW s \in Databases,
               Walks(m) \/ (mig[m].db = s /\ (TakesLock(m, s) \/ GivesUp(m, s) \/ Releases(m, s)))
        PROVE  Kept'
    <3>1. /\ \A d \in Databases : Moved(d)' <=> Moved(d)
          /\ \A d \in Databases : dbs'[d].at = dbs[d].at /\ dbs'[d].keys \subseteq dbs[d].keys
          /\ \A d \in Databases : ~Moved(d) => dbs'[d].keys = dbs[d].keys
      BY <2>1, <2>2, MovedKept
    <3> QED BY <2>1, <3>1 DEF Kept
  <2>3. ASSUME NEW s \in Databases, mig[m].db = s, NEW d \in Databases, Attaches(m, s, d)
        PROVE  Kept'
    <3>1. /\ s # d /\ dbs[s].at = "open" /\ dbs[d].at = "none"
          /\ ~Moved(d)' /\ \A e \in Databases : e # s => (Moved(e)' <=> Moved(e))
          /\ dbs'[d].at = "open" /\ dbs'[d].keys = dbs[s].keys
          /\ \A e \in Databases : e # d => dbs'[e] = dbs[e]
      BY <2>1, <2>3, MovedByAttach
    <3>2. ASSUME NEW k, k \in acked \/ (\E e \in Databases : dbs'[e].at = "open" /\ k \in dbs'[e].keys)
          PROVE  k \in closed \/ \E e \in Databases : dbs'[e].at = "open" /\ k \in dbs'[e].keys
                                                       /\ ~Moved(e)'
      <4>1. k \in acked \/ (\E e \in Databases : dbs[e].at = "open" /\ k \in dbs[e].keys)
        BY <3>1, <3>2
      <4>2. k \in closed \/ \E e \in Databases : dbs[e].at = "open" /\ k \in dbs[e].keys /\ ~Moved(e)
        BY <4>1 DEF Kept
      <4>3. ASSUME NEW e \in Databases, dbs[e].at = "open", k \in dbs[e].keys, ~Moved(e)
            PROVE  \E x \in Databases : dbs'[x].at = "open" /\ k \in dbs'[x].keys /\ ~Moved(x)'
        <5>1. CASE e = s
          BY <3>1, <4>3, <5>1
        <5>2. CASE e # s
          BY <3>1, <4>3, <5>2
        <5> QED BY <5>1, <5>2
      <4> QED BY <4>2, <4>3
    <3> QED BY <2>1, <3>2 DEF Kept
  <2>4. ASSUME NEW s \in Databases, mig[m].db = s, Deletes(m, s) PROVE Kept'
    <3>1. /\ Moved(s) /\ dbs'[s].at = "deleted"
          /\ \A e \in Databases : e # s => (Moved(e)' <=> Moved(e)) /\ dbs'[e] = dbs[e]
      BY <2>1, <2>4, MovedByDelete
    <3> QED BY <2>1, <3>1 DEF Kept
  <2>5. CASE Walks(m)
    <3>1. CASE Databases = {}
      BY <2>1, <2>5, <3>1 DEF Kept
    <3>2. CASE Databases # {}
      BY <2>2, <2>5, <3>2
    <3> QED BY <3>1, <3>2
  <2> QED BY <1>5, <2>2, <2>3, <2>4, <2>5, MigrateKeeps
<1> QED BY <1>1, <1>2, <1>3, <1>4, <1>5 DEF Next

\* A write that was acknowledged is in the database of a provider, or in one
\* that was closed with its provider, at every moment of every migration,
\* whichever of its remote calls fails.  (After an error of the fileset it is not:
\* AckedWritesKept says nothing of setups with it, see MigratedMeansMoved.)
THEOREM WritesSurvive ==
    ASSUME \A c \in Setups : MigrationsApart(c)
    PROVE  Spec => []AckedWritesKept
<1>1. Init => Kept
  BY DEF Init, Kept, NoDatabase
<1>2. PInv => MigrationsApart(conf)
  BY DEF PInv, TypeInv
<1> DEFINE KeptHere == ~MayFail("fileset") => Kept
<1>3. PInv /\ KeptHere => AckedWritesKept
  BY AttachedOpen DEF Kept, AckedWritesKept
<1>4. PInv /\ KeptHere /\ [Next]_vars => KeptHere'
  <2>1. PInv /\ [Next]_vars => (MayFail("fileset")' <=> MayFail("fileset"))
    BY <1>2, NextPInv, Parameters
  <2> QED BY <1>2, <2>1, NextKept
<1>5. Init => KeptHere
  BY <1>1
<1> QED BY <1>3, <1>4, <1>5, PInvAlways, PTL DEF Spec

-----------------------------------------------------------------------------
(* Two databases with the same data *)

\* A write adds a key that is nowhere yet; a copy shares its keys with its
\* source only, or with what was moved before.
LEMMA NextCopies ==
    PInv /\ Copies /\ MigrationsApart(conf) /\ WritesApart(conf) /\ [Next]_vars => Copies'
<1> SUFFICES ASSUME PInv, Copies, MigrationsApart(conf), WritesApart(conf), [Next]_vars
             PROVE  Copies'
  OBVIOUS
<1>0. ASSUME conf' = conf, req' = req, \A d \in Databases : (Moved(d)' <=> Moved(d)),
             \A d \in Databases : /\ dbs'[d].keys \subseteq dbs[d].keys
                                  /\ dbs'[d].at = "open" => dbs[d].at = "open"
      PROVE  Copies'
  BY <1>0, Parameters DEF Copies
<1>1. CASE UNCHANGED vars
  <2>1. (\A e : Moved(e)' <=> Moved(e)) /\ dbs' = dbs /\ req' = req /\ conf' = conf
    BY <1>1, MovedElse DEF vars
  <2> QED BY <1>0, <2>1
<1>2. ASSUME NEW p \in Providers, yk_provider_register(p) PROVE Copies'
  <2>1. (\A e : Moved(e)' <=> Moved(e)) /\ conf' = conf /\ req' = req
    BY <1>2, RegisterEffect, MovedElse DEF PInv
  <2>2. \A d \in Databases : /\ dbs'[d].keys = dbs[d].keys
                             /\ dbs'[d].at = "open" => dbs[d].at = "open" \/ dbs'[d].keys = {}
    <3>1. \/ dbs' = dbs
          \/ \E d \in Databases : dbs[d].at = "none" /\ DatabaseTo(d, "open", Null, FALSE, {})
      BY <1>2, RegisterEffect DEF PInv
    <3>2. \A d \in Databases : dbs[d].at = "none" => dbs[d].keys = {}
      BY DEF PInv, TypeInv, NoDatabase
    <3> QED BY <3>1, <3>2 DEF DatabaseTo
  <2> QED BY <2>1, <2>2, Parameters DEF Copies
<1>3. ASSUME NEW p \in Providers, yk_finalize_provider(p) PROVE Copies'
  <2>1. (\A e : Moved(e)' <=> Moved(e)) /\ conf' = conf /\ req' = req
    BY <1>3, FinalizeEffect, MovedElse DEF PInv
  <2>2. \A d \in Databases :
           dbs'[d].keys = dbs[d].keys /\ (dbs'[d].at = "open" => dbs[d].at = "open")
    BY <1>3, FinalizeEffect DEF PInv, DatabaseTo
  <2> QED BY <1>0, <2>1, <2>2
<1>4. ASSUME NEW r \in Requests, RequestStep(r) PROVE Copies'
  <2>1. (\A e : Moved(e)' <=> Moved(e)) /\ conf' = conf /\ req[r].pc # "done"
        /\ \A s \in Requests : s # r => req'[s] = req[s]
    BY <1>4, RequestEffect, MovedElse DEF PInv
  <2>2. CASE dbs' = dbs
    <3>1. \A s \in Requests : req'[s].pc # "done" => req[s].pc # "done"
      BY <2>1
    <3> QED BY <2>1, <2>2, <3>1, Parameters DEF Copies
  <2>3. CASE dbs' # dbs
    <3> DEFINE k == conf.requests[r].key
    <3>1. PICK d \in Databases :
             /\ conf.requests[r].rpc = "put" /\ req'[r].pc = "done"
             /\ Serves(d)
             /\ DatabaseTo(d, "open", dbs[d].lock, dbs[d].migrated, dbs[d].keys \cup {k})
      BY <1>4, <2>3, RequestEffect DEF PInv
    <3>2. \A e \in Databases : k \notin dbs[e].keys
      BY <2>1, <3>1 DEF Copies
    <3>3. \A s \in Requests : s # r /\ conf.requests[s].rpc = "put" => conf.requests[s].key # k
      BY <3>1 DEF WritesApart, Requests
    <3> HIDE DEF k
    <3>4. dbs[d].at = "open" /\ dbs'[d].at = "open" /\ dbs'[d].keys = dbs[d].keys \cup {k}
          /\ \A e \in Databases : e # d => dbs'[e] = dbs[e]
      BY <3>1 DEF DatabaseTo, Serves
    <3>5. ASSUME NEW s \in Requests, conf.requests[s].rpc = "put", req'[s].pc # "done",
                 NEW e \in Databases
          PROVE  conf.requests[s].key \notin dbs'[e].keys
      BY <2>1, <3>1, <3>3, <3>4, <3>5 DEF Copies
    <3>6. ASSUME NEW e \in Databases, NEW f \in Databases, e # f, dbs'[e].at = "open",
                 dbs'[f].at = "open", NEW j, j \in dbs'[e].keys, j \in dbs'[f].keys
          PROVE  Moved(e) \/ Moved(f)
      <4>1. dbs[e].at = "open" /\ dbs[f].at = "open" /\ j \in dbs[e].keys /\ j \in dbs[f].keys
        BY <3>2, <3>4, <3>6
      <4> QED BY <3>6, <4>1 DEF Copies
    <3> QED BY <2>1, <3>5, <3>6, Parameters DEF Copies
  <2> QED BY <2>2, <2>3
<1>5. ASSUME NEW m \in Migrations, MigrateStep(m) PROVE Copies'
  <2>1. conf' = conf /\ req' = req
    BY <1>5, MigrateKeeps
  <2>2. ASSUME NEW s \in Databases,
               Walks(m) \/ (mig[m].db = s /\ (TakesLock(m, s) \/ GivesUp(m, s) \/ Releases(m, s)))
        PROVE  Copies'
    BY <1>0, <2>1, <2>2, MovedKept
  <2>3. ASSUME NEW s \in Databases, mig[m].db = s, NEW d \in Databases, Attaches(m, s, d)
        PROVE  Copies'
    <3>1. /\ s # d /\ ~Moved(s) /\ dbs[s].at = "open" /\ dbs[d].at = "none"
          /\ Moved(s)' /\ \A e \in Databases : e # s => (Moved(e)' <=> Moved(e))
          /\ dbs'[d].at = "open" /\ dbs'[d].keys = dbs[s].keys
          /\ \A e \in Databases : e # d => dbs'[e] = dbs[e]
      BY <2>1, <2>3, MovedByAttach
    <3>2. \A r \in Requests : conf.requests[r].rpc = "put" /\ req[r].pc # "done" =>
             \A e \in Databases : conf.requests[r].key \notin dbs'[e].keys
      BY <3>1 DEF Copies
    <3>3. ASSUME NEW e \in Databases, e # d, dbs'[e].at = "open",
                 NEW j, j \in dbs'[e].keys, j \in dbs'[d].keys
          PROVE  Moved(e)'
      <4>1. CASE e = s
        BY <3>1, <4>1
      <4>2. CASE e # s
        <5>1. Moved(e) \/ Moved(s)
          BY <3>1, <3>3, <4>2 DEF Copies
        <5> QED BY <3>1, <4>2, <5>1
      <4> QED BY <4>1, <4>2
    <3>4. ASSUME NEW e \in Databases, NEW f \in Databases, e # f, e # d, f # d,
                 dbs'[e].at = "open", dbs'[f].at = "open",
                 NEW j, j \in dbs'[e].keys, j \in dbs'[f].keys
          PROVE  Moved(e)' \/ Moved(f)'
      <4>1. Moved(e) \/ Moved(f)
        BY <3>1, <3>4 DEF Copies
      <4> QED BY <3>1, <4>1
    <3> QED BY <2>1, <3>2, <3>3, <3>4, Parameters DEF Copies
  <2>4. ASSUME NEW s \in Databases, mig[m].db = s, Deletes(m, s) PROVE Copies'
    <3>1. /\ dbs'[s].at = "deleted" /\ dbs'[s].keys = dbs[s].keys
          /\ \A e \in Databases : e # s => (Moved(e)' <=> Moved(e)) /\ dbs'[e] = dbs[e]
      BY <2>1, <2>4, MovedByDelete
    <3> QED BY <2>1, <3>1, Parameters DEF Copies
  <2>5. CASE Walks(m)
    <3>1. CASE Databases = {}
      BY <2>1, <3>1, Parameters DEF Copies
    <3>2. CASE Databases # {}
      BY <2>2, <2>5, <3>2
    <3> QED BY <3>1, <3>2
  <2> QED BY <1>5, <2>2, <2>3, <2>4, <2>5, MigrateKeeps
<1> QED BY <1>1, <1>2, <1>3, <1>4, <1>5 DEF Next

\* When every write has a key of its own, two attached databases that serve
\* requests never have data in common: the source of a migration refuses, or
\* has its requests wait, from the moment its copy can be reached.
THEOREM NeverTwoServe ==
    ASSUME \A c \in Setups : MigrationsApart(c) /\ WritesApart(c)
    PROVE  Spec => []NoSplitBrain
<1>1. Init => Copies
  BY DEF Init, Copies, NoDatabase
<1>2. PInv => MigrationsApart(conf) /\ WritesApart(conf)
  BY DEF PInv, TypeInv
<1>3. PInv /\ Copies => NoSplitBrain
  BY AttachedOpen, MovedServesNot DEF Copies, NoSplitBrain
<1>4. \A c \in Setups : MigrationsApart(c)
  OBVIOUS
<1>5. Spec => []PInv
  BY <1>4, PInvAlways
<1> QED BY <1>1, <1>2, <1>3, <1>5, NextCopies, PTL DEF Spec
====
