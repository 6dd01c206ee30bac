------------------------------ MODULE MCProvider ------------------------------
(***************************************************************************)
(* Instances of Provider: three providers, two requests, two migrations.   *)
(***************************************************************************)
EXTENDS Provider, Sequences

CONSTANTS p, q, s

MCProviders == {p, q, s}
MCDatabases == 1 .. 5

Put(to, key) == [to |-> to, rpc |-> "put", key |-> key, when |-> "before"]
List(to) == [to |-> to, rpc |-> "list_keyvals_direct", key |-> "none",
             when |-> "before"]
Later(r) == [r EXCEPT !.when = "after"]
Move(from, to) == [from |-> from, to |-> to]

Setup(requests, migrations, withDatabase, destroys, faults) ==
    [requests |-> requests, migrations |-> migrations, remi |-> {p, q},
     withDatabase |-> withDatabase, destroys |-> destroys, faults |-> faults]

Faults == {{}, {"ask", "before"}, {"handle", "copy"}, {"after"}}

\* There and back again, also with both ways at once and a target that is
\* busy, without REMI, or itself.
Moves == {<<Move(p, q)>>, <<Move(p, q), Move(q, p)>>, <<Move(p, s), Move(q, p)>>,
          <<Move(p, p)>>, <<Move(p, q), Move(p, s)>>}

\* Two migrations of the same database delete it twice, two migrations to the
\* same target lose one database: these are left out.
PassingSetups ==
    {Setup(<<Put(p, "k1"), Put(q, "k2"), Put(p, "k3")>>, ms, with, {}, f) :
        ms \in Moves, with \in {{p}, {p, q}}, f \in Faults}
    \cup {Setup(<<Put(p, "k1"), List(q), Later(Put(q, "k3"))>>, ms, {p, q}, ds, {}) :
        ms \in {<<>>, <<Move(p, q)>>}, ds \in {{q}, {p, q}}}
    \cup {Setup(<<Put(p, "k1"), Put(q, "k2")>>, <<Move(p, q)>>, {p}, {}, f) :
        f \in {{"fileset"}, {"register"}}}

\* A request for an RPC that stayed registered, where NothingStale does not
\* hold (README).
DestroySetup == {Setup(<<Later(List(q))>>, <<>>, {p, q}, {q}, {})}

\* An error of the fileset, which erases the source.
FilesetSetups == {Setup(<<Put(p, "k1"), List(p)>>, <<Move(p, q)>>, {p}, {}, {"fileset"})}

\* Two databases for one target.
RaceSetup == {Setup(<<Put(p, "k1"), Put(q, "k2")>>, <<Move(p, s), Move(q, s)>>,
                    {p, q}, {}, {})}
RaceSetups == {[c EXCEPT !.remi = {s}] : c \in RaceSetup}
=============================================================================
