----------------------------- MODULE MCDocuments -----------------------------
(***************************************************************************)
(* Instances of Documents: two threads, up to five requests, documents of  *)
(* one or two words.                                                       *)
(***************************************************************************)
EXTENDS Documents

Op(kind, ids, docs, new, fresh, from, max) ==
    [kind |-> kind, ids |-> ids, docs |-> docs, new |-> new, fresh |-> fresh,
     from |-> from, max |-> max]

Plain(kind) == Op(kind, <<>>, <<>>, FALSE, {}, 0, 0)
create == Plain("create")
again == [create EXCEPT !.from = 1]
migrate == Plain("migrate")
anew == [migrate EXCEPT !.from = 1]
store1 == Op("store", <<>>, <<<<"a">>>>, FALSE, {}, 0, 0)
store2 == Op("store", <<>>, <<<<"b", "b">>, <<"c">>>>, FALSE, {}, 0, 0)
update0 == Op("update", <<0>>, <<<<"d", "d">>>>, FALSE, {}, 0, 0)
update10 == Op("update", <<1, 0>>, <<<<"e">>, <<"e", "f">>>>, FALSE, {}, 0, 0)
new4 == Op("update", <<4>>, <<<<"g">>>>, TRUE, {4}, 0, 0)
beyond == Op("update", <<6>>, <<<<"g">>>>, FALSE, {6}, 0, 0)
erase1 == Op("erase", <<1>>, <<>>, FALSE, {}, 0, 0)
erase5 == Op("erase", <<5>>, <<>>, FALSE, {5}, 0, 0)
load == Op("load", <<0, 1>>, <<>>, FALSE, {0, 1}, 0, 0)
fetch == Op("fetch", <<1>>, <<>>, FALSE, {1}, 0, 0)
size == Op("size", <<0>>, <<>>, FALSE, {}, 0, 0)
list == Op("list", <<>>, <<>>, FALSE, {}, 0, 9)
iter == Op("iter", <<>>, <<>>, FALSE, {}, 1, 1)

Of(backend, sorted, requests, kills, faults) ==
    [backend |-> backend, sorted |-> sorted, requests |-> requests, kills |-> kills,
     faults |-> faults, orderly |-> TRUE,
     nonempty |-> IF backend = "log" THEN {"list", "iter"} ELSE {},
     exclusive |-> {"create", "drop"} \cup (IF backend = "log" THEN {"migrate"} ELSE {})]

Requests ==
    {{create, store1, store2, iter},
     {create, store2, update0, erase1, load}, {create, store1, store2, update10, fetch},
     {create, store1, store2, erase1}, {create, store1, new4, store2},
     {create, again, beyond, Plain("coll_size")}, {create, store1, size, Plain("last_id")},
     {create, store2, erase5, Plain("drop")}, {create, Plain("exists"), Plain("drop")}}

Backends == {<<"mixin", TRUE>>, <<"mixin", FALSE>>, <<"array", TRUE>>, <<"log", TRUE>>}

\* docList of an unsorted backend ends at the first id without a document,
\* be it erased or reserved by a docStore that has not put it yet: it runs
\* with one docStore and without erasures.
PassingSetups ==
    {Of(b[1], b[2], r, b[1] # "array", b[1] = "mixin") : b \in Backends, r \in Requests}
    \cup {Of(b, TRUE, {create, store2, store1, erase1, migrate}, FALSE, FALSE) :
            b \in {"array", "log"}}
    \cup {[Of(b, TRUE, {create, store1, migrate, anew}, FALSE, FALSE) EXCEPT
             !.exclusive = @ \cup {"migrate"}] : b \in {"array", "log"}}
    \cup {Of(b, TRUE, {create, store1, store2, erase1, list}, FALSE, FALSE) :
            b \in {"mixin", "array", "log"}}
    \cup {Of("mixin", FALSE, {create, store1, store2, erase1, iter}, FALSE, FALSE),
          Of("mixin", FALSE, {create, store2, update0, list}, TRUE, FALSE)}

\* An update that may create documents, of one that exists.
UpdateNewSetups ==
    {Of("mixin", TRUE,
        {create, store2, Op("update", <<0>>, <<<<"g">>>>, TRUE, {}, 0, 0), store1},
        FALSE, FALSE)}
=============================================================================
