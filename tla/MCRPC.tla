-------------------------------- MODULE MCRPC --------------------------------
(***************************************************************************)
(* Instances of RPC: two clients.  Every function of the client library is *)
(* called next to another one, with each cache and each kind of failure;   *)
(* every flaw of the arguments is tried with the functions that meet it.   *)
(***************************************************************************)
EXTENDS RPC

CONSTANTS a, b

MCClients == {a, b}

Of(f, bad, size, one, absent) ==
    [fn |-> f, bad |-> bad, size |-> size, one |-> one, absent |-> absent]

Good(f, size) == Of(f, "none", size, FALSE, FALSE)
Bad(f, what) == Of(f, what, 1, FALSE, FALSE)

Cache(kind, capacity, margin) ==
    [kind |-> kind, capacity |-> capacity, margin |-> margin]

Setup(ca, cb, cache, faults, attached) ==
    [calls |-> (a :> ca @@ b :> cb), cache |-> cache, faults |-> faults,
     attached |-> attached]

\* All functions that use RDMA, and all that do not.
Over_RDMA == <<
    yk_put_packed(TRUE), yk_get_packed(TRUE), yk_erase_packed(TRUE),
    yk_exists_packed(TRUE), yk_list_keys_packed(TRUE), yk_put_multi(TRUE),
    yk_length_packed(TRUE), yk_doc_store_packed(TRUE), yk_get_multi,
    yk_doc_load_packed(TRUE), yk_list_keyvals_packed(TRUE),
    yk_doc_update_packed(TRUE), yk_exists_multi(TRUE), yk_doc_list_packed(TRUE),
    yk_list_keys, yk_length_multi(TRUE), yk_doc_load_multi, yk_list_keyvals,
    yk_doc_list, yk_erase_multi(TRUE), yk_put_bulk, yk_get_bulk(TRUE),
    yk_list_keys_bulk(FALSE), yk_doc_store_multi(TRUE), yk_get_bulk(FALSE),
    yk_erase_bulk, yk_length_bulk, yk_doc_update_multi(TRUE), yk_exists_bulk,
    yk_doc_list_bulk(TRUE), yk_doc_load_bulk(FALSE), yk_list_keyvals_bulk(TRUE),
    yk_doc_store_bulk, yk_get(TRUE), yk_doc_update_bulk, yk_length(TRUE),
    yk_doc_load(TRUE)>>

Without_RDMA == <<
    yk_put_packed(FALSE), yk_get_packed(FALSE), yk_erase_packed(FALSE),
    yk_exists_packed(FALSE), yk_length_packed(FALSE), yk_list_keys_packed(FALSE),
    yk_list_keyvals_packed(FALSE), yk_doc_store_packed(FALSE),
    yk_doc_update_packed(FALSE), yk_doc_load_packed(FALSE),
    yk_doc_list_packed(FALSE), yk_doc_length_multi, yk_doc_erase_multi, yk_count,
    yk_collection_create, yk_collection_drop, yk_collection_exists,
    yk_collection_last_id, yk_collection_size, yk_doc_length, yk_get(FALSE)>>

Lru == Cache("lru", 1, 0)
Caches == <<Lru, Cache("keep_all", 0, 1), Cache("default", 0, 0), Cache("lru", 0, 1)>>

\* A push that fails while another one is under way is left out: the handlers
\* of get and doc_load then release the buffer the other one reads from.
PushesOnce(f) == \A p \in DOMAIN f.rpc.steps : f.rpc.steps[p].do # "ipush"

Faults == <<{"pull", "push"}, {}, {"call", "ipush"}, {"respond", "origin"}, {"output"}>>

FaultsFor(i, f, g) ==
    LET fs == Faults[1 + (i % Len(Faults))]
    IN  IF PushesOnce(f) /\ PushesOnce(g) THEN fs ELSE fs \ {"push"}

\* Function i of the list next to its neighbour.
Neighbours ==
    {LET f == Over_RDMA[i]
         g == Over_RDMA[1 + (i % Len(Over_RDMA))]
     IN  Setup(<<Good(f, 1)>>, <<Good(g, 1 + (i % 2))>>,
               Caches[1 + (i % Len(Caches))], FaultsFor(i, f, g), TRUE)
        : i \in DOMAIN Over_RDMA}

\* One client alone: flaws of the request, no database, no memory.
Alone(call, faults, attached) == Setup(<<call>>, <<>>, Lru, faults, attached)

\* Functions without RDMA share nothing with the others but the provider.
Mixed ==
    {Setup(<<Good(f, 1)>>, <<Good(yk_get_multi, 1)>>, Lru, {"forward", "input"}, TRUE)
        : f \in {yk_put_direct, yk_doc_list_direct}}
    \cup {Alone(Good(Without_RDMA[i], 1), {"forward", "input", "call", "output"}, TRUE)
        : i \in DOMAIN Without_RDMA}

KeyFunctions == {yk_put_packed(TRUE), yk_put_multi(TRUE), yk_put_bulk,
                 yk_put_direct, yk_erase_multi(TRUE), yk_erase_direct,
                 yk_get(TRUE), yk_get_multi, yk_get_bulk(FALSE), yk_get_direct,
                 yk_exists_bulk, yk_exists_direct, yk_length_packed(TRUE),
                 yk_length_direct}
ListFunctions == {yk_list_keys, yk_list_keys_direct, yk_list_keyvals_packed(TRUE),
                  yk_list_keyvals_direct, yk_doc_list, yk_doc_list_direct}
BulkFunctions == {yk_put_bulk, yk_erase_bulk, yk_get_bulk(TRUE),
                  yk_exists_bulk, yk_length_bulk, yk_doc_store_bulk,
                  yk_doc_update_bulk}
AnyFunctions == KeyFunctions \cup ListFunctions \cup {yk_count, yk_doc_update_multi(TRUE)}

Flawed ==
    {Alone(Bad(f, "empty"), {}, TRUE) : f \in KeyFunctions}
    \cup {Alone(Bad(f, "filter"), {}, TRUE) : f \in ListFunctions}
    \cup {Alone(Bad(f, "short"), {}, TRUE) : f \in BulkFunctions}
    \cup {Alone(Bad(f, w), {}, TRUE) :
            f \in AnyFunctions \ {yk_put_bulk, yk_get_bulk(FALSE), yk_exists_bulk, yk_count},
            w \in {"nothing", "missing"}}
    \cup {Alone(Bad(f, w), {}, TRUE) : f \in AnyFunctions,
                                       w \in {"modes", "unsupported"}}
    \cup {Alone(Of(yk_put_bulk, "nothing", 0, FALSE, FALSE), {}, TRUE)}

Starved ==
    {Alone(Good(f, 1), {"buffer", "expose", "create"}, TRUE) : f \in AnyFunctions}
    \cup {Alone(Good(f, 1), {}, FALSE) : f \in AnyFunctions \ {yk_length_direct}}

\* One key that is not there: yk_get_multi with one key is left out.
Missing ==
    {Alone(Of(f, "none", 1, TRUE, TRUE), {}, TRUE) :
        f \in {yk_get(TRUE), yk_get(FALSE), yk_length(TRUE), yk_doc_load(TRUE),
               yk_doc_load_multi, yk_doc_length, yk_get_packed(TRUE)}}
    \cup {Alone(Of(yk_get_multi, "none", 1, FALSE, TRUE), {}, TRUE)}

\* Each client calls twice: buffers go around.
Twice ==
    {Setup(<<Good(yk_get_multi, 1), Good(yk_put_packed(TRUE), 2)>>,
           <<Good(yk_list_keys_packed(TRUE), 2), Good(yk_exists_packed(TRUE), 1)>>,
           k, {}, TRUE) : k \in {Cache("lru", 1, 1), Cache("keep_all", 0, 0)}}

PassingSetups == Neighbours \cup Mixed \cup Flawed \cup Starved \cup Missing \cup Twice

\* yk_get_multi for one key that is not there, where AnswersArrive does not
\* hold (README).
GetOneSetup == {Alone(Of(yk_get_multi, "none", 1, TRUE, TRUE), {}, TRUE)}
=============================================================================
