--------------------------- MODULE ClientFunctions ---------------------------
(***************************************************************************)
(* The functions of the client library (src/src/client) that make one      *)
(* request: which memory of the caller they expose and in which order, or  *)
(* what they send, and which flaws of the arguments they catch.  "rdma" is *)
(* FALSE when the mode contains YOKAN_MODE_NO_RDMA.                        *)
(*                                                                         *)
(* What may be wrong with a call:                                          *)
(*   "nothing"  a count of 0      "missing"  a null pointer                *)
(*   "empty"    one key of several is empty                                *)
(*   "short"    the exposed memory is shorter than the sizes in it say     *)
(*   "filter"   the filter is not one                                      *)
(*   "modes"    incompatible modes                                         *)
(*   "unsupported"  a mode the database does not have                      *)
(***************************************************************************)
EXTENDS Handlers

\* The steps of a function that exposes memory: it does so before it looks
\* at the mode, and what it exposed is freed when it returns.
Exposing(rpc, layout, access, sends, gets, packed, args) ==
    [rpc |-> rpc, layout |-> layout, access |-> access, sends |-> sends,
     gets |-> gets, packed |-> packed, args |-> args, single |-> FALSE,
     steps |-> <<"args", "expose", "mode", "create", "forward", "output">>]

\* A function that sends everything and receives everything.
Sending(rpc, sends, gets, args) ==
    [rpc |-> rpc, layout |-> <<>>, access |-> "none", sends |-> sends,
     gets |-> gets, packed |-> TRUE, args |-> args, single |-> FALSE,
     steps |-> <<"args", "mode", "create", "forward", "output">>]

\* The caller of an X_bulk function exposes memory of its own, before, and
\* keeps it exposed until the call is over.
OwnBulk(f, args) == [f EXCEPT !.args = args]

\* A function for one key or document: the size that says "not found"
\* becomes a return value.
Single(f, args) == [f EXCEPT !.args = @ \cup args, !.single = TRUE]

Usual == {"nothing", "missing"}
PutLayout == <<"ksizes", "vsizes", "keys", "vals">>

-----------------------------------------------------------------------------
yk_put_direct ==
    Sending(yk_put_direct_ult, {"ksizes", "vsizes", "keys", "vals"}, {}, Usual)

yk_put_packed(rdma) ==
    IF rdma THEN Exposing(yk_put_ult, PutLayout, "readonly", {}, {}, TRUE, Usual)
    ELSE yk_put_direct

\* With several keys they are copied into one buffer for yk_put_direct.
yk_put_multi(rdma) ==
    IF rdma THEN Exposing(yk_put_ult, PutLayout, "readonly", {}, {}, TRUE,
                          Usual \cup {"empty"})
    ELSE yk_put_direct

yk_put_bulk == OwnBulk(yk_put_packed(TRUE), {"missing"})

yk_erase_direct == Sending(yk_erase_direct_ult, {"ksizes", "keys"}, {}, Usual)

yk_erase_packed(rdma) ==
    IF rdma THEN Exposing(yk_erase_ult, <<"ksizes", "keys">>, "readonly", {}, {},
                          TRUE, Usual)
    ELSE yk_erase_direct

yk_erase_multi(rdma) ==
    IF rdma THEN [yk_erase_packed(TRUE) EXCEPT !.args = Usual \cup {"empty"}]
    ELSE yk_erase_direct

yk_erase_bulk == OwnBulk(yk_erase_packed(TRUE), {"missing"})

-----------------------------------------------------------------------------
yk_get_direct ==
    Sending(yk_get_direct_ult, {"ksizes", "keys"}, {"vsizes", "vals"}, Usual)

yk_get_packed(rdma) ==
    IF rdma THEN Exposing(yk_get_ult, PutLayout, "readwrite", {},
                          {"vsizes", "vals"}, TRUE, Usual)
    ELSE yk_get_direct

\* Does not look at YOKAN_MODE_NO_RDMA.
yk_get_multi ==
    Exposing(yk_get_ult, PutLayout, "readwrite", {}, {"vsizes", "vals"}, FALSE,
             Usual \cup {"empty"})

yk_get_bulk(packed) ==
    [OwnBulk(yk_get_packed(TRUE), {"missing"}) EXCEPT !.packed = packed]

yk_get(rdma) == Single(yk_get_packed(rdma), {"empty"})

yk_exists_direct ==
    Sending(yk_exists_direct_ult, {"ksizes", "keys"}, {"flags"}, Usual)

yk_exists_packed(rdma) ==
    IF rdma THEN Exposing(yk_exists_ult, <<"ksizes", "keys", "flags">>,
                          "readwrite", {}, {"flags"}, TRUE, Usual)
    ELSE yk_exists_direct

yk_exists_multi(rdma) ==
    IF rdma THEN [yk_exists_packed(TRUE) EXCEPT !.args = Usual \cup {"empty"}]
    ELSE yk_exists_direct

yk_exists_bulk == OwnBulk(yk_exists_packed(TRUE), {"missing"})

yk_length_direct ==
    Sending(yk_length_direct_ult, {"ksizes", "keys"}, {"vsizes"}, Usual)

yk_length_packed(rdma) ==
    IF rdma THEN Exposing(yk_length_ult, <<"ksizes", "keys", "vsizes">>,
                          "readwrite", {}, {"vsizes"}, TRUE, Usual)
    ELSE yk_length_direct

yk_length_multi(rdma) ==
    IF rdma THEN [yk_length_packed(TRUE) EXCEPT !.args = Usual \cup {"empty"}]
    ELSE yk_length_direct

yk_length_bulk == OwnBulk(yk_length_packed(TRUE), {"missing"})

yk_length(rdma) == Single(yk_length_packed(rdma), {"empty"})

-----------------------------------------------------------------------------
\* Listings.  The functions that take one buffer per key ignore
\* YOKAN_MODE_NO_RDMA and refuse an empty buffer for a key.

yk_list_keys_direct ==
    Sending(yk_list_keys_direct_ult, {"from", "filter"}, {"ksizes", "keys"}, Usual)

yk_list_keys_packed(rdma) ==
    IF rdma THEN Exposing(yk_list_keys_ult, <<"from", "filter", "ksizes", "keys">>,
                          "readwrite", {}, {"ksizes", "keys"}, TRUE, Usual)
    ELSE yk_list_keys_direct

yk_list_keys ==
    [yk_list_keys_packed(TRUE) EXCEPT !.packed = FALSE,
                                      !.args = Usual \cup {"empty"}]

yk_list_keys_bulk(packed) ==
    [OwnBulk(yk_list_keys_packed(TRUE), {"nothing"}) EXCEPT !.packed = packed]

ListedPairs == {"ksizes", "vsizes", "keys", "vals"}

yk_list_keyvals_direct ==
    Sending(yk_list_keyvals_direct_ult, {"from", "filter"}, ListedPairs, Usual)

yk_list_keyvals_packed(rdma) ==
    IF rdma THEN Exposing(yk_list_keyvals_ult,
                          <<"from", "filter", "ksizes", "vsizes", "keys", "vals">>,
                          "readwrite", {}, ListedPairs, TRUE, Usual)
    ELSE yk_list_keyvals_direct

yk_list_keyvals == [yk_list_keyvals_packed(TRUE) EXCEPT !.packed = FALSE]

yk_list_keyvals_bulk(packed) ==
    [OwnBulk(yk_list_keyvals_packed(TRUE), {"nothing"}) EXCEPT !.packed = packed]

-----------------------------------------------------------------------------
\* Collections.

\* The only function that sends a request without looking at the mode.
yk_doc_store_direct ==
    [Sending(yk_doc_store_direct_ult, {"name", "sizes", "docs"}, {"ids"}, Usual)
        EXCEPT !.steps = <<"args", "create", "forward", "output">>]

yk_doc_store_packed(rdma) ==
    IF rdma THEN Exposing(yk_doc_store_ult, <<"sizes", "docs">>, "readonly",
                          {"name"}, {"ids"}, TRUE, Usual)
    ELSE yk_doc_store_direct

yk_doc_store_multi(rdma) == yk_doc_store_packed(rdma)

yk_doc_store_bulk == OwnBulk(yk_doc_store_packed(TRUE), {})

yk_doc_update_direct ==
    Sending(yk_doc_update_direct_ult, {"name", "ids", "sizes", "docs"}, {}, Usual)

yk_doc_update_packed(rdma) ==
    IF rdma THEN Exposing(yk_doc_update_ult, <<"sizes", "docs">>, "readonly",
                          {"name", "ids"}, {}, TRUE, Usual)
    ELSE yk_doc_update_direct

yk_doc_update_multi(rdma) == yk_doc_update_packed(rdma)

yk_doc_update_bulk == OwnBulk(yk_doc_update_packed(TRUE), {})

yk_doc_load_direct ==
    Sending(yk_doc_load_direct_ult, {"name", "ids"}, {"sizes", "docs"}, Usual)

yk_doc_load_packed(rdma) ==
    IF rdma THEN Exposing(yk_doc_load_ult, <<"sizes", "docs">>, "readwrite",
                          {"name", "ids"}, {"sizes", "docs"}, TRUE, Usual)
    ELSE yk_doc_load_direct

\* Does not look at YOKAN_MODE_NO_RDMA.
yk_doc_load_multi == [yk_doc_load_packed(TRUE) EXCEPT !.packed = FALSE]

yk_doc_load_bulk(packed) ==
    [OwnBulk(yk_doc_load_packed(TRUE), {}) EXCEPT !.packed = packed]

yk_doc_load(rdma) == Single(yk_doc_load_packed(rdma), {})

yk_doc_list_direct ==
    Sending(yk_doc_list_direct_ult, {"name", "filter"}, {"sizes", "ids", "docs"},
            Usual)

yk_doc_list_packed(rdma) ==
    IF rdma THEN Exposing(yk_doc_list_ult, <<"filter", "sizes", "ids", "docs">>,
                          "readwrite", {"name"}, {"sizes", "ids", "docs"}, TRUE,
                          Usual)
    ELSE yk_doc_list_direct

yk_doc_list == [yk_doc_list_packed(TRUE) EXCEPT !.packed = FALSE]

yk_doc_list_bulk(packed) ==
    [OwnBulk(yk_doc_list_packed(TRUE), {"nothing"}) EXCEPT !.packed = packed]

yk_doc_length_multi == Sending(yk_doc_length_ult, {"name", "ids"}, {"sizes"}, Usual)

yk_doc_length == Single(yk_doc_length_multi, {})

yk_doc_erase_multi == Sending(yk_doc_erase_ult, {"name", "ids"}, {}, Usual)

yk_count == Sending(yk_count_ult, {}, {"value"}, {})

yk_collection_create == Sending(yk_coll_create_ult, {"name"}, {}, {})

yk_collection_drop == Sending(yk_coll_drop_ult, {"name"}, {}, {})

yk_collection_exists == Sending(yk_coll_exists_ult, {"name"}, {"value"}, {})

yk_collection_last_id == Sending(yk_coll_last_id_ult, {"name"}, {"value"}, {})

yk_collection_size == Sending(yk_coll_size_ult, {"name"}, {"value"}, {})
=============================================================================
