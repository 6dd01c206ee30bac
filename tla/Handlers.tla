------------------------------ MODULE Handlers ------------------------------
(***************************************************************************)
(* The RPC handlers of a provider (src/src/server), one definition each:   *)
(* the steps of the handler in the order of the code.  Every step may end  *)
(* the handler early; what runs then, in the opposite order, is what DEFER *)
(* has been told so far (module RPC).  The data of a request is a set of   *)
(* named regions; a handler looks for a region at the place its own offset *)
(* arithmetic gives, which is a position in "layout".                      *)
(***************************************************************************)
EXTENDS Integers, Sequences

\* A step: what is done, the regions it is about, the regions that are added
\* when the request is not packed, and the regions the database fills.
Step(do, regions, more, fills) ==
    [do |-> do, regions |-> regions, more |-> more, fills |-> fills]

Plain(do) == Step(do, {}, {}, {})

Pull(regions, more) == Step("pull", regions, more, {})    \* margo_bulk_transfer
Check(regions) == Step("check", regions, {}, {})          \* sizes against in.size
CheckSizes(regions, more) == Step("check", regions, more, {})
Call(regions, more, fills) == Step("call", regions, more, fills)
IPush(regions) == Step("ipush", regions, {}, {})          \* margo_bulk_itransfer
Push(regions) == Step("push", regions, {}, {})
Output(regions) == Step("output", regions, {}, {})        \* fields of out

\* CHECK_DATABASE and CHECK_MODE_SUPPORTED.
Attached == <<Plain("database"), Plain("mode")>>

\* margo_get_input, the address of the origin, a buffer of the bulk cache.
Opening == <<Plain("input"), Plain("origin")>> \o Attached \o <<Plain("buffer")>>

Rdma(layout, buffer, steps) ==
    [layout |-> layout, buffer |-> buffer, steps |-> steps]

\* A handler that finds everything in its input.
Direct(steps) == Rdma(<<>>, "readwrite", <<Plain("input")>> \o steps)

-----------------------------------------------------------------------------
\* Key/value operations over RDMA.

\* Mutant: the sizes are believed.
yk_put_ult_unchecked ==
    Rdma(<<"ksizes", "vsizes", "keys", "vals">>, "readwrite",
         Opening \o <<Pull({"ksizes", "vsizes", "keys", "vals"}, {}),
                      Call({"ksizes", "vsizes", "keys", "vals"}, {}, {})>>)

yk_put_ult ==
    Rdma(<<"ksizes", "vsizes", "keys", "vals">>, "readwrite",
         Opening \o <<Pull({"ksizes", "vsizes", "keys", "vals"}, {}),
                      Check({"ksizes", "vsizes"}),
                      Call({"ksizes", "vsizes", "keys", "vals"}, {}, {})>>)

yk_erase_ult ==
    Rdma(<<"ksizes", "keys">>, "writeonly",
         Opening \o <<Pull({"ksizes", "keys"}, {}), Check({"ksizes"}),
                      Call({"ksizes", "keys"}, {}, {})>>)

\* Mutants: the sizes of the values are never pulled; nobody waits for the
\* values.
yk_get_ult_packed_only ==
    Rdma(<<"ksizes", "vsizes", "keys", "vals">>, "readwrite",
         Opening \o <<Pull({"ksizes"}, {}), CheckSizes({"ksizes"}, {"vsizes"}),
                      Pull({"keys"}, {}),
                      Call({"ksizes", "keys"}, {"vsizes"}, {"vsizes", "vals"}),
                      IPush({"vals"}), Push({"vsizes"}), Plain("wait")>>)

yk_get_ult_no_wait ==
    Rdma(<<"ksizes", "vsizes", "keys", "vals">>, "readwrite",
         Opening \o <<Pull({"ksizes"}, {"vsizes"}),
                      CheckSizes({"ksizes"}, {"vsizes"}), Pull({"keys"}, {}),
                      Call({"ksizes", "keys"}, {"vsizes"}, {"vsizes", "vals"}),
                      IPush({"vals"}), Push({"vsizes"})>>)

\* The sizes of the values are an input only if the values are not packed.
\* Values and sizes are pushed at the same time.
yk_get_ult ==
    Rdma(<<"ksizes", "vsizes", "keys", "vals">>, "readwrite",
         Opening \o <<Pull({"ksizes"}, {"vsizes"}),
                      CheckSizes({"ksizes"}, {"vsizes"}),
                      Pull({"keys"}, {}),
                      Call({"ksizes", "keys"}, {"vsizes"}, {"vsizes", "vals"}),
                      IPush({"vals"}), Push({"vsizes"}), Plain("wait")>>)

yk_exists_ult ==
    Rdma(<<"ksizes", "keys", "flags">>, "readwrite",
         Opening \o <<Pull({"ksizes"}, {}), Check({"ksizes"}),
                      Pull({"keys"}, {}), Call({"ksizes", "keys"}, {}, {"flags"}),
                      Push({"flags"})>>)

yk_length_ult ==
    Rdma(<<"ksizes", "keys", "vsizes">>, "readwrite",
         Opening \o <<Pull({"ksizes"}, {}), Check({"ksizes"}),
                      Pull({"keys"}, {}), Call({"ksizes", "keys"}, {}, {"vsizes"}),
                      Push({"vsizes"})>>)

\* The filter is made from the bytes that were pulled and checked.
yk_list_keys_ult ==
    Rdma(<<"from", "filter", "ksizes", "keys">>, "readwrite",
         Opening \o <<Pull({"from", "filter"}, {"ksizes"}), Check({"filter"}),
                      Call({"from", "filter"}, {"ksizes"}, {"ksizes", "keys"}),
                      Push({"ksizes", "keys"})>>)

yk_list_keyvals_ult ==
    Rdma(<<"from", "filter", "ksizes", "vsizes", "keys", "vals">>, "readwrite",
         Opening \o <<Pull({"from", "filter"}, {"ksizes", "vsizes"}),
                      Check({"filter"}),
                      Call({"from", "filter"}, {"ksizes", "vsizes"},
                           {"ksizes", "vsizes", "keys", "vals"}),
                      Push({"ksizes", "vsizes", "keys", "vals"})>>)

-----------------------------------------------------------------------------
\* Operations on collections over RDMA.

yk_doc_store_ult ==
    Rdma(<<"sizes", "docs">>, "readwrite",
         Opening \o <<Pull({"sizes", "docs"}, {}), Check({"sizes"}),
                      Call({"name", "sizes", "docs"}, {}, {"ids"}),
                      Output({"ids"})>>)

\* The data is pulled before anything is known of the database.
yk_doc_update_ult ==
    Rdma(<<"sizes", "docs">>, "readwrite",
         <<Plain("input"), Plain("origin"), Plain("buffer"),
           Pull({"sizes", "docs"}, {})>>
         \o Attached
         \o <<Check({"sizes"}), Call({"name", "ids", "sizes", "docs"}, {}, {})>>)

\* Without packing the sizes say how much room there is for each document.
yk_doc_load_ult ==
    Rdma(<<"sizes", "docs">>, "readwrite",
         Opening \o <<Pull({}, {"sizes"}),
                      Call({"name", "ids"}, {"sizes"}, {"sizes", "docs"}),
                      IPush({"docs"}), Push({"sizes"}), Plain("wait")>>)

yk_doc_list_ult ==
    Rdma(<<"filter", "sizes", "ids", "docs">>, "readwrite",
         Opening \o <<Pull({"filter"}, {"sizes"}), Check({"filter"}),
                      Call({"name", "filter"}, {"sizes"}, {"sizes", "ids", "docs"}),
                      Push({"sizes", "ids", "docs"})>>)

-----------------------------------------------------------------------------
\* Key/value operations without RDMA: the answer is in the response.

yk_put_direct_ult ==
    Direct(Attached \o <<Check({"ksizes"}),
                         Call({"ksizes", "vsizes", "keys", "vals"}, {}, {})>>)

yk_erase_direct_ult ==
    Direct(Attached \o <<Check({"ksizes"}), Call({"ksizes", "keys"}, {}, {})>>)

yk_get_direct_ult ==
    Direct(Attached \o <<Check({"ksizes"}),
                         Call({"ksizes", "keys"}, {}, {"vsizes", "vals"}),
                         Output({"vsizes", "vals"})>>)

yk_exists_direct_ult ==
    Direct(Attached \o <<Check({"ksizes"}),
                         Call({"ksizes", "keys"}, {}, {"flags"}),
                         Output({"flags"})>>)

\* The only handler without CHECK_DATABASE.
yk_length_direct_ult ==
    Direct(<<Plain("mode"), Check({"ksizes"}),
             Call({"ksizes", "keys"}, {}, {"vsizes"}), Output({"vsizes"})>>)

yk_list_keys_direct_ult ==
    Direct(Attached \o <<Check({"filter"}),
                         Call({"from", "filter"}, {}, {"ksizes", "keys"}),
                         Output({"ksizes", "keys"})>>)

yk_list_keyvals_direct_ult ==
    Direct(Attached \o <<Check({"filter"}),
                         Call({"from", "filter"}, {},
                              {"ksizes", "vsizes", "keys", "vals"}),
                         Output({"ksizes", "vsizes", "keys", "vals"})>>)

-----------------------------------------------------------------------------
\* Operations on collections without RDMA.  Documents may be empty: the
\* handlers check nothing.

yk_doc_store_direct_ult ==
    Direct(Attached \o <<Call({"name", "sizes", "docs"}, {}, {"ids"}),
                         Output({"ids"})>>)

yk_doc_update_direct_ult ==
    Direct(Attached \o <<Call({"name", "ids", "sizes", "docs"}, {}, {})>>)

yk_doc_load_direct_ult ==
    Direct(Attached \o <<Call({"name", "ids"}, {}, {"sizes", "docs"}),
                         Output({"sizes", "docs"})>>)

yk_doc_list_direct_ult ==
    Direct(Attached \o <<Check({"filter"}),
                         Call({"name", "filter"}, {}, {"sizes", "ids", "docs"}),
                         Output({"sizes", "ids", "docs"})>>)

yk_doc_length_ult ==
    Direct(Attached \o <<Call({"name", "ids"}, {}, {"sizes"}), Output({"sizes"})>>)

yk_doc_erase_ult == Direct(Attached \o <<Call({"name", "ids"}, {}, {})>>)

yk_count_ult == Direct(Attached \o <<Call({}, {}, {"value"}), Output({"value"})>>)

yk_coll_create_ult == Direct(Attached \o <<Call({"name"}, {}, {})>>)

yk_coll_drop_ult == Direct(Attached \o <<Call({"name"}, {}, {})>>)

yk_coll_exists_ult ==
    Direct(Attached \o <<Call({"name"}, {}, {"value"}), Output({"value"})>>)

yk_coll_last_id_ult ==
    Direct(Attached \o <<Call({"name"}, {}, {"value"}), Output({"value"})>>)

yk_coll_size_ult ==
    Direct(Attached \o <<Call({"name"}, {}, {"value"}), Output({"value"})>>)
=============================================================================
