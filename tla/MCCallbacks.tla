----------------------------- MODULE MCCallbacks -----------------------------
(***************************************************************************)
(* Instances of Callbacks: three items, batches of one or two or the whole *)
(* request.                                                                *)
(***************************************************************************)
EXTENDS Callbacks

Of(fn, items, batch, pool, stops, says, faults, bad) ==
    [fn |-> fn, items |-> items, batch |-> batch, pool |-> pool, stops |-> stops,
     says |-> says, faults |-> faults, bad |-> bad, bytes |-> 1,
     absent |-> IF fn.rpc.visits = "keys" THEN {"k2"} ELSE {}]

Distinct == <<"k1", "k2", "k3">>
Same == <<"k1", "k1", "k1">>

\* fetch gives the callback the keys of its first batch again in every other
\* batch: either there is one batch, or the keys are all the same.
Fetches == {yk_fetch_direct, yk_fetch_bulk, yk_fetch_packed(TRUE), yk_fetch_multi}
Iters == {yk_iter(TRUE), yk_iter(FALSE), yk_doc_iter(TRUE), yk_doc_iter(FALSE),
          yk_doc_iter_bulk}
DocFetches == {yk_doc_fetch_bulk, yk_doc_fetch_multi(TRUE), yk_doc_fetch_multi(FALSE)}
All == Fetches \cup Iters \cup DocFetches

Shapes == {<<f, Distinct, 0>> : f \in All}
          \cup {<<f, Same, n>> : f \in Fetches, n \in {1, 2}}
          \cup {<<f, Distinct, n>> : f \in Iters \cup DocFetches, n \in {1, 2}}

FaultSets == {{}, {"forward", "expose", "output", "input", "origin"},
              {"buffer", "keys", "database"},
              {"expose_batch", "send"}, {"back_input", "back_pull", "back_respond"}}

Undisturbed ==
    {Of(s[1], s[2], s[3], pool, {}, "OK", faults, "none") :
        s \in Shapes, pool \in BOOLEAN, faults \in FaultSets}

\* An iteration whose next full batch is refused sends it again: a callback
\* of iter stops in the last two batches, of which the second is not full.
MayStopAt(f, batch, n) ==
    f.rpc.visits = "items" => (batch = 0 \/ batch = 2 \/ n = 3)

Disturbed ==
    {Of(s[1], s[2], s[3], pool, {n}, says, faults, "none") :
        s \in Shapes, pool \in BOOLEAN, n \in 1 .. 3, says \in {"Stop", "Error"},
        faults \in {{}, {"send", "back_respond"}}}

Rejected ==
    {Of(f, Distinct, 0, FALSE, {}, "OK", {}, bad) : f \in All,
        bad \in {"modes", "deaf", "database", "unsupported"}}
    \cup {Of(f, Distinct, 0, FALSE, {}, "OK", {}, bad) :
            f \in Fetches \ {yk_fetch_bulk}, bad \in {"nothing", "missing", "empty"}}
    \cup {Of(f, Distinct, 0, FALSE, {}, "OK", {}, "filter") : f \in Iters}
    \cup {Of(yk_fetch_bulk, Distinct, 0, FALSE, {}, "OK", {}, "noncontig")}
    \cup {Of(yk_fetch(rdma), <<"k1">>, 0, FALSE, {}, "OK", {}, bad) :
            rdma \in BOOLEAN, bad \in {"none", "empty"}}
    \cup {Of(f, Distinct, 0, FALSE, {}, "OK", {}, "missing") : f \in Iters \cup DocFetches}
    \cup {Of(f, <<>>, 0, FALSE, {}, "OK", {}, "none") : f \in Iters}

PassingSetups ==
    Undisturbed \cup Rejected
    \cup {c \in Disturbed : \A n \in c.stops : MayStopAt(c.fn, c.batch, n)}

\* fetch of different keys in two batches.
FetchSetups == {Of(yk_fetch_packed(TRUE), Distinct, 2, FALSE, {}, "OK", {}, "none")}
=============================================================================
