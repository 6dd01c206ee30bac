------------------------------ MODULE Callbacks ------------------------------
(***************************************************************************)
(* The functions that hand what they find to a function of the caller:     *)
(* fetch, iter, doc_fetch and doc_iter.  The handler on the provider walks *)
(* through its database and forwards the items to the client in batches,   *)
(* as RPCs in the other direction; the client runs the caller's callback   *)
(* on each item and answers with what the callback returned.  The handler  *)
(* reads the next batch while the client works on the previous one, which  *)
(* therefore must stay in the memory of the handler until it is answered.  *)
(*                                                                         *)
(* One call is modelled: calls share nothing but the bulk cache (RPC).     *)
(* The database is external: it visits conf.items in order.                *)
(***************************************************************************)
EXTENDS Integers, SequencesExt, FiniteSetsExt

CONSTANT Setups     \* the call, the options, the callback, what may fail

VARIABLES
    conf,       \* the setup
    cl,         \* the client function: where it is, what it returns
    srv,        \* the handler: where it is, what it collected and sent
    previous,   \* the batch that was sent and not waited for, or 0
    exposed,    \* batches a bulk handle of the provider gives access to
    back,       \* the handler of each batch on the client
    delivered   \* the callbacks that ran: index, key and value of each

vars == <<conf, cl, srv, previous, exposed, back, delivered>>

-----------------------------------------------------------------------------
\* What tells the handlers of the provider apart.  checks: what they do
\* before the first batch, in order; visits: "keys" if they look up the keys
\* of the request batch by batch, "items" if the database calls them for
\* each item; exposes: batches are pulled by the client; counts: what they
\* add up to number the items.

Serves(checks, visits, exposes, counts) ==
    [checks |-> checks, visits |-> visits, exposes |-> exposes, counts |-> counts]

yk_fetch_ult == Serves(<<"input", "origin", "database", "mode", "buffer", "keys",
                         "sizes">>, "keys", TRUE, "items")
yk_fetch_direct_ult == Serves(<<"input", "database", "mode", "sizes">>,
                              "keys", FALSE, "items")
yk_iter_ult == Serves(<<"input", "database", "mode", "filter">>,
                      "items", TRUE, "items")
yk_iter_direct_ult == Serves(<<"input", "database", "mode", "filter">>,
                             "items", FALSE, "items")
yk_doc_fetch_ult(rdma) == Serves(<<"input", "database", "mode">>,
                                 "keys", rdma, "items")
yk_doc_iter_ult == Serves(<<"input", "database", "mode", "filter">>,
                          "items", TRUE, "items")
yk_doc_iter_direct_ult == Serves(<<"input", "database", "mode", "filter">>,
                                 "items", FALSE, "bytes")

\* And those of the client.  pulls: the batch is transferred from the
\* provider; keys: where the callback's key comes from, the message, the
\* context of the call from the batch's first item on, or the context from
\* its own first item on; whole: the callback is given the batch.

Answers(pulls, keys, whole) == [pulls |-> pulls, keys |-> keys, whole |-> whole]

yk_fetch_back_ult == Answers(TRUE, "context", FALSE)
yk_fetch_direct_back_ult == Answers(FALSE, "context", FALSE)
yk_iter_back_ult == Answers(TRUE, "message", FALSE)
yk_iter_direct_back_ult == Answers(FALSE, "message", FALSE)
yk_doc_fetch_back_ult(whole) == Answers(TRUE, "context+start", whole)
yk_doc_fetch_direct_back_ult == Answers(FALSE, "context+start", FALSE)
yk_doc_iter_back_ult(whole) == Answers(TRUE, "message", whole)
yk_doc_iter_direct_back_ult == Answers(FALSE, "message", FALSE)

\* The functions of the client library: what they refuse by themselves, and
\* whether they expose the keys first.

Calls(rpc, back_ult, refuses, exposes) ==
    [rpc |-> rpc, back |-> back_ult, refuses |-> refuses, exposes |-> exposes]

Always == {"modes", "deaf"}

yk_fetch_direct == Calls(yk_fetch_direct_ult, yk_fetch_direct_back_ult,
                         Always \cup {"nothing", "missing"}, FALSE)
yk_fetch_bulk == Calls(yk_fetch_ult, yk_fetch_back_ult,
                       Always \cup {"noncontig"}, FALSE)
yk_fetch_packed(rdma) ==
    IF rdma THEN [yk_fetch_bulk EXCEPT !.refuses = @ \cup {"nothing", "missing"},
                                       !.exposes = TRUE]
    ELSE yk_fetch_direct
yk_fetch_multi == [yk_fetch_bulk EXCEPT
                     !.refuses = @ \cup {"nothing", "missing", "empty"},
                     !.exposes = TRUE]
yk_fetch(rdma) == [yk_fetch_packed(rdma) EXCEPT !.refuses = @ \cup {"empty"}]

yk_iter(rdma) ==
    IF rdma THEN Calls(yk_iter_ult, yk_iter_back_ult, Always \cup {"missing"}, FALSE)
    ELSE Calls(yk_iter_direct_ult, yk_iter_direct_back_ult,
               Always \cup {"missing"}, FALSE)

doc_fetch_base(rdma, back_ult) ==
    Calls(yk_doc_fetch_ult(rdma), back_ult, Always \cup {"nothing", "missing"}, FALSE)
yk_doc_fetch_bulk == doc_fetch_base(TRUE, yk_doc_fetch_back_ult(TRUE))
yk_doc_fetch_multi(rdma) ==
    doc_fetch_base(rdma, IF rdma THEN yk_doc_fetch_back_ult(FALSE)
                         ELSE yk_doc_fetch_direct_back_ult)

doc_iter_base(rpc, back_ult) == Calls(rpc, back_ult, Always \cup {"missing"}, FALSE)
yk_doc_iter_bulk == doc_iter_base(yk_doc_iter_ult, yk_doc_iter_back_ult(TRUE))
yk_doc_iter(rdma) ==
    IF rdma THEN doc_iter_base(yk_doc_iter_ult, yk_doc_iter_back_ult(FALSE))
    ELSE doc_iter_base(yk_doc_iter_direct_ult, yk_doc_iter_direct_back_ult)

\* What a client may ask for: items in order, batches of a size or of the whole
\* request, which names at least one key where the keys are looked up.  What a
\* client pulls the provider exposes.
ASSUME SetupsAssumption ==
    \A c \in Setups :
        /\ c.items \in Seq(ToSet(c.items)) /\ c.batch \in Nat /\ c.bytes \in Nat
        /\ c.pool \in BOOLEAN /\ c.fn.rpc.exposes \in BOOLEAN /\ c.fn.back.whole \in BOOLEAN
        /\ c.fn.rpc.visits \in {"keys", "items"} /\ c.fn.rpc.counts \in {"items", "bytes"}
        /\ c.fn.rpc.visits = "keys" => c.items # <<>>
        /\ c.fn.back.pulls \in BOOLEAN /\ (c.fn.back.pulls => c.fn.rpc.exposes)
        /\ c.stops \subseteq DOMAIN c.items

-----------------------------------------------------------------------------
Fn == conf.fn
Rpc == conf.fn.rpc
Back == conf.fn.back

\* The value the database holds for a key, or that there is none.
ValueOf(k) == IF k \in conf.absent THEN "KEY_NOT_FOUND" ELSE <<"value of", k>>

\* Every batch is as large as the request when no size is given.
BatchSize == IF conf.batch = 0 THEN Len(conf.items) ELSE conf.batch
NumBatches == (Len(conf.items) + BatchSize - 1) \div BatchSize

MayFail(what) == what \in conf.faults

NoBack == [run |-> "none", start |-> 0, got |-> <<>>, todo |-> {}, ret |-> "OK"]

Init ==
    /\ conf \in Setups
    /\ cl = [run |-> "start", ret |-> "OK"]
    /\ srv = [pc |-> "none", check |-> 1, index |-> 0, offset |-> 0, cur |-> <<>>,
              count |-> 0, sent |-> 0, last |-> FALSE, ret |-> "OK"]
    /\ previous = 0
    /\ exposed = {}
    /\ back = [b \in 1 .. Len(conf.items) + 1 |-> NoBack]
    /\ delivered = <<>>

-----------------------------------------------------------------------------
\* The client function.

EarlyReturn(bad) ==
    CASE bad = "nothing" -> "OK"
      [] bad = "modes" -> "ErrMode"
      [] bad = "deaf" -> "NotListening"
      [] bad = "noncontig" -> "NonContig"
      [] OTHER -> "InvalidArgs"

\* Arguments and mode are checked, and that the client can be called back;
\* then the context the callbacks will need is built on the stack of the
\* function and the request is forwarded with its address.
Forward ==
    /\ cl.run = "start"
    /\ IF conf.bad \in Fn.refuses
       THEN cl' = [run |-> "done", ret |-> EarlyReturn(conf.bad)] /\ UNCHANGED srv
       ELSE \/ cl' = [cl EXCEPT !.run = "waiting"] /\ srv' = [srv EXCEPT !.pc = "checks"]
            \/ /\ MayFail("forward") \/ (Fn.exposes /\ MayFail("expose"))
               /\ cl' = [run |-> "done", ret |-> "FromMercury"]
               /\ UNCHANGED srv
    /\ UNCHANGED <<conf, previous, exposed, back, delivered>>

GetOutput ==
    /\ cl.run = "answered"
    /\ \/ cl' = [cl EXCEPT !.run = "done"]
       \/ MayFail("output") /\ cl' = [run |-> "done", ret |-> "FromMercury"]
    /\ UNCHANGED <<conf, srv, previous, exposed, back, delivered>>

-----------------------------------------------------------------------------
\* The handler on the provider.

\* What a check that fails is answered with.
Refusal(check) ==
    CASE check = "database" /\ conf.bad = "database" -> "InvalidDatabase"
      [] check = "mode" /\ conf.bad = "unsupported" -> "ErrMode"
      [] check = "sizes" /\ conf.bad = "empty" -> "InvalidArgs"
      [] check = "filter" /\ conf.bad = "filter" -> "InvalidFilter"
      [] OTHER -> "OK"

Check ==
    /\ srv.pc = "checks"
    /\ LET check == Rpc.checks[srv.check]
           refusal == Refusal(check)
       IN  \/ /\ refusal = "OK"
              /\ srv' = IF srv.check = Len(Rpc.checks)
                        THEN [srv EXCEPT !.pc = "loop"]
                        ELSE [srv EXCEPT !.check = @ + 1]
           \/ /\ refusal # "OK"
              /\ srv' = [srv EXCEPT !.pc = "respond", !.ret = refusal]
           \/ /\ check \in {"input", "origin", "buffer", "keys"}
              /\ MayFail(check)
              /\ srv' = [srv EXCEPT !.pc = "respond",
                           !.ret = IF check = "buffer" THEN "Allocation"
                                   ELSE "FromMercury"]
    /\ UNCHANGED <<conf, cl, previous, exposed, back, delivered>>

ToSend == IF Rpc.exposes THEN "expose" ELSE "wait"

\* fetch and doc_fetch: the next batch of keys is looked up.  offset is
\* where the keys of the batch start, index the number of the batch.
FetchBatch ==
    /\ Rpc.visits = "keys" /\ srv.pc = "loop"
    /\ \/ /\ srv.index < NumBatches
          /\ LET size == Min({BatchSize, Len(conf.items) - srv.index * BatchSize})
                 keys == SubSeq(conf.items, srv.offset + 1, srv.offset + size)
             IN  srv' = [srv EXCEPT !.pc = ToSend, !.count = srv.index * BatchSize,
                           !.cur = [i \in DOMAIN keys |->
                                      [key |-> keys[i], val |-> ValueOf(keys[i])]]]
       \/ /\ srv.index < NumBatches /\ MayFail("database")
          /\ srv' = [srv EXCEPT !.pc = "finish", !.ret = "DatabaseError"]
       \/ /\ srv.index >= NumBatches
          /\ srv' = [srv EXCEPT !.pc = "finish"]
    /\ UNCHANGED <<conf, cl, previous, exposed, back, delivered>>

\* iter and doc_iter: the database calls the handler for one more item; a
\* batch that is full is sent at once.
IterItem ==
    /\ Rpc.visits = "items" /\ srv.pc = "loop"
    /\ \/ /\ srv.offset < Len(conf.items)
          /\ LET key == conf.items[srv.offset + 1]
                 cur == Append(srv.cur, [key |-> key, val |-> ValueOf(key)])
             IN  srv' = [srv EXCEPT !.offset = @ + 1, !.cur = cur,
                           !.pc = IF Len(cur) = BatchSize THEN ToSend ELSE "loop"]
       \/ /\ srv.offset < Len(conf.items) /\ MayFail("database")
          /\ srv' = [srv EXCEPT !.pc = "flush", !.ret = "DatabaseError"]
       \/ /\ srv.offset = Len(conf.items)
          /\ srv' = [srv EXCEPT !.pc = "flush"]
    /\ UNCHANGED <<conf, cl, previous, exposed, back, delivered>>

\* iter and doc_iter: after the last item (or an early end) what has been
\* collected and not sent is sent.
\* Mutant: it is not.
NoFlush == /\ srv.pc = "flush"
           /\ srv' = [srv EXCEPT !.pc = "finish"]
           /\ UNCHANGED <<conf, cl, previous, exposed, back, delivered>>
Flush ==
    /\ srv.pc = "flush"
    /\ srv' = [srv EXCEPT !.last = TRUE,
                 !.pc = IF srv.cur = <<>> THEN "finish" ELSE ToSend]
    /\ UNCHANGED <<conf, cl, previous, exposed, back, delivered>>

Continue(ret) == IF ret = "Stop" THEN "OK" ELSE ret
First(ret, next) == IF ret = "OK" THEN next ELSE ret

\* The batch could not be sent, because of ret.  A handler that looks up keys
\* leaves its loop; the database returns ret to a handler it was calling,
\* which keeps what it had collected; "Stop" is no error either way, unless
\* it was the last batch.
NotSent(ret) ==
    srv' = IF Rpc.visits = "keys"
           THEN [srv EXCEPT !.pc = "finish", !.ret = Continue(ret)]
           ELSE IF srv.last THEN [srv EXCEPT !.pc = "finish", !.ret = First(@, ret)]
           ELSE [srv EXCEPT !.pc = "flush", !.ret = Continue(ret)]

\* margo_bulk_create over the vectors of the batch.
ExposeBatch ==
    /\ srv.pc = "expose"
    /\ \/ /\ srv' = [srv EXCEPT !.pc = "wait"]
          /\ exposed' = exposed \cup {srv.sent + 1}
       \/ /\ MayFail("expose_batch")
          /\ NotSent("FromMercury")
          /\ UNCHANGED exposed
    /\ UNCHANGED <<conf, cl, previous, back, delivered>>

Answered == IF previous = 0 THEN TRUE ELSE back[previous].run = "answered"
AnswerOf == IF previous = 0 THEN "OK" ELSE back[previous].ret

\* wait_for_previous_rpc, before the next batch: the previous one is not
\* needed any more; a batch that will not be sent neither.
\* Mutant: nobody waits.
NoWaitBeforeSend ==
    /\ srv.pc = "wait"
    /\ srv' = [srv EXCEPT !.pc = "send"]
    /\ UNCHANGED <<conf, cl, previous, exposed, back, delivered>>
WaitBeforeSend ==
    /\ srv.pc = "wait"
    /\ Answered
    /\ previous' = 0
    /\ \/ /\ AnswerOf = "OK"
          /\ srv' = [srv EXCEPT !.pc = "send"]
          /\ exposed' = exposed \ {previous}
       \/ /\ AnswerOf # "OK"
          /\ NotSent(AnswerOf)
          /\ exposed' = exposed \ {previous, srv.sent + 1}
    /\ UNCHANGED <<conf, cl, back, delivered>>

\* What is added to the number of the first item of the next batch: of the
\* documents in the message doc_iter takes the bytes.
Numbered == IF Rpc.counts = "bytes" THEN Len(srv.cur) * conf.bytes ELSE Len(srv.cur)

\* Mutant: the keys of the first batch are looked up again.
Advanced_no_offset == [srv EXCEPT !.index = @ + 1, !.sent = @ + 1, !.cur = <<>>,
                                  !.pc = IF srv.last THEN "finish" ELSE "loop",
                                  !.count = @ + Numbered]
Advanced == [srv EXCEPT !.index = @ + 1, !.sent = @ + 1, !.cur = <<>>,
                        !.offset = IF Rpc.visits = "keys" THEN @ + Len(srv.cur) ELSE @,
                        !.pc = IF srv.last THEN "finish" ELSE "loop",
                        !.count = @ + Numbered]

\* margo_iforward: the vectors and the handles move to previous.
SendBatch ==
    /\ srv.pc = "send"
    /\ LET b == srv.sent + 1
       IN  \/ /\ srv' = Advanced
              /\ previous' = b
              /\ back' = [back EXCEPT ![b] =
                   [NoBack EXCEPT !.run = "input", !.start = srv.count, !.got = srv.cur]]
              /\ UNCHANGED exposed
           \/ /\ MayFail("send")
              /\ NotSent("FromMercury")
              /\ exposed' = exposed \ {b}
              /\ UNCHANGED <<previous, back>>
    /\ UNCHANGED <<conf, cl, delivered>>

\* The last batch is waited for.
Finish ==
    /\ srv.pc = "finish"
    /\ Answered
    /\ previous' = 0
    /\ exposed' = exposed \ {previous}
    /\ srv' = [srv EXCEPT !.pc = "respond", !.ret = First(@, AnswerOf)]
    /\ UNCHANGED <<conf, cl, back, delivered>>

Respond ==
    /\ srv.pc = "respond"
    /\ srv' = [srv EXCEPT !.pc = "over"]
    /\ cl' = [run |-> "answered", ret |-> srv.ret]
    /\ UNCHANGED <<conf, previous, exposed, back, delivered>>

-----------------------------------------------------------------------------
\* The handlers on the client.

BackFails(b, what) ==
    /\ MayFail(what)
    /\ back' = [back EXCEPT ![b].run = "respond", ![b].ret = "FromMercury"]

\* The context is the one of the call; a batch is never larger than it.
BackInput(b) ==
    /\ back[b].run = "input"
    /\ \/ back' = [back EXCEPT ![b].run = IF Back.pulls /\ ~Back.whole THEN "pull"
                                               ELSE "calls",
                               ![b].todo = DOMAIN back[b].got]
       \/ BackFails(b, "back_input")
    /\ UNCHANGED <<conf, cl, srv, previous, exposed, delivered>>

\* margo_bulk_create and margo_bulk_transfer.  What is not exposed any more
\* cannot be read.
BackPull(b) ==
    /\ back[b].run = "pull"
    /\ IF b \in exposed
       THEN \/ back' = [back EXCEPT ![b].run = "calls"]
            \/ BackFails(b, "back_pull")
       ELSE back' = [back EXCEPT ![b].run = "respond", ![b].ret = "FromMercury"]
    /\ UNCHANGED <<conf, cl, srv, previous, exposed, delivered>>

\* The arguments of the callback for item i of the batch.
Argument(b, i) ==
    [index |-> back[b].start + i - 1,
     key |-> CASE Back.keys = "context" -> conf.items[i]
               [] Back.keys = "context+start" -> conf.items[back[b].start + i]
               [] OTHER -> back[b].got[i].key,
     val |-> back[b].got[i].val]

\* What the caller's callback says of item i: conf.says, at the items where
\* it does not say YOKAN_SUCCESS.
Says(b, i) == IF back[b].start + i \in conf.stops THEN conf.says ELSE "OK"

\* Without a pool the callbacks run one after the other, up to the first
\* that does not return YOKAN_SUCCESS; with one they all run, each in a
\* thread, in any order, and what they return is not looked at.
Callback(b) ==
    /\ back[b].run = "calls" /\ ~Back.whole
    /\ \E i \in back[b].todo :
         /\ conf.pool \/ i = Min(back[b].todo)
         /\ delivered' = Append(delivered, Argument(b, i))
         /\ back' = IF ~conf.pool /\ Says(b, i) # "OK"
                    THEN [back EXCEPT ![b].run = "respond", ![b].ret = Says(b, i)]
                    ELSE [back EXCEPT ![b].todo = @ \ {i}]
    /\ UNCHANGED <<conf, cl, srv, previous, exposed>>

\* A callback for the whole batch: it is given the bulk handle.
BulkCallback(b) ==
    /\ back[b].run = "calls" /\ Back.whole
    /\ delivered' = delivered \o [i \in DOMAIN back[b].got |-> Argument(b, i)]
    /\ LET said == {i \in DOMAIN back[b].got : Says(b, i) # "OK"}
       IN  back' = [back EXCEPT ![b].run = "respond",
                                ![b].ret = IF said = {} THEN "OK" ELSE conf.says]
    /\ UNCHANGED <<conf, cl, srv, previous, exposed>>

\* The threads of a pool are joined before the answer leaves; the answer can
\* get lost.
\* Mutant: an error is not answered.
BackRespond_when_all_is_well(b) ==
    /\ back[b].run = "calls" /\ back[b].todo = {} /\ ~Back.whole
    /\ back' = [back EXCEPT ![b].run = "answered"]
    /\ UNCHANGED <<conf, cl, srv, previous, exposed, delivered>>
BackRespond(b) ==
    /\ \/ back[b].run = "respond"
       \/ back[b].run = "calls" /\ back[b].todo = {} /\ ~Back.whole
    /\ \/ back' = [back EXCEPT ![b].run = "answered"]
       \/ /\ MayFail("back_respond")
          /\ back' = [back EXCEPT ![b].run = "answered", ![b].ret = "FromMercury"]
    /\ UNCHANGED <<conf, cl, srv, previous, exposed, delivered>>

-----------------------------------------------------------------------------
ServerStep == Check \/ FetchBatch \/ IterItem \/ Flush \/ ExposeBatch
              \/ WaitBeforeSend \/ SendBatch \/ Finish \/ Respond
BackStep(b) == BackInput(b) \/ BackPull(b) \/ Callback(b) \/ BulkCallback(b)
               \/ BackRespond(b)

Next == Forward \/ GetOutput \/ ServerStep \/ \E b \in DOMAIN back : BackStep(b)

\* All threads run on, and the callback returns: the pools of both sides
\* are scheduled by execution streams of their own.
Fairness ==
    /\ WF_vars(Forward \/ GetOutput)
    /\ WF_vars(ServerStep)
    /\ WF_vars(\E b \in DOMAIN back : BackStep(b))

Spec == Init /\ [][Next]_vars /\ Fairness

-----------------------------------------------------------------------------
\* Properties.

Active(b) == back[b].run \notin {"none", "answered"}

\* Batches of a call never overlap on the client, and none of them is being
\* worked on when the call returns, whatever failed: the callbacks use a
\* context on the stack of the calling function (op_ref in
\* src/src/client/fetch.cpp, iter.cpp, doc_fetch.cpp and doc_iter.cpp).  And
\* the vectors a batch is pulled from live as long as the client may pull:
\* afterwards nothing stays exposed.
BatchesDoNotOutliveTheirMemory ==
    /\ \A b \in DOMAIN back :
         Active(b) => /\ cl.run = "waiting"
                      /\ previous = b
                      /\ Rpc.exposes => b \in exposed
    /\ srv.pc = "over" => previous = 0 /\ exposed = {}

\* The callback is given each item at most once, with its own index, key and
\* value; one after the other in the order of the items without a pool (and
\* none is skipped unless margo fails), and with one never after an item of a
\* later batch.
ItemsDelivered ==
    /\ \A p \in DOMAIN delivered :
         LET d == delivered[p] IN
           /\ d.index + 1 \in DOMAIN conf.items
           /\ d.key = conf.items[d.index + 1]
           /\ d.val = ValueOf(d.key)
           /\ IF conf.pool
              THEN \A q \in 1 .. p - 1 :
                     /\ delivered[q].index # d.index
                     /\ delivered[q].index \div BatchSize <= d.index \div BatchSize
              ELSE /\ \A q \in 1 .. p - 1 : delivered[q].index < d.index
                   /\ conf.faults = {} => d.index = p - 1

Stopped == \E p \in DOMAIN delivered : delivered[p].index + 1 \in conf.stops
Heeded == ~conf.pool \/ Back.whole

\* What the call returns is true: success means that every item was
\* delivered, or that the callback asked to stop; an error of the callback is
\* the caller's unless margo failed as well, and without a failure or an
\* invalid request there is no other error.  And a callback that did not
\* return success is the last one to run.
OutcomeTold ==
    /\ (Stopped /\ ~conf.pool /\ ~Back.whole) =>
           Last(delivered).index + 1 \in conf.stops
    /\ cl.run = "done" =>
         /\ cl.ret = "OK" /\ conf.bad # "nothing" =>
              \/ Len(delivered) = Len(conf.items)
              \/ Stopped /\ Heeded /\ conf.says = "Stop"
         /\ Stopped /\ Heeded /\ conf.says = "Error" => cl.ret # "OK"
         /\ conf.faults = {} /\ conf.bad = "none" =>
              cl.ret \in {"OK"} \cup IF Stopped /\ Heeded THEN {conf.says} ELSE {}
         /\ conf.bad \notin {"none", "nothing"} => cl.ret # "OK" /\ delivered = <<>>

\* The call returns, whatever fails and whatever the callback says.
CallReturns == <>(cl.run = "done")
=============================================================================
