--------------------------------- MODULE RPC ---------------------------------
(***************************************************************************)
(* Clients that call the functions of the client library and the user     *)
(* level threads (ULTs) of the provider that serve them.  The clients do   *)
(* not share anything; the ULTs share the bulk cache and whatever earlier  *)
(* requests left in its buffers.  margo carries requests, responses and    *)
(* transfers; any call into margo may fail.  The database is external: it  *)
(* reads the regions it is given and fills the others (MapDatabase and     *)
(* Backends say how).                                                      *)
(***************************************************************************)
EXTENDS BulkCache, ClientFunctions

CONSTANTS
    Clients,
    Setups      \* what the clients call, the cache, and what may fail

VARIABLES
    conf,       \* the setup
    calls,      \* number of calls each client has made
    cl,         \* the client function in progress: step and return value
    exposed,    \* access to the memory of each client
    mem,        \* the regions of that memory
    ult,        \* the thread that serves each client's request
    flying,     \* transfers that were started and not waited for
    served,     \* how often the database was called for the current request
    faulted,    \* clients whose current call met a failure of margo
    finalized   \* the bulk cache has been finalized

clientVars == <<calls, cl, exposed>>
vars == <<conf, calls, cl, exposed, mem, ult, flying, served, faulted,
          finalized, buf, queue, numInUse>>

Regions == {"ksizes", "vsizes", "keys", "vals", "flags", "from", "filter",
            "sizes", "ids", "docs", "name", "value"}

Blank == [r \in Regions |-> Junk]

\* The steps a handler needs its buffer for.
UsesBuffer(h, s) ==
    \/ s.do \in {"pull", "ipush", "push"}
    \/ (s.regions \cup s.more \cup s.fills) \cap ToSet(h.layout) # {}

\* A handler takes at most one buffer, before it needs it.
HandlerAssumption(h) ==
    /\ h.layout \in Seq(Regions) /\ Len(h.layout) <= MaxRegions
    /\ h.buffer \in Modes
    /\ h.steps \in Seq([do : STRING, regions : SUBSET Regions, more : SUBSET Regions,
                        fills : SUBSET Regions])
    /\ \A p, q \in DOMAIN h.steps :
         h.steps[p].do = "buffer" /\ h.steps[q].do = "buffer" => p = q
    /\ \A p \in DOMAIN h.steps : UsesBuffer(h, h.steps[p]) =>
         \E q \in 1 .. p - 1 : h.steps[q].do = "buffer"

\* What a client exposes has the places the handler looks at.
CallAssumption(k) ==
    /\ HandlerAssumption(k.fn.rpc)
    /\ k.fn.layout \in Seq(Regions) /\ Len(k.fn.layout) = Len(k.fn.rpc.layout)
    /\ k.fn.access \in {"none", "readonly", "readwrite"}
    /\ k.fn.steps \in Seq(STRING)
    /\ k.size \in Nat

ASSUME SetupsAssumption ==
    /\ MaxBuffers \in Nat /\ Null \notin Buffers /\ IsFiniteSet(Clients)
    /\ \A s \in Setups :
        /\ s.cache.kind \in Kinds /\ s.cache.capacity \in Nat /\ s.cache.margin \in Nat
        /\ \A c \in Clients :
             /\ s.calls[c] \in Seq(ToSet(s.calls[c]))
             /\ \A n \in DOMAIN s.calls[c] : CallAssumption(s.calls[c][n])

\* What a region of the n-th call of c holds when it is sent, and when the
\* database has filled it.
Sent(c, n, r) == <<c, n, r, "sent">>
Answer(c, n, r) == <<c, n, r, "answer">>

CallOf(c) == conf.calls[c][calls[c]]
Fn(c) == CallOf(c).fn
Handler(c) == Fn(c).rpc

NoCall == [run |-> "idle", pc |-> 1, ret |-> "OK", out |-> Blank]

NoUlt == [run |-> "none", pc |-> 1, stack |-> <<>>, buf |-> Null,
          ret |-> "OK", in |-> Blank, out |-> Blank]

Init ==
    /\ CacheInit
    /\ conf \in Setups
    /\ calls = [c \in Clients |-> 0]
    /\ cl = [c \in Clients |-> NoCall]
    /\ exposed = [c \in Clients |-> "none"]
    /\ mem = [c \in Clients |-> Blank]
    /\ ult = [c \in Clients |-> NoUlt]
    /\ flying = {}
    /\ served = [c \in Clients |-> 0]
    /\ faulted = {}
    /\ finalized = FALSE

MayFail(what) == what \in conf.faults

-----------------------------------------------------------------------------
\* The client.

\* The regions the function takes from its caller hold the caller's data.
Given(f) == IF f.packed
            THEN (ToSet(f.layout) \cup f.sends) \ f.gets
            ELSE ToSet(f.layout) \cup f.sends

Begin(c) ==
    /\ cl[c].run = "idle"
    /\ ult[c].run = "none"
    /\ calls[c] < Len(conf.calls[c])
    /\ calls' = [calls EXCEPT ![c] = @ + 1]
    /\ cl' = [cl EXCEPT ![c] = [NoCall EXCEPT !.run = "steps"]]
    /\ mem' = [mem EXCEPT ![c] =
         [r \in Regions |-> IF r \in Given(conf.calls[c][calls'[c]].fn)
                            THEN Sent(c, calls'[c], r) ELSE Junk]]
    /\ served' = [served EXCEPT ![c] = 0]
    /\ faulted' = faulted \ {c}
    /\ UNCHANGED <<conf, exposed, ult, flying, finalized, cacheVars>>

AtClient(c, what) ==
    /\ cl[c].run = "steps"
    /\ cl[c].pc \in DOMAIN Fn(c).steps
    /\ Fn(c).steps[cl[c].pc] = what

ClientNext(c) == cl' = [cl EXCEPT ![c].pc = @ + 1]
ClientReturns(c, ret) == cl' = [cl EXCEPT ![c].run = "back", ![c].ret = ret]

\* CHECK_HRET: the call into margo failed.
ClientFails(c, what) ==
    /\ MayFail(what)
    /\ ClientReturns(c, "FromMercury")
    /\ faulted' = faulted \cup {c}
    /\ UNCHANGED <<calls, exposed, ult>>

CheckArgs(c) ==
    /\ AtClient(c, "args")
    /\ IF CallOf(c).bad \in Fn(c).args
       THEN ClientReturns(c, IF CallOf(c).bad = "nothing" THEN "OK" ELSE "InvalidArgs")
       ELSE ClientNext(c)
    /\ UNCHANGED <<calls, exposed, ult, faulted>>

\* margo_bulk_create over the caller's memory.
Expose(c) ==
    /\ AtClient(c, "expose")
    /\ \/ /\ ClientNext(c)
          /\ exposed' = [exposed EXCEPT ![c] = Fn(c).access]
          /\ UNCHANGED <<calls, ult, faulted>>
       \/ ClientFails(c, "expose")

\* CHECK_MODE_VALID
CheckMode(c) ==
    /\ AtClient(c, "mode")
    /\ IF CallOf(c).bad = "modes" THEN ClientReturns(c, "ErrMode") ELSE ClientNext(c)
    /\ UNCHANGED <<calls, exposed, ult, faulted>>

\* margo_create
CreateHandle(c) ==
    /\ AtClient(c, "create")
    /\ \/ ClientNext(c) /\ UNCHANGED <<calls, exposed, ult, faulted>>
       \/ ClientFails(c, "create")

\* margo_provider_forward: the request starts a ULT of the provider.  The
\* first things its handler defers are its destruction and its response; the
\* vectors its response will point to are declared before them.
\* Mutants: the vectors are declared after the response; no response.
FirstDeferredLate == <<"destroy", "respond", "locals">>
FirstDeferredSilent == <<"locals", "destroy">>
FirstDeferred == <<"locals", "destroy", "respond">>

Forward(c) ==
    /\ AtClient(c, "forward")
    /\ \/ /\ cl' = [cl EXCEPT ![c].run = "waiting"]
          /\ ult' = [ult EXCEPT ![c] =
               [NoUlt EXCEPT !.run = "steps", !.stack = FirstDeferred,
                             !.in = [r \in Regions |-> IF r \in Fn(c).sends
                                                       THEN mem[c][r] ELSE Junk]]]
          /\ UNCHANGED <<calls, exposed, faulted>>
       \/ ClientFails(c, "forward")

ClientLocalStep(c) ==
    /\ CheckArgs(c) \/ Expose(c) \/ CheckMode(c) \/ CreateHandle(c) \/ Forward(c)
    /\ UNCHANGED <<conf, mem, flying, served, finalized, cacheVars>>

\* margo_get_output decodes the response into the caller's memory;
\* margo_free_output may fail after that.  A function for a single key
\* looks at the size it was given.
GetOutput(c) ==
    /\ cl[c].run = "answered"
    /\ \/ /\ mem' = [mem EXCEPT ![c] =
               [r \in Regions |-> IF cl[c].out[r] # Junk THEN cl[c].out[r]
                                  ELSE mem[c][r]]]
          /\ \/ /\ ClientReturns(c, IF Fn(c).single /\ CallOf(c).absent
                                       /\ cl[c].ret = "OK"
                                    THEN "KeyNotFound" ELSE cl[c].ret)
                /\ UNCHANGED faulted
             \/ /\ MayFail("output")
                /\ ClientReturns(c, "FromMercury")
                /\ faulted' = faulted \cup {c}
       \/ /\ MayFail("output")
          /\ ClientReturns(c, "FromMercury")
          /\ faulted' = faulted \cup {c}
          /\ UNCHANGED mem
    /\ UNCHANGED <<conf, calls, exposed, ult, flying, served, finalized, cacheVars>>

\* The handle is destroyed, then the bulk handle is freed: the memory is the
\* caller's again.
Return(c) ==
    /\ cl[c].run = "back"
    /\ cl' = [cl EXCEPT ![c].run = "idle"]
    /\ exposed' = [exposed EXCEPT ![c] = "none"]
    /\ UNCHANGED <<conf, calls, mem, ult, flying, served, faulted, finalized,
                   cacheVars>>

-----------------------------------------------------------------------------
\* The ULT.

Now(c) == Handler(c).steps[ult[c].pc]
AtServer(c, what) ==
    /\ ult[c].run = "steps"
    /\ ult[c].pc <= Len(Handler(c).steps)
    /\ Now(c).do = what

\* The regions of the step for this request.
RegionsOf(c) == Now(c).regions \cup (IF Fn(c).packed THEN {} ELSE Now(c).more)

InLayout(c, r) == r \in ToSet(Handler(c).layout)
Position(c, r) == CHOOSE p \in DOMAIN Handler(c).layout : Handler(c).layout[p] = r

\* What the handler finds where it looks for region r.
Holds(c, r) == IF InLayout(c, r) THEN buf[ult[c].buf].data[Position(c, r)]
               ELSE ult[c].in[r]

NextStep(c, deferred) ==
    ult' = [ult EXCEPT ![c].pc = @ + 1, ![c].stack = @ \o deferred]

\* An early return.
Stop(c, ret) == ult' = [ult EXCEPT ![c].run = "unwind", ![c].ret = ret]

\* CHECK_HRET_OUT
ServerFails(c, what) ==
    /\ MayFail(what)
    /\ Stop(c, "FromMercury")
    /\ faulted' = faulted \cup {c}

\* A transfer fails because margo does, or because it is not allowed.
TransferFails(c, what, allowed) ==
    /\ MayFail(what) \/ ~allowed
    /\ Stop(c, "FromMercury")
    /\ faulted' = IF allowed THEN faulted \cup {c} ELSE faulted

GetInput(c) ==
    /\ AtServer(c, "input")
    /\ \/ NextStep(c, <<"free_input">>) /\ UNCHANGED faulted
       \/ ServerFails(c, "input")
    /\ UNCHANGED <<mem, flying, served, cacheVars>>

\* margo_addr_lookup or margo_addr_dup
LookupOrigin(c) ==
    /\ AtServer(c, "origin")
    /\ \/ NextStep(c, <<"free_addr">>) /\ UNCHANGED faulted
       \/ ServerFails(c, "origin")
    /\ UNCHANGED <<mem, flying, served, cacheVars>>

CheckDatabase(c) ==
    /\ AtServer(c, "database")
    /\ IF conf.attached THEN NextStep(c, <<>>) ELSE Stop(c, "InvalidDatabase")
    /\ UNCHANGED <<mem, flying, served, faulted, cacheVars>>

CheckModeSupported(c) ==
    /\ AtServer(c, "mode")
    /\ IF CallOf(c).bad = "unsupported" THEN Stop(c, "ErrMode") ELSE NextStep(c, <<>>)
    /\ UNCHANGED <<mem, flying, served, faulted, cacheVars>>

GetBuffer(c) ==
    /\ AtServer(c, "buffer")
    /\ \E b \in Buffers \cup {Null} :
         /\ CacheGet(conf.cache, CallOf(c).size, Handler(c).buffer, b,
                     MayFail("buffer"))
         /\ IF b = Null THEN Stop(c, "Allocation")
            ELSE ult' = [ult EXCEPT ![c].pc = @ + 1, ![c].buf = b,
                                    ![c].stack = Append(@, "release")]
         /\ faulted' = IF b = Null THEN faulted \cup {c} ELSE faulted
    /\ UNCHANGED <<mem, flying, served>>

\* Mercury compares the access each side was registered with to the
\* direction of the transfer.
MayPull(c) == exposed[c] \in {"readonly", "readwrite"}
MayPush(c) == exposed[c] = "readwrite" /\ buf[ult[c].buf].mode = "readwrite"

\* The content of the buffer after the regions rs came from the client: the
\* bytes at a position of the handler's layout are those at the same position
\* of the client's.
Pulled(c, rs) ==
    [p \in 1 .. MaxRegions |->
        IF p <= Len(Handler(c).layout) /\ Handler(c).layout[p] \in rs
        THEN mem[c][Fn(c).layout[p]]
        ELSE buf[ult[c].buf].data[p]]

\* The memory of the client after the regions rs were sent to it.
Pushed(c, b, rs) ==
    [r \in Regions |->
        IF \E p \in DOMAIN Fn(c).layout :
              Fn(c).layout[p] = r /\ Handler(c).layout[p] \in rs
        THEN buf[b].data[CHOOSE p \in DOMAIN Fn(c).layout : Fn(c).layout[p] = r]
        ELSE mem[c][r]]

PullRegions(c) ==
    /\ AtServer(c, "pull")
    /\ \/ /\ RegionsOf(c) = {} \/ MayPull(c)   \* an empty transfer is skipped
          /\ buf' = [buf EXCEPT ![ult[c].buf].data = Pulled(c, RegionsOf(c))]
          /\ NextStep(c, <<>>)
          /\ UNCHANGED faulted
       \/ /\ RegionsOf(c) # {}
          /\ TransferFails(c, "pull", MayPull(c))
          /\ UNCHANGED buf
    /\ UNCHANGED <<mem, flying, served, queue, numInUse>>

\* No key of size 0, the sizes add up to no more than was sent, the filter
\* is one.
Found(c) ==
    LET bad == CallOf(c).bad rs == Now(c).regions
    IN  CASE bad = "empty" /\ "ksizes" \in rs -> "InvalidArgs"
          [] bad = "short" /\ rs \cap {"ksizes", "sizes"} # {} -> "InvalidArgs"
          [] bad = "filter" /\ "filter" \in rs -> "InvalidFilter"
          [] OTHER -> "OK"

CheckRequest(c) ==
    /\ AtServer(c, "check")
    /\ IF Found(c) = "OK" THEN NextStep(c, <<>>) ELSE Stop(c, Found(c))
    /\ UNCHANGED <<mem, flying, served, faulted, cacheVars>>

\* The database fills its regions, or fails; then nothing more is done.
CallDatabase(c) ==
    /\ AtServer(c, "call")
    /\ served' = [served EXCEPT ![c] = @ + 1]
    /\ LET answer(r) == Answer(c, calls[c], r)
           fills == Now(c).fills
       IN  \/ /\ ult' = [ult EXCEPT ![c].pc = @ + 1,
                    ![c].in = [r \in Regions |-> IF r \in fills /\ ~InLayout(c, r)
                                                 THEN answer(r) ELSE @[r]]]
              /\ buf' = IF ult[c].buf = Null THEN buf
                        ELSE [buf EXCEPT ![ult[c].buf].data =
                               [p \in 1 .. MaxRegions |->
                                  IF p <= Len(Handler(c).layout)
                                     /\ Handler(c).layout[p] \in fills
                                  THEN answer(Handler(c).layout[p]) ELSE @[p]]]
           \/ /\ MayFail("call")
              /\ Stop(c, "DatabaseError")
              /\ UNCHANGED buf
    /\ UNCHANGED <<mem, flying, faulted, queue, numInUse>>

\* A packed answer for one absent key is empty: there is nothing to push.
\* For one key the size of the transfer is the size of its value, or the
\* number that stands for "not found", which no memory can hold.
StartPush(c) ==
    /\ AtServer(c, "ipush")
    /\ LET one == CallOf(c).one /\ CallOf(c).absent
       IN  \/ /\ one /\ Fn(c).packed
              /\ NextStep(c, <<>>)
              /\ UNCHANGED <<flying, faulted>>
           \/ /\ one /\ ~Fn(c).packed /\ "vals" \in Now(c).regions
              /\ Stop(c, "FromMercury")
              /\ UNCHANGED <<flying, faulted>>
           \/ /\ ~one \/ (~Fn(c).packed /\ "docs" \in Now(c).regions)
              /\ \/ /\ MayPush(c)
                    /\ flying' = flying \cup {[to |-> c, from |-> ult[c].buf,
                                               regions |-> Now(c).regions]}
                    /\ NextStep(c, <<>>)
                    /\ UNCHANGED faulted
                 \/ TransferFails(c, "ipush", MayPush(c)) /\ UNCHANGED flying
    /\ UNCHANGED <<mem, served, cacheVars>>

PushRegions(c) ==
    /\ AtServer(c, "push")
    /\ \/ /\ MayPush(c)
          /\ mem' = [mem EXCEPT ![c] = Pushed(c, ult[c].buf, Now(c).regions)]
          /\ NextStep(c, <<>>)
          /\ UNCHANGED faulted
       \/ TransferFails(c, "push", MayPush(c)) /\ UNCHANGED mem
    /\ UNCHANGED <<flying, served, cacheVars>>

\* margo_wait on the transfer that StartPush began.
WaitPush(c) ==
    /\ AtServer(c, "wait")
    /\ \A f \in flying : f.to # c
    /\ NextStep(c, <<>>)
    /\ UNCHANGED <<mem, flying, served, faulted, cacheVars>>

\* The fields of out point into the vectors of the handler.
FillOutput(c) ==
    /\ AtServer(c, "output")
    /\ ult' = [ult EXCEPT ![c].pc = @ + 1,
                          ![c].out = [r \in Regions |-> IF r \in Now(c).regions
                                                        THEN Holds(c, r) ELSE @[r]]]
    /\ UNCHANGED <<mem, flying, served, faulted, cacheVars>>

ServerStep(c) ==
    /\ \/ GetInput(c) \/ LookupOrigin(c) \/ CheckDatabase(c)
       \/ CheckModeSupported(c) \/ GetBuffer(c) \/ PullRegions(c)
       \/ CheckRequest(c) \/ CallDatabase(c) \/ StartPush(c)
       \/ PushRegions(c) \/ WaitPush(c) \/ FillOutput(c)
    /\ UNCHANGED <<conf, clientVars, finalized>>

-----------------------------------------------------------------------------
\* DEFER: after the last step or an early return, what was deferred last
\* runs first.

Top(c) == Last(ult[c].stack)
Unwinding(c, what) ==
    /\ \/ ult[c].run = "unwind"
       \/ ult[c].run = "steps" /\ ult[c].pc > Len(Handler(c).steps)
    /\ ult[c].stack # <<>> /\ Top(c) \in what
Popped(c) == [ult[c] EXCEPT !.run = "unwind", !.stack = Front(@)]

ReleaseBuffer(c) ==
    /\ Unwinding(c, {"release"})
    /\ CacheRelease(conf.cache, ult[c].buf)
    /\ ult' = [ult EXCEPT ![c] = [Popped(c) EXCEPT !.buf = Null]]
    /\ UNCHANGED <<conf, clientVars, mem, flying, served, faulted, finalized>>

FreeRequest(c) ==
    /\ Unwinding(c, {"free_input", "free_addr"})
    /\ ult' = [ult EXCEPT ![c] = Popped(c)]
    /\ UNCHANGED <<conf, clientVars, mem, flying, served, faulted, finalized,
                   cacheVars>>

\* The response is encoded and reaches the client, or the client's forward fails.  Nobody
\* looks at the result of margo_respond.
Respond(c) ==
    /\ Unwinding(c, {"respond"})
    /\ ult' = [ult EXCEPT ![c] = Popped(c)]
    /\ \/ /\ cl' = [cl EXCEPT ![c].run = "answered", ![c].ret = ult[c].ret,
                                ![c].out = ult[c].out]
          /\ UNCHANGED faulted
       \/ /\ MayFail("respond")
          /\ ClientReturns(c, "FromMercury")
          /\ faulted' = faulted \cup {c}
    /\ UNCHANGED <<conf, calls, exposed, mem, flying, served, finalized, cacheVars>>

\* The handle and the vectors go.
EndUlt(c) ==
    /\ Unwinding(c, {"locals", "destroy"})
    /\ ult' = [ult EXCEPT ![c] =
         IF Len(ult[c].stack) = 1 THEN NoUlt
         ELSE IF Top(c) = "locals" THEN [Popped(c) EXCEPT !.out = Blank]
         ELSE Popped(c)]
    /\ UNCHANGED <<conf, clientVars, mem, flying, served, faulted, finalized,
                   cacheVars>>

-----------------------------------------------------------------------------
\* Mercury completes a transfer that was started: it reads the buffer now.
Complete(f) ==
    /\ flying' = flying \ {f}
    /\ mem' = [mem EXCEPT ![f.to] = Pushed(f.to, f.from, f.regions)]
    /\ UNCHANGED <<conf, clientVars, ult, served, faulted, finalized, cacheVars>>

Idle(c) == cl[c].run = "idle" /\ ult[c].run = "none"

\* yk_finalize_provider once every request is over.
FinalizeCache ==
    /\ ~finalized
    /\ \A c \in Clients : Idle(c) /\ calls[c] = Len(conf.calls[c])
    /\ finalized' = TRUE
    /\ CacheFinalize(conf.cache)
    /\ UNCHANGED <<conf, clientVars, mem, ult, flying, served, faulted>>

UltStep(c) == ServerStep(c) \/ ReleaseBuffer(c) \/ FreeRequest(c) \/ Respond(c)
              \/ EndUlt(c)
ClientStep(c) == ClientLocalStep(c) \/ GetOutput(c) \/ Return(c)

Next ==
    \/ \E c \in Clients : Begin(c) \/ ClientStep(c) \/ UltStep(c)
    \/ \E f \in flying : Complete(f)
    \/ FinalizeCache

\* Every thread runs on and every transfer completes: Argobots schedules
\* the ULTs of a pool in turn and none of them waits but for a transfer.
Fairness ==
    /\ \A c \in Clients : WF_vars(ClientStep(c)) /\ WF_vars(UltStep(c))
    /\ WF_vars(\E f \in flying : Complete(f))

Spec == Init /\ [][Next]_vars /\ Fairness

-----------------------------------------------------------------------------
\* Properties.

\* When a handler checks its request or calls the database, each region it
\* hands over is what this client sent with this call: not what an earlier
\* request left in a cached buffer, not what lies at another place of the
\* client's memory, and not what another handler wrote meanwhile
\* (src/src/server/get.cpp and the other handlers).
DatabaseSeesRequest ==
    \A c \in Clients :
        (AtServer(c, "check") \/ AtServer(c, "call")) =>
            \A r \in RegionsOf(c) : Holds(c, r) = Sent(c, calls[c], r)

\* The regions the caller must find filled after a successful call.
Owed(c) == IF CallOf(c).absent THEN Fn(c).gets \ {"vals", "docs"} ELSE Fn(c).gets

Answered(c) == \A r \in Owed(c) : mem[c][r] = Answer(c, calls[c], r)

\* A call that returns success has been served once and its caller has the
\* answer to this very call; and a call with nothing wrong with it, during
\* which margo did not fail, is served and says so.
AnswersArrive ==
    \A c \in Clients :
        cl[c].run = "back" =>
            /\ cl[c].ret \in {"OK", "KeyNotFound"} /\ CallOf(c).bad # "nothing"
                 => served[c] = 1 /\ Answered(c)
            /\ /\ CallOf(c).bad = "none" /\ conf.attached
               /\ c \notin faulted /\ ~MayFail("call")
               => cl[c].ret \in {"OK", "KeyNotFound"}

\* While a transfer is under way its buffer is in use by the request it
\* belongs to and the client is still inside its call: neither side's memory
\* is given back before the transfer is over (margo_bulk_itransfer in
\* src/src/server/get.cpp and doc_load.cpp).
TransfersSafe ==
    \A f \in flying :
        /\ buf[f.from].at = "used" /\ ult[f.to].buf = f.from
        /\ cl[f.to].run = "waiting"
        /\ exposed[f.to] = "readwrite"

\* Two requests never hold the same buffer; a held buffer is large enough
\* and of the mode asked for; the count of buffers in use is right; a cached
\* buffer is in the list of its mode, once; the lru cache keeps no more than
\* its capacity; and once the cache is finalized no buffer is left.
BuffersAccounted ==
    LET holders == {c \in Clients : ult[c].buf # Null}
    IN  /\ \A c, d \in holders : ult[c].buf = ult[d].buf => c = d
        /\ \A c \in holders : LET held == buf[ult[c].buf] IN
              /\ held.at = "used" /\ held.mode = Handler(c).buffer
              /\ held.size >= CallOf(c).size
        /\ numInUse = Cardinality(holders)
        /\ \A m \in Modes :
              /\ IsInjective(queue[m])
              /\ ToSet(queue[m]) = {b \in Buffers : buf[b].at = "cached"
                                                   /\ buf[b].mode = m}
              /\ conf.cache.kind = "lru" => Len(queue[m]) <= conf.cache.capacity
        /\ finalized => \A b \in Buffers : buf[b].at = "none"

\* A call that is turned down for what it asks (arguments, sizes, mode,
\* filter), for want of a database or for want of a buffer has not touched
\* the database, and no invalid call ever reaches it.
RejectedMeansUntouched ==
    \A c \in Clients :
        /\ /\ cl[c].run = "back"
           /\ cl[c].ret \in {"InvalidArgs", "InvalidFilter", "ErrMode",
                             "InvalidDatabase", "Allocation"}
           => served[c] = 0
        /\ served[c] > 0 => CallOf(c).bad \in {"none"}

\* Every call returns, whatever margo does, and its ULT ends.
CallsReturn == \A c \in Clients : (~Idle(c)) ~> Idle(c)
=============================================================================
