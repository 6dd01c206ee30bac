------------------------------ MODULE RPCProofs ------------------------------
(***************************************************************************)
(* Proofs about RPC, for any number of clients, calls and buffers, for any *)
(* client functions and handlers that follow the assumptions, and whatever *)
(* call into margo fails.                                                  *)
(***************************************************************************)
EXTENDS RPC, TLAPS, FiniteSetTheorems, SequenceTheorems

\* The default cache counts a buffer before it knows whether it can make it
\* (src/src/buffer/default_bulk_cache.cpp:50), so nothing is said of what it
\* counts when the allocation may fail.
CountsRight(s) == s.cache.kind = "default" => "buffer" \notin s.faults

\* Between the start of a transfer and the wait for it a handler only pushes,
\* and these pushes do not fail: the code returns from a failed push without
\* the wait, and releases the buffer the transfer reads (src/src/server/
\* get.cpp:141).
WaitsFor(h, p) ==
    \E w \in DOMAIN h.steps :
        /\ p < w /\ h.steps[w].do = "wait"
        /\ \A q \in p + 1 .. w - 1 : h.steps[q].do = "push"

PushesAndWaits(s) ==
    \A c \in Clients : \A n \in DOMAIN s.calls[c] :
        LET h == s.calls[c][n].fn.rpc
        IN  \A p \in DOMAIN h.steps : h.steps[p].do = "ipush" =>
              WaitsFor(h, p) /\ "push" \notin s.faults

-----------------------------------------------------------------------------
(* The invariant *)

Data == {Junk} \cup (Clients \X Nat \X Regions \X {"sent", "answer"})
Memory == [Regions -> Data]

BufferRec == [at : {"none", "used", "cached"}, size : Nat, mode : Modes,
              data : [1 .. MaxRegions -> Data]]
Rets == {"OK", "KeyNotFound", "InvalidArgs", "InvalidFilter", "InvalidDatabase", "ErrMode",
         "Allocation", "FromMercury", "DatabaseError"}
Deferrals == {"locals", "destroy", "respond", "free_input", "free_addr", "release"}
UltRec == [run : {"none", "steps", "unwind"}, pc : Nat \ {0}, stack : Seq(Deferrals),
           buf : Buffers \cup {Null}, ret : Rets, in : Memory, out : Memory]
CallRec == [run : {"idle", "steps", "waiting", "answered", "back"}, pc : Nat,
            ret : Rets, out : Memory]
Transfer == [to : Clients, from : Buffers, regions : SUBSET Regions]

TypeInv ==
    /\ conf \in Setups
    /\ calls \in [Clients -> Nat]
    /\ cl \in [Clients -> CallRec]
    /\ exposed \in [Clients -> {"none", "readonly", "readwrite"}]
    /\ mem \in [Clients -> Memory]
    /\ ult \in [Clients -> UltRec]
    /\ flying \in SUBSET Transfer
    /\ served \in [Clients -> Nat]
    /\ finalized \in BOOLEAN
    /\ buf \in [Buffers -> BufferRec]
    /\ queue \in [Modes -> Seq(Buffers)]
    /\ numInUse \in Int

\* Where the request of a client is, seen from its two sides.
Control ==
    \A c \in Clients :
        /\ calls[c] <= Len(conf.calls[c])
        /\ cl[c].run # "idle" \/ ult[c].run # "none" => calls[c] >= 1
        /\ cl[c].run = "steps" => ult[c].run = "none"
        /\ ult[c].run = "steps" => cl[c].run = "waiting"
        /\ finalized => Idle(c) /\ calls[c] = Len(conf.calls[c])

\* A ULT has a buffer from the step that takes it until what is deferred to
\* release it has run.
OwnBuffer(c) ==
    /\ ult[c].run = "none" => ult[c].buf = Null
    /\ ult[c].buf # Null <=> \E n \in DOMAIN ult[c].stack : ult[c].stack[n] = "release"
    /\ \A m, n \in DOMAIN ult[c].stack :
         ult[c].stack[m] = "release" /\ ult[c].stack[n] = "release" => m = n
    /\ ult[c].run = "steps" =>
         (ult[c].buf # Null <=> \E q \in DOMAIN Handler(c).steps :
                                  q < ult[c].pc /\ Handler(c).steps[q].do = "buffer")
Deferred == \A c \in Clients : OwnBuffer(c)

\* The lists of the cache and the buffers that are in it.
Stored ==
    \A m \in Modes :
        /\ IsInjective(queue[m])
        /\ ToSet(queue[m]) = {b \in Buffers : buf[b].at = "cached" /\ buf[b].mode = m}
        /\ conf.cache.kind = "default" => queue[m] = <<>>
        /\ conf.cache.kind = "lru" => Len(queue[m]) <= conf.cache.capacity

\* The buffers in use and the ULTs that use them.
Holders == {c \in Clients : ult[c].buf # Null}
Held ==
    /\ \A b \in Buffers : buf[b].at = "used" <=> \E c \in Clients : ult[c].buf = b
    /\ \A c, d \in Holders : ult[c].buf = ult[d].buf => c = d
    /\ \A c \in Holders : /\ buf[ult[c].buf].mode = Handler(c).buffer
                          /\ buf[ult[c].buf].size >= CallOf(c).size
    /\ finalized => \A b \in Buffers : buf[b].at = "none"

\* The step of a ULT is behind one that starts a transfer, and not behind the
\* wait for it.
InFlight(c) ==
    \E p, w \in DOMAIN Handler(c).steps :
        /\ Handler(c).steps[p].do = "ipush" /\ p < ult[c].pc
        /\ Handler(c).steps[w].do = "wait" /\ ult[c].pc <= w
        /\ \A q \in p + 1 .. w - 1 : Handler(c).steps[q].do = "push"

Flights ==
    \A f \in flying :
        /\ ult[f.to].run = "steps" /\ ult[f.to].buf = f.from
        /\ exposed[f.to] = "readwrite" /\ buf[f.from].mode = "readwrite"
        /\ InFlight(f.to)

\* The count of buffers in use, when the default cache counts right.
Counted == CountsRight(conf) => numInUse = Cardinality(Holders)

Inv == TypeInv /\ Control /\ Deferred /\ Stored /\ Held /\ Counted

-----------------------------------------------------------------------------
(* What the steps do *)

StepRec == [do : STRING, regions : SUBSET Regions, more : SUBSET Regions,
            fills : SUBSET Regions]

\* A client that is in a call, or whose ULT has not ended, has a call.
LEMMA CallKnown ==
  ASSUME TypeInv, Control, NEW c \in Clients, cl[c].run # "idle" \/ ult[c].run # "none"
  PROVE  CallAssumption(CallOf(c)) /\ calls[c] \in DOMAIN conf.calls[c]
<1>1. calls[c] \in Nat /\ calls[c] >= 1 /\ calls[c] <= Len(conf.calls[c])
  BY DEF TypeInv, Control
<1>2. conf.calls[c] \in Seq(ToSet(conf.calls[c]))
  BY SetupsAssumption DEF SetupsAssumption, TypeInv
<1>3. calls[c] \in DOMAIN conf.calls[c]
  BY <1>1, <1>2
<1> QED BY <1>3, SetupsAssumption DEF SetupsAssumption, TypeInv, CallOf

\* The step of a ULT is one of its handler; when it needs the buffer it has one.
LEMMA StepKnown ==
  ASSUME TypeInv, Control, Deferred, NEW c \in Clients, NEW what, AtServer(c, what)
  PROVE  /\ CallAssumption(CallOf(c)) /\ ult[c].pc \in DOMAIN Handler(c).steps
         /\ Now(c) \in StepRec /\ Now(c).do = what /\ cl[c].run = "waiting"
         /\ UsesBuffer(Handler(c), Now(c)) => ult[c].buf \in Buffers
<1>1. ult[c].run = "steps" /\ cl[c].run = "waiting"
  BY DEF AtServer, Control
<1>2. CallAssumption(CallOf(c))
  BY <1>1, CallKnown
<1>3. HandlerAssumption(Handler(c))
  BY <1>2 DEF CallAssumption, Handler, Fn
<1>4. Handler(c).steps \in Seq(StepRec)
  BY <1>3 DEF HandlerAssumption, StepRec
<1>5. ult[c].pc \in Nat \ {0} /\ ult[c].buf \in Buffers \cup {Null}
  BY DEF TypeInv, UltRec
<1>6. ult[c].pc \in DOMAIN Handler(c).steps
  BY <1>4, <1>5 DEF AtServer
<1>7. Now(c) \in StepRec /\ Now(c).do = what
  BY <1>4, <1>6 DEF Now, AtServer
<1>8. ASSUME UsesBuffer(Handler(c), Now(c)) PROVE ult[c].buf \in Buffers
  <2>1. PICK q \in 1 .. ult[c].pc - 1 : Handler(c).steps[q].do = "buffer"
    BY <1>3, <1>6, <1>8 DEF HandlerAssumption, Now
  <2>2. q \in DOMAIN Handler(c).steps /\ q < ult[c].pc
    BY <1>4, <1>5, <1>6, <2>1
  <2>3. ult[c].buf # Null
    BY <1>1, <2>1, <2>2 DEF Deferred, OwnBuffer
  <2> QED BY <1>5, <2>3
<1> QED BY <1>1, <1>2, <1>6, <1>7, <1>8

\* Only the ULT of c has changed: it is at another step, or has another list of
\* what is deferred.
UltTo(c, run, pc, stack, b) ==
    /\ ult' \in [Clients -> UltRec]
    /\ ult'[c].run = run /\ ult'[c].pc = pc /\ ult'[c].stack = stack /\ ult'[c].buf = b
    /\ \A d \in Clients : d # c => ult'[d] = ult[d]

LEMMA NextStepDone ==
  ASSUME TypeInv, NEW c \in Clients, NEW deferred \in Seq(Deferrals), NextStep(c, deferred)
  PROVE  UltTo(c, ult[c].run, ult[c].pc + 1, ult[c].stack \o deferred, ult[c].buf)
<1>1. ult[c] \in UltRec /\ ult \in [Clients -> UltRec]
  BY DEF TypeInv
<1>2. PICK u : u = [ult[c] EXCEPT !.pc = @ + 1, !.stack = @ \o deferred]
  OBVIOUS
<1>3. ult' = [ult EXCEPT ![c] = u]
  BY <1>2 DEF NextStep
<1>a. ult[c].stack \o deferred \in Seq(Deferrals) /\ ult[c].pc + 1 \in Nat \ {0}
  BY <1>1 DEF UltRec
<1>4. u \in UltRec
  BY <1>1, <1>2, <1>a DEF UltRec
<1>5. /\ u.run = ult[c].run /\ u.pc = ult[c].pc + 1 /\ u.stack = ult[c].stack \o deferred
      /\ u.buf = ult[c].buf
  BY <1>1, <1>2 DEF UltRec
<1> QED BY <1>1, <1>3, <1>4, <1>5 DEF UltTo

LEMMA StopDone ==
  ASSUME TypeInv, NEW c \in Clients, NEW ret \in Rets, Stop(c, ret)
  PROVE  UltTo(c, "unwind", ult[c].pc, ult[c].stack, ult[c].buf)
<1>1. ult[c] \in UltRec /\ ult \in [Clients -> UltRec]
  BY DEF TypeInv
<1>2. PICK u : u = [ult[c] EXCEPT !.run = "unwind", !.ret = ret]
  OBVIOUS
<1>3. ult' = [ult EXCEPT ![c] = u]
  BY <1>2 DEF Stop
<1>4. u \in UltRec
  BY <1>1, <1>2 DEF UltRec
<1>5. /\ u.run = "unwind" /\ u.pc = ult[c].pc /\ u.stack = ult[c].stack
      /\ u.buf = ult[c].buf
  BY <1>1, <1>2 DEF UltRec
<1> QED BY <1>1, <1>3, <1>4, <1>5 DEF UltTo

LEMMA PoppedDone ==
  ASSUME TypeInv, NEW c \in Clients, ult[c].stack # <<>>
  PROVE  /\ Popped(c) \in UltRec /\ Front(ult[c].stack) \in Seq(Deferrals)
         /\ Popped(c).run = "unwind" /\ Popped(c).stack = Front(ult[c].stack)
         /\ Popped(c).pc = ult[c].pc /\ Popped(c).buf = ult[c].buf
<1>1. ult[c] \in UltRec /\ ult[c].stack \in Seq(Deferrals)
  BY DEF TypeInv, UltRec
<1>2. Front(ult[c].stack) \in Seq(Deferrals)
  BY <1>1 DEF Front
<1> QED BY <1>1, <1>2 DEF Popped, UltRec

-----------------------------------------------------------------------------
(* The steps of a ULT that leave the buffers where they are *)

\* A ULT goes on to its next step, or ends early.
GoesOn(c) ==
    \E d \in Seq(Deferrals) :
        /\ \A n \in DOMAIN d : d[n] # "release"
        /\ UltTo(c, "steps", ult[c].pc + 1, ult[c].stack \o d, ult[c].buf)
GivesUp(c) == UltTo(c, "unwind", ult[c].pc, ult[c].stack, ult[c].buf)

\* Nothing but the content of buffers has changed.
BuffersKept ==
    /\ buf' \in [Buffers -> BufferRec]
    /\ \A b \in Buffers : /\ buf'[b].at = buf[b].at /\ buf'[b].mode = buf[b].mode
                          /\ buf'[b].size = buf[b].size
    /\ queue' = queue /\ numInUse' = numInUse

LEMMA CacheUnchanged == ASSUME TypeInv, UNCHANGED cacheVars PROVE BuffersKept
BY DEF TypeInv, cacheVars, BuffersKept

LEMMA OnePlain ==
  ASSUME TypeInv, NEW c \in Clients, ult[c].run = "steps",
         NEW what \in Deferrals, what # "release",
         NextStep(c, <<what>>)
  PROVE  GoesOn(c)
<1>1. <<what>> \in Seq(Deferrals) /\ \A n \in DOMAIN <<what>> : <<what>>[n] # "release"
  OBVIOUS
<1> QED BY <1>1, NextStepDone DEF GoesOn

LEMMA NextPlain ==
  ASSUME TypeInv, NEW c \in Clients, ult[c].run = "steps", NextStep(c, <<>>)
  PROVE  GoesOn(c)
<1>1. <<>> \in Seq(Deferrals) /\ \A n \in DOMAIN <<>> : <<>>[n] # "release"
  OBVIOUS
<1> QED BY <1>1, NextStepDone DEF GoesOn

LEMMA FailureStops ==
  ASSUME TypeInv, NEW c \in Clients, NEW what, NEW allowed,
         ServerFails(c, what) \/ TransferFails(c, what, allowed)
  PROVE  GivesUp(c)
<1>1. Stop(c, "FromMercury") /\ "FromMercury" \in Rets
  BY DEF Rets, ServerFails, TransferFails
<1> QED BY <1>1, StopDone DEF GivesUp

\* The steps that look at the request, and the wait, change the ULT only.
LEMMA PlainSteps ==
  ASSUME TypeInv, NEW c \in Clients,
         \/ GetInput(c) \/ LookupOrigin(c) \/ CheckDatabase(c)
         \/ CheckModeSupported(c) \/ CheckRequest(c) \/ WaitPush(c)
  PROVE  /\ GoesOn(c) \/ GivesUp(c)
         /\ BuffersKept /\ UNCHANGED <<mem, flying, served>>
         /\ ult[c].run = "steps"
<1>1. CASE GetInput(c)
  <2>1. ult[c].run = "steps" /\ BuffersKept /\ UNCHANGED <<mem, flying, served>>
    BY <1>1, CacheUnchanged DEF GetInput, AtServer
  <2>2. NextStep(c, <<"free_input">>) \/ ServerFails(c, "input")
    BY <1>1 DEF GetInput
  <2>3. "free_input" \in Deferrals /\ "free_input" # "release"
    BY DEF Deferrals
  <2> QED BY <2>1, <2>2, <2>3, OnePlain, FailureStops
<1>2. CASE LookupOrigin(c)
  <2>1. ult[c].run = "steps" /\ BuffersKept /\ UNCHANGED <<mem, flying, served>>
    BY <1>2, CacheUnchanged DEF LookupOrigin, AtServer
  <2>2. NextStep(c, <<"free_addr">>) \/ ServerFails(c, "origin")
    BY <1>2 DEF LookupOrigin
  <2>3. "free_addr" \in Deferrals /\ "free_addr" # "release"
    BY DEF Deferrals
  <2> QED BY <2>1, <2>2, <2>3, OnePlain, FailureStops
<1>3. CASE CheckDatabase(c)
  <2>1. ult[c].run = "steps" /\ BuffersKept /\ UNCHANGED <<mem, flying, served>>
    BY <1>3, CacheUnchanged DEF CheckDatabase, AtServer
  <2>2. NextStep(c, <<>>) \/ Stop(c, "InvalidDatabase")
    BY <1>3 DEF CheckDatabase
  <2>3. "InvalidDatabase" \in Rets
    BY DEF Rets
  <2> QED BY <2>1, <2>2, <2>3, NextPlain, StopDone DEF GivesUp
<1>4. CASE CheckModeSupported(c)
  <2>1. ult[c].run = "steps" /\ BuffersKept /\ UNCHANGED <<mem, flying, served>>
    BY <1>4, CacheUnchanged DEF CheckModeSupported, AtServer
  <2>2. NextStep(c, <<>>) \/ Stop(c, "ErrMode")
    BY <1>4 DEF CheckModeSupported
  <2>3. "ErrMode" \in Rets
    BY DEF Rets
  <2> QED BY <2>1, <2>2, <2>3, NextPlain, StopDone DEF GivesUp
<1>5. CASE CheckRequest(c)
  <2>1. ult[c].run = "steps" /\ BuffersKept /\ UNCHANGED <<mem, flying, served>>
    BY <1>5, CacheUnchanged DEF CheckRequest, AtServer
  <2>2. NextStep(c, <<>>) \/ Stop(c, Found(c))
    BY <1>5 DEF CheckRequest
  <2>3. Found(c) \in Rets
    BY DEF Found, Rets
  <2> QED BY <2>1, <2>2, <2>3, NextPlain, StopDone DEF GivesUp
<1>6. CASE WaitPush(c)
  <2>1. ult[c].run = "steps" /\ BuffersKept /\ UNCHANGED <<mem, flying, served>>
    BY <1>6, CacheUnchanged DEF WaitPush, AtServer
  <2> QED BY <1>6, <2>1, NextPlain DEF WaitPush
<1> QED BY <1>1, <1>2, <1>3, <1>4, <1>5, <1>6

-----------------------------------------------------------------------------
(* The steps of a ULT that read and write its buffer *)

\* What is read and written stays data of the memory.
LEMMA Words ==
  ASSUME TypeInv, NEW c \in Clients, NEW r \in Regions
  PROVE  Sent(c, calls[c], r) \in Data /\ Answer(c, calls[c], r) \in Data
BY DEF Sent, Answer, Data, TypeInv

LEMMA Layouts ==
  ASSUME NEW c \in Clients, CallAssumption(CallOf(c))
  PROVE  /\ Handler(c).layout \in Seq(Regions) /\ Fn(c).layout \in Seq(Regions)
         /\ Len(Handler(c).layout) \in 0 .. MaxRegions
         /\ Len(Fn(c).layout) = Len(Handler(c).layout)
         /\ \A p \in DOMAIN Fn(c).layout : p \in 1 .. MaxRegions /\ Fn(c).layout[p] \in Regions
         /\ \A r \in Regions : InLayout(c, r) => Position(c, r) \in 1 .. MaxRegions
                                                /\ Handler(c).layout[Position(c, r)] = r
<1>0. /\ HandlerAssumption(Handler(c)) /\ Fn(c).layout \in Seq(Regions)
      /\ Len(Fn(c).layout) = Len(Handler(c).layout)
  BY DEF CallAssumption, Handler, Fn
<1>a. Handler(c).layout \in Seq(Regions) /\ Len(Handler(c).layout) <= MaxRegions
  BY <1>0 DEF HandlerAssumption
<1>b. PICK n : n = Len(Handler(c).layout)
  OBVIOUS
<1>c. n \in Nat /\ n <= MaxRegions
  BY <1>a, <1>b
<1>d. n \in 0 .. MaxRegions
  BY <1>c DEF MaxRegions
<1>1. /\ Handler(c).layout \in Seq(Regions) /\ Fn(c).layout \in Seq(Regions)
      /\ Len(Handler(c).layout) \in 0 .. MaxRegions
      /\ Len(Fn(c).layout) = Len(Handler(c).layout)
  BY <1>0, <1>a, <1>b, <1>d
<1>2. \A p \in DOMAIN Fn(c).layout : p \in 1 .. MaxRegions /\ Fn(c).layout[p] \in Regions
  BY <1>1 DEF MaxRegions
<1>3. ASSUME NEW r \in Regions, InLayout(c, r)
      PROVE  Position(c, r) \in 1 .. MaxRegions /\ Handler(c).layout[Position(c, r)] = r
  <2>1. PICK p \in DOMAIN Handler(c).layout : Handler(c).layout[p] = r
    BY <1>3 DEF InLayout, ToSet
  <2>2. PICK q : q = CHOOSE x \in DOMAIN Handler(c).layout : Handler(c).layout[x] = r
    OBVIOUS
  <2>3. q \in DOMAIN Handler(c).layout /\ Handler(c).layout[q] = r
    BY <2>1, <2>2
  <2>4. q \in 1 .. MaxRegions
    BY <1>1, <2>3 DEF MaxRegions
  <2> QED BY <2>2, <2>3, <2>4 DEF Position
<1> QED BY <1>1, <1>2, <1>3

LEMMA PulledTyped ==
  ASSUME TypeInv, NEW c \in Clients, CallAssumption(CallOf(c)), ult[c].buf \in Buffers, NEW rs
  PROVE  Pulled(c, rs) \in [1 .. MaxRegions -> Data]
<1> SUFFICES ASSUME NEW p \in 1 .. MaxRegions
             PROVE  (IF p <= Len(Handler(c).layout) /\ Handler(c).layout[p] \in rs
                     THEN mem[c][Fn(c).layout[p]] ELSE buf[ult[c].buf].data[p]) \in Data
  BY DEF Pulled
<1>1. buf[ult[c].buf].data[p] \in Data
  BY DEF TypeInv, BufferRec
<1>2. ASSUME p <= Len(Handler(c).layout) PROVE mem[c][Fn(c).layout[p]] \in Data
  <2>1. p \in DOMAIN Fn(c).layout
    BY <1>2, Layouts DEF MaxRegions
  <2>2. Fn(c).layout[p] \in Regions
    BY <2>1, Layouts
  <2> QED BY <2>2 DEF TypeInv, Memory
<1> QED BY <1>1, <1>2

LEMMA PushedTyped ==
  ASSUME TypeInv, NEW c \in Clients, CallAssumption(CallOf(c)), NEW b \in Buffers, NEW rs
  PROVE  Pushed(c, b, rs) \in Memory
<1> DEFINE goes(r, p) == Fn(c).layout[p] = r
<1> SUFFICES ASSUME NEW r \in Regions
             PROVE  (IF \E p \in DOMAIN Fn(c).layout :
                          goes(r, p) /\ Handler(c).layout[p] \in rs
                     THEN buf[b].data[CHOOSE p \in DOMAIN Fn(c).layout : goes(r, p)]
                     ELSE mem[c][r]) \in Data
  BY DEF Pushed, Memory
<1>1. mem[c][r] \in Data
  BY DEF TypeInv, Memory
<1>2. ASSUME NEW p \in DOMAIN Fn(c).layout, goes(r, p)
      PROVE  buf[b].data[CHOOSE q \in DOMAIN Fn(c).layout : goes(r, q)] \in Data
  <2>1. PICK q : q = CHOOSE x \in DOMAIN Fn(c).layout : goes(r, x)
    OBVIOUS
  <2>2. q \in DOMAIN Fn(c).layout
    BY <1>2, <2>1
  <2>3. q \in 1 .. MaxRegions
    BY <2>2, Layouts
  <2>4. buf[b] \in BufferRec
    BY DEF TypeInv
  <2>5. buf[b].data \in [1 .. MaxRegions -> Data]
    BY <2>4 DEF BufferRec
  <2>6. buf[b].data[q] \in Data
    BY <2>3, <2>5
  <2> QED BY <2>1, <2>6
<1> QED BY <1>1, <1>2

LEMMA HoldsTyped ==
  ASSUME TypeInv, NEW c \in Clients, CallAssumption(CallOf(c)), NEW r \in Regions,
         InLayout(c, r) => ult[c].buf \in Buffers
  PROVE  Holds(c, r) \in Data
<1>1. CASE InLayout(c, r)
  <2>1. Position(c, r) \in 1 .. MaxRegions
    BY <1>1, Layouts
  <2> QED BY <1>1, <2>1 DEF Holds, TypeInv, BufferRec
<1>2. CASE ~InLayout(c, r)
  BY <1>2 DEF Holds, TypeInv, UltRec, Memory
<1> QED BY <1>1, <1>2

\* New content for one buffer.
LEMMA ContentKept ==
  ASSUME TypeInv, NEW b \in Buffers, NEW content \in [1 .. MaxRegions -> Data],
         buf' = [buf EXCEPT ![b].data = content], UNCHANGED <<queue, numInUse>>
  PROVE  BuffersKept
<1>1. buf[b] \in BufferRec /\ buf \in [Buffers -> BufferRec]
  BY DEF TypeInv
<1>2. PICK x : x = [buf[b] EXCEPT !.data = content]
  OBVIOUS
<1>3. x \in BufferRec /\ x.at = buf[b].at /\ x.mode = buf[b].mode /\ x.size = buf[b].size
  BY <1>1, <1>2 DEF BufferRec
<1>4. buf' = [buf EXCEPT ![b] = x]
  BY <1>2
<1> QED BY <1>1, <1>3, <1>4 DEF BuffersKept

LEMMA PullStep ==
  ASSUME TypeInv, Control, Deferred, NEW c \in Clients, PullRegions(c)
  PROVE  (GoesOn(c) \/ GivesUp(c)) /\ BuffersKept /\ UNCHANGED <<mem, flying, served>>
<1>0. ult[c].run = "steps" /\ UNCHANGED <<mem, flying, served, queue, numInUse>>
  BY DEF PullRegions, AtServer
<1>1. /\ CallAssumption(CallOf(c)) /\ Now(c).do = "pull"
      /\ UsesBuffer(Handler(c), Now(c)) => ult[c].buf \in Buffers
  BY StepKnown DEF PullRegions
<1>2. ult[c].buf \in Buffers
  BY <1>1 DEF UsesBuffer
<1>3. CASE /\ buf' = [buf EXCEPT ![ult[c].buf].data = Pulled(c, RegionsOf(c))]
           /\ NextStep(c, <<>>)
  <2>1. Pulled(c, RegionsOf(c)) \in [1 .. MaxRegions -> Data]
    BY <1>1, <1>2, PulledTyped
  <2>2. BuffersKept
    BY <1>0, <1>2, <1>3, <2>1, ContentKept
  <2> QED BY <1>0, <1>3, <2>2, NextPlain
<1>4. CASE TransferFails(c, "pull", MayPull(c)) /\ UNCHANGED buf
  <2>1. BuffersKept
    BY <1>0, <1>4, CacheUnchanged DEF cacheVars
  <2> QED BY <1>0, <1>4, <2>1, FailureStops
<1> QED BY <1>3, <1>4 DEF PullRegions

LEMMA PushStep ==
  ASSUME TypeInv, Control, Deferred, NEW c \in Clients, PushRegions(c)
  PROVE  /\ GoesOn(c) \/ GivesUp(c)
         /\ BuffersKept /\ UNCHANGED <<flying, served>> /\ mem' \in [Clients -> Memory]
<1>0. ult[c].run = "steps" /\ UNCHANGED <<flying, served, cacheVars>>
  BY DEF PushRegions, AtServer
<1>1. /\ CallAssumption(CallOf(c)) /\ Now(c).do = "push"
      /\ UsesBuffer(Handler(c), Now(c)) => ult[c].buf \in Buffers
  BY StepKnown DEF PushRegions
<1>2. ult[c].buf \in Buffers
  BY <1>1 DEF UsesBuffer
<1>3. BuffersKept
  BY <1>0, CacheUnchanged
<1>4. CASE /\ mem' = [mem EXCEPT ![c] = Pushed(c, ult[c].buf, Now(c).regions)]
           /\ NextStep(c, <<>>)
  <2>1. Pushed(c, ult[c].buf, Now(c).regions) \in Memory
    BY <1>1, <1>2, PushedTyped
  <2>2. mem' \in [Clients -> Memory]
    BY <1>4, <2>1 DEF TypeInv
  <2> QED BY <1>0, <1>3, <1>4, <2>2, NextPlain
<1>5. CASE TransferFails(c, "push", MayPush(c)) /\ UNCHANGED mem
  <2>1. mem' \in [Clients -> Memory]
    BY <1>5 DEF TypeInv
  <2> QED BY <1>0, <1>3, <1>5, <2>1, FailureStops
<1> QED BY <1>4, <1>5 DEF PushRegions

LEMMA StartStep ==
  ASSUME TypeInv, Control, Deferred, NEW c \in Clients, StartPush(c)
  PROVE  /\ GoesOn(c) \/ GivesUp(c)
         /\ BuffersKept /\ UNCHANGED <<mem, served>> /\ flying' \in SUBSET Transfer
         /\ \/ flying' = flying
            \/ /\ MayPush(c) /\ GoesOn(c) /\ ult[c].buf \in Buffers
               /\ flying' = flying \cup {[to |-> c, from |-> ult[c].buf,
                                          regions |-> Now(c).regions]}
<1>0. ult[c].run = "steps" /\ UNCHANGED <<mem, served, cacheVars>>
  BY DEF StartPush, AtServer
<1>1. /\ Now(c) \in StepRec /\ Now(c).do = "ipush"
      /\ UsesBuffer(Handler(c), Now(c)) => ult[c].buf \in Buffers
  BY StepKnown DEF StartPush
<1>2. ult[c].buf \in Buffers /\ Now(c).regions \in SUBSET Regions
  BY <1>1 DEF UsesBuffer, StepRec
<1>3. BuffersKept
  BY <1>0, CacheUnchanged
<1>4. CASE flying' = flying /\ NextStep(c, <<>>)
  <2>1. flying' \in SUBSET Transfer
    BY <1>4 DEF TypeInv
  <2> QED BY <1>0, <1>3, <1>4, <2>1, NextPlain
<1>5. CASE flying' = flying /\ Stop(c, "FromMercury")
  <2>1. flying' \in SUBSET Transfer
    BY <1>5 DEF TypeInv
  <2>2. GivesUp(c)
    BY <1>5, StopDone DEF GivesUp, Rets
  <2> QED BY <1>0, <1>3, <1>5, <2>1, <2>2
<1>6. CASE flying' = flying /\ TransferFails(c, "ipush", MayPush(c))
  BY <1>5, <1>6 DEF TransferFails
<1>7. CASE /\ MayPush(c) /\ NextStep(c, <<>>)
           /\ flying' = flying \cup {[to |-> c, from |-> ult[c].buf,
                                      regions |-> Now(c).regions]}
  <2>1. flying' \in SUBSET Transfer
    BY <1>2, <1>7 DEF TypeInv, Transfer
  <2> QED BY <1>0, <1>2, <1>3, <1>7, <2>1, NextPlain
<1> QED BY <1>4, <1>5, <1>6, <1>7 DEF StartPush

LEMMA OutputStep ==
  ASSUME TypeInv, Control, Deferred, NEW c \in Clients, FillOutput(c)
  PROVE  GoesOn(c) /\ BuffersKept /\ UNCHANGED <<mem, flying, served>>
<1>0. ult[c].run = "steps" /\ UNCHANGED <<mem, flying, served, cacheVars>>
  BY DEF FillOutput, AtServer
<1>1. /\ CallAssumption(CallOf(c)) /\ Now(c) \in StepRec
      /\ UsesBuffer(Handler(c), Now(c)) => ult[c].buf \in Buffers
  BY StepKnown DEF FillOutput
<1>2. ult[c] \in UltRec /\ ult \in [Clients -> UltRec]
  BY DEF TypeInv
<1>3. PICK o : o = [r \in Regions |-> IF r \in Now(c).regions
                                      THEN Holds(c, r) ELSE ult[c].out[r]]
  OBVIOUS
<1>4. ASSUME NEW r \in Regions, r \in Now(c).regions PROVE Holds(c, r) \in Data
  <2>1. InLayout(c, r) => ult[c].buf \in Buffers
    BY <1>1, <1>4 DEF InLayout, UsesBuffer
  <2> QED BY <1>1, <2>1, HoldsTyped
<1>5. ASSUME NEW r \in Regions PROVE ult[c].out[r] \in Data
  BY <1>2 DEF UltRec, Memory
<1>6. o \in Memory
  BY <1>3, <1>4, <1>5 DEF Memory
<1>7. PICK u : u = [ult[c] EXCEPT !.pc = @ + 1, !.out = o]
  OBVIOUS
<1>a. ult[c].pc + 1 \in Nat \ {0}
  BY <1>2 DEF UltRec
<1>b. u \in UltRec
  BY <1>2, <1>6, <1>7, <1>a DEF UltRec
<1>8. /\ u \in UltRec /\ u.run = ult[c].run /\ u.pc = ult[c].pc + 1
      /\ u.stack = ult[c].stack /\ u.buf = ult[c].buf
  BY <1>2, <1>7, <1>b DEF UltRec
<1>9. ult' = [ult EXCEPT ![c] = u]
  BY <1>3, <1>7 DEF FillOutput
<1>10. UltTo(c, "steps", ult[c].pc + 1, ult[c].stack, ult[c].buf)
  BY <1>0, <1>2, <1>8, <1>9 DEF UltTo
<1>11. GoesOn(c)
  <2>1. /\ <<>> \in Seq(Deferrals) /\ \A n \in DOMAIN <<>> : <<>>[n] # "release"
        /\ ult[c].stack \o <<>> = ult[c].stack
    BY <1>2 DEF UltRec
  <2> QED BY <1>10, <2>1 DEF GoesOn
<1> QED BY <1>0, <1>11, CacheUnchanged

LEMMA CallStep ==
  ASSUME TypeInv, Control, Deferred, NEW c \in Clients, CallDatabase(c)
  PROVE  /\ GoesOn(c) \/ GivesUp(c)
         /\ BuffersKept /\ UNCHANGED <<mem, flying>> /\ served' \in [Clients -> Nat]
<1>0. /\ ult[c].run = "steps" /\ UNCHANGED <<mem, flying, queue, numInUse>>
      /\ served' \in [Clients -> Nat]
  BY DEF CallDatabase, AtServer, TypeInv
<1>1. CallAssumption(CallOf(c)) /\ ult[c] \in UltRec /\ ult \in [Clients -> UltRec]
  BY StepKnown DEF CallDatabase, TypeInv
<1> DEFINE answer(r) == Answer(c, calls[c], r)
           input == [r \in Regions |-> IF r \in Now(c).fills /\ ~InLayout(c, r)
                                       THEN answer(r) ELSE ult[c].in[r]]
           content == [p \in 1 .. MaxRegions |->
                         IF p <= Len(Handler(c).layout) /\ Handler(c).layout[p] \in Now(c).fills
                         THEN answer(Handler(c).layout[p]) ELSE buf[ult[c].buf].data[p]]
<1>2. CASE /\ ult' = [ult EXCEPT ![c].pc = @ + 1, ![c].in = input]
           /\ buf' = IF ult[c].buf = Null THEN buf
                     ELSE [buf EXCEPT ![ult[c].buf].data = content]
  <2>1. input \in Memory
    <3>1. ASSUME NEW r \in Regions PROVE answer(r) \in Data /\ ult[c].in[r] \in Data
      BY <1>1, Words DEF UltRec, Memory
    <3> QED BY <3>1 DEF Memory
  <2>2. ASSUME ult[c].buf \in Buffers PROVE content \in [1 .. MaxRegions -> Data]
    <3>1. ASSUME NEW p \in 1 .. MaxRegions, p <= Len(Handler(c).layout)
          PROVE  answer(Handler(c).layout[p]) \in Data
      <4>1. p \in DOMAIN Fn(c).layout /\ p \in DOMAIN Handler(c).layout
        BY <1>1, <3>1, Layouts DEF MaxRegions
      <4>2. Handler(c).layout[p] \in Regions
        BY <1>1, <4>1, Layouts
      <4> QED BY <4>2, Words
    <3>2. ASSUME NEW p \in 1 .. MaxRegions PROVE buf[ult[c].buf].data[p] \in Data
      BY <2>2 DEF TypeInv, BufferRec
    <3> QED BY <3>1, <3>2
  <2>3. BuffersKept
    <3>1. CASE ult[c].buf = Null
      BY <1>0, <1>2, <3>1, CacheUnchanged DEF cacheVars
    <3>2. CASE ult[c].buf # Null
      <4>1. ult[c].buf \in Buffers
        BY <1>1, <3>2 DEF UltRec
      <4>2. PICK w : w = content
        OBVIOUS
      <4>3. buf' = [buf EXCEPT ![ult[c].buf].data = w]
        BY <1>2, <3>2, <4>2
      <4> HIDE DEF content
      <4> QED BY <1>0, <2>2, <4>1, <4>2, <4>3, ContentKept
    <3> QED BY <3>1, <3>2
  <2>4. PICK i : i = input
    OBVIOUS
  <2>5. PICK u : u = [ult[c] EXCEPT !.pc = @ + 1, !.in = i]
    OBVIOUS
  <2>6. ult' = [ult EXCEPT ![c] = u]
    <3>1. ult' = [ult EXCEPT ![c].pc = @ + 1, ![c].in = i]
      BY <1>2, <2>4
    <3> HIDE DEF input
    <3> QED BY <1>1, <2>5, <3>1
  <2>7. ult[c].pc + 1 \in Nat \ {0}
    BY <1>1 DEF UltRec
  <2>8. i \in Memory
    BY <2>1, <2>4
  <2>9. u \in UltRec
    BY <1>1, <2>5, <2>7, <2>8 DEF UltRec
  <2>10. /\ u.run = ult[c].run /\ u.pc = ult[c].pc + 1
         /\ u.stack = ult[c].stack /\ u.buf = ult[c].buf
    BY <1>1, <2>5 DEF UltRec
  <2>11. UltTo(c, "steps", ult[c].pc + 1, ult[c].stack, ult[c].buf)
    BY <1>0, <1>1, <2>6, <2>9, <2>10 DEF UltTo
  <2>12. /\ <<>> \in Seq(Deferrals) /\ \A n \in DOMAIN <<>> : <<>>[n] # "release"
         /\ ult[c].stack \o <<>> = ult[c].stack
    BY <1>1 DEF UltRec
  <2>13. GoesOn(c)
    BY <2>11, <2>12 DEF GoesOn
  <2> QED BY <1>0, <2>3, <2>13
<1>3. CASE Stop(c, "DatabaseError") /\ UNCHANGED buf
  <2>1. GivesUp(c)
    BY <1>3, StopDone DEF GivesUp, Rets
  <2>2. BuffersKept
    BY <1>0, <1>3, CacheUnchanged DEF cacheVars
  <2> QED BY <1>0, <2>1, <2>2
<1> QED BY <1>2, <1>3 DEF CallDatabase

-----------------------------------------------------------------------------
(* The cache: what its operations do to its lists and buffers *)

LEMMA AtFront ==
  ASSUME NEW S, NEW q \in Seq(S), NEW b \in S, IsInjective(q), b \notin ToSet(q)
  PROVE  /\ <<b>> \o q \in Seq(S) /\ IsInjective(<<b>> \o q)
         /\ ToSet(<<b>> \o q) = ToSet(q) \cup {b} /\ Len(<<b>> \o q) = Len(q) + 1
<1>1. PICK n : n = Len(q)
  OBVIOUS
<1>2. n \in Nat /\ DOMAIN q = 1 .. n
  BY <1>1
<1>3. PICK s : s = <<b>> \o q
  OBVIOUS
<1>4. /\ s \in Seq(S) /\ Len(s) = n + 1 /\ DOMAIN s = 1 .. n + 1
      /\ s[1] = b /\ \A i \in 2 .. n + 1 : s[i] = q[i - 1]
  BY <1>1, <1>2, <1>3
<1>5. \A i \in 1 .. n : q[i] \in ToSet(q)
  BY <1>2 DEF ToSet
<1>6. \A i \in 2 .. n + 1 : i - 1 \in 1 .. n
  BY <1>2
<1>7. IsInjective(s)
  <2> SUFFICES ASSUME NEW i \in 1 .. n + 1, NEW j \in 1 .. n + 1, s[i] = s[j] PROVE i = j
    BY <1>4 DEF IsInjective
  <2>1. CASE i = 1 /\ j = 1
    BY <2>1
  <2>2. CASE i = 1 /\ j # 1
    BY <1>2, <1>4, <1>5, <1>6, <2>2
  <2>3. CASE i # 1 /\ j = 1
    BY <1>2, <1>4, <1>5, <1>6, <2>3
  <2>4. CASE i # 1 /\ j # 1
    <3>1. i \in 2 .. n + 1 /\ j \in 2 .. n + 1
      BY <1>2, <2>4
    <3>2. q[i - 1] = q[j - 1] /\ i - 1 \in DOMAIN q /\ j - 1 \in DOMAIN q
      BY <1>2, <1>4, <1>6, <3>1
    <3>3. i - 1 = j - 1
      BY <3>2 DEF IsInjective
    <3> QED BY <1>2, <3>1, <3>3
  <2> QED BY <2>1, <2>2, <2>3, <2>4
<1>8. ToSet(s) = ToSet(q) \cup {b}
  <2>1. ASSUME NEW x \in ToSet(s) PROVE x \in ToSet(q) \cup {b}
    <3>1. PICK i \in 1 .. n + 1 : x = s[i]
      BY <1>4, <2>1 DEF ToSet
    <3>2. CASE i = 1
      BY <1>4, <3>1, <3>2
    <3>3. CASE i # 1
      <4>1. i \in 2 .. n + 1
        BY <1>2, <3>3
      <4> QED BY <1>4, <1>5, <1>6, <3>1, <4>1
    <3> QED BY <3>2, <3>3
  <2>2. b \in ToSet(s)
    <3>1. 1 \in DOMAIN s
      BY <1>2, <1>4
    <3> QED BY <1>4, <3>1 DEF ToSet
  <2>3. ASSUME NEW x \in ToSet(q) PROVE x \in ToSet(s)
    <3>1. PICK i \in 1 .. n : x = q[i]
      BY <1>2, <2>3 DEF ToSet
    <3>2. i + 1 \in 2 .. n + 1 /\ (i + 1) - 1 = i /\ i + 1 \in DOMAIN s
      BY <1>2, <1>4
    <3>3. s[i + 1] = x
      BY <1>4, <3>1, <3>2
    <3> QED BY <3>2, <3>3 DEF ToSet
  <2> QED BY <2>1, <2>2, <2>3
<1> QED BY <1>1, <1>3, <1>4, <1>7, <1>8

LEMMA WithoutOne ==
  ASSUME NEW S, NEW q \in Seq(S), IsInjective(q), NEW k \in DOMAIN q, NEW s \in Seq(S),
         Len(s) = Len(q) - 1,
         \A i \in 1 .. Len(q) - 1 : i < k => s[i] = q[i],
         \A i \in 1 .. Len(q) - 1 : ~(i < k) => s[i] = q[i + 1]
  PROVE  IsInjective(s) /\ ToSet(s) = ToSet(q) \ {q[k]}
<1>1. PICK n : n = Len(q)
  OBVIOUS
<1>2. n \in Nat /\ DOMAIN q = 1 .. n /\ k \in 1 .. n /\ DOMAIN s = 1 .. n - 1
  BY <1>1
<1> DEFINE at(i) == IF i < k THEN i ELSE i + 1
<1>3. \A i \in 1 .. n - 1 : at(i) \in 1 .. n /\ at(i) # k /\ s[i] = q[at(i)]
  BY <1>1, <1>2
<1>4. \A i, j \in 1 .. n - 1 : at(i) = at(j) => i = j
  BY <1>2
<1>5. IsInjective(s)
  <2> SUFFICES ASSUME NEW i \in 1 .. n - 1, NEW j \in 1 .. n - 1, s[i] = s[j] PROVE i = j
    BY <1>2 DEF IsInjective
  <2>1. at(i) \in DOMAIN q /\ at(j) \in DOMAIN q /\ q[at(i)] = q[at(j)]
    BY <1>2, <1>3
  <2> HIDE DEF at
  <2>2. at(i) = at(j)
    BY <2>1 DEF IsInjective
  <2> QED BY <1>4, <2>2
<1>6. ASSUME NEW x \in ToSet(s) PROVE x \in ToSet(q) \ {q[k]}
  <2>1. PICK i \in 1 .. n - 1 : x = s[i]
    BY <1>2, <1>6 DEF ToSet
  <2>2. x = q[at(i)] /\ at(i) \in DOMAIN q /\ at(i) # k
    BY <1>2, <1>3, <2>1
  <2>3. x \in ToSet(q)
    BY <2>2 DEF ToSet
  <2>4. x # q[k]
    BY <2>2 DEF IsInjective
  <2> QED BY <2>3, <2>4
<1>7. ASSUME NEW x \in ToSet(q), x # q[k] PROVE x \in ToSet(s)
  <2>1. PICK j \in 1 .. n : x = q[j] /\ j # k
    BY <1>2, <1>7 DEF ToSet
  <2>2. PICK i \in 1 .. n - 1 : at(i) = j
    <3>1. CASE j < k
      <4>1. j \in 1 .. n - 1 /\ at(j) = j
        BY <1>2, <3>1
      <4> QED BY <4>1
    <3>2. CASE ~(j < k)
      <4>1. j - 1 \in 1 .. n - 1 /\ at(j - 1) = j
        BY <1>2, <2>1, <3>2
      <4> QED BY <4>1
    <3> QED BY <3>1, <3>2
  <2>3. s[i] = x /\ i \in DOMAIN s
    BY <1>2, <1>3, <2>1, <2>2
  <2> QED BY <2>3 DEF ToSet
<1> QED BY <1>5, <1>6, <1>7

LEMMA TakenOut ==
  ASSUME NEW S, NEW q \in Seq(S), IsInjective(q), NEW k \in DOMAIN q
  PROVE  /\ RemoveAt(q, k) \in Seq(S) /\ IsInjective(RemoveAt(q, k))
         /\ ToSet(RemoveAt(q, k)) = ToSet(q) \ {q[k]}
         /\ Len(RemoveAt(q, k)) = Len(q) - 1
<1> DEFINE l == SubSeq(q, 1, k - 1)
           r == SubSeq(q, k + 1, Len(q))
<1>0. k \in 1 .. Len(q) /\ Len(q) \in Nat
  OBVIOUS
<1>1. l \in Seq(S) /\ Len(l) = k - 1 /\ \A n \in 1 .. k - 1 : l[n] = q[n]
  BY <1>0
<1>2. r \in Seq(S) /\ Len(r) = Len(q) - k /\ \A n \in 1 .. Len(q) - k : r[n] = q[n + k]
  BY <1>0
<1> HIDE DEF l, r
<1>3. l \o r \in Seq(S) /\ Len(l \o r) = Len(l) + Len(r)
  BY <1>1, <1>2, ConcatProperties
<1>4. \A n \in 1 .. Len(q) - 1 : (l \o r)[n] = IF n < k THEN q[n] ELSE q[n + 1]
  BY <1>0, <1>1, <1>2
<1>5. Len(l \o r) = Len(q) - 1
  BY <1>0, <1>1, <1>2, <1>3
<1>6. PICK s : s = l \o r
  OBVIOUS
<1>7. s \in Seq(S) /\ Len(s) = Len(q) - 1
  BY <1>3, <1>5, <1>6
<1>8. \A i \in 1 .. Len(q) - 1 : i < k => s[i] = q[i]
  BY <1>4, <1>6
<1>9. \A i \in 1 .. Len(q) - 1 : ~(i < k) => s[i] = q[i + 1]
  BY <1>4, <1>6
<1>10. IsInjective(s) /\ ToSet(s) = ToSet(q) \ {q[k]}
  BY <1>7, <1>8, <1>9, WithoutOne
<1> QED BY <1>6, <1>7, <1>10 DEF RemoveAt, l, r

LEMMA LastGone ==
  ASSUME NEW S, NEW q \in Seq(S), IsInjective(q), q # <<>>
  PROVE  /\ Front(q) \in Seq(S) /\ IsInjective(Front(q))
         /\ Last(q) \in ToSet(q) /\ Last(q) \in S
         /\ ToSet(Front(q)) = ToSet(q) \ {Last(q)} /\ Len(Front(q)) = Len(q) - 1
<1>1. PICK n : n = Len(q)
  OBVIOUS
<1>2. n \in Nat /\ n >= 1 /\ n \in DOMAIN q
  BY <1>1
<1>3. PICK s : s = SubSeq(q, 1, n - 1)
  OBVIOUS
<1>4. s \in Seq(S) /\ Len(s) = n - 1 /\ \A i \in 1 .. n - 1 : s[i] = q[i]
  BY <1>1, <1>2, <1>3
<1>5. \A i \in 1 .. Len(q) - 1 : i < n => s[i] = q[i]
  BY <1>1, <1>2, <1>4
<1>a. \A i \in 1 .. Len(q) - 1 : ~(i < n) => s[i] = q[i + 1]
  BY <1>1, <1>2, <1>4
<1>b. Len(s) = Len(q) - 1
  BY <1>1, <1>4
<1>6. IsInjective(s) /\ ToSet(s) = ToSet(q) \ {q[n]}
  BY <1>2, <1>4, <1>5, <1>a, <1>b, WithoutOne
<1>7. q[n] \in ToSet(q) /\ q[n] \in S
  BY <1>2 DEF ToSet
<1> QED BY <1>1, <1>3, <1>4, <1>6, <1>7 DEF Front, Last

\* The buffer b, which was not in use, is given out.
GivenOut(b, size, mode) ==
    /\ b \in Buffers /\ buf[b].at # "used" /\ buf' \in [Buffers -> BufferRec]
    /\ buf'[b].at = "used" /\ buf'[b].mode = mode /\ buf'[b].size >= size
    /\ \A x \in Buffers : x # b => buf'[x] = buf[x]
    /\ queue' \in [Modes -> Seq(Buffers)] /\ numInUse' = numInUse + 1

\* The content a buffer starts with.
LEMMA UntouchedTyped == Untouched \in [1 .. MaxRegions -> Data]
BY DEF Untouched, Data

LEMMA Allocated ==
  ASSUME TypeInv, Stored, conf' = conf, NEW size \in Nat, NEW mode \in Modes, NEW b,
         NEW least \in Nat, size >= least, Allocate(size, mode, b)
  PROVE  GivenOut(b, least, mode) /\ Stored'
<1>1. b \in Buffers /\ buf[b].at = "none" /\ buf \in [Buffers -> BufferRec]
  BY DEF Allocate, Fresh, TypeInv
<1>2. PICK x : x = [at |-> "used", size |-> size, mode |-> mode, data |-> Untouched]
  OBVIOUS
<1>3. x \in BufferRec /\ x.at = "used" /\ x.mode = mode /\ x.size = size
  BY <1>2, UntouchedTyped DEF BufferRec
<1>4. buf' = [buf EXCEPT ![b] = x]
  BY <1>2 DEF Allocate
<1>5. queue' = queue /\ numInUse' = numInUse + 1
  BY DEF Allocate
<1>6. GivenOut(b, least, mode)
  BY <1>1, <1>3, <1>4, <1>5 DEF GivenOut, TypeInv
<1>7. \A m \in Modes : {y \in Buffers : buf'[y].at = "cached" /\ buf'[y].mode = m}
                       = {y \in Buffers : buf[y].at = "cached" /\ buf[y].mode = m}
  BY <1>1, <1>3, <1>4
<1> QED BY <1>5, <1>6, <1>7 DEF Stored

LEMMA FromCache ==
  ASSUME TypeInv, Stored, conf' = conf, NEW size \in Nat, NEW mode \in Modes, NEW b,
         TakeCached(size, mode, b)
  PROVE  GivenOut(b, size, mode) /\ Stored'
<1>1. queue[mode] \in Seq(Buffers) /\ buf \in [Buffers -> BufferRec]
      /\ queue \in [Modes -> Seq(Buffers)]
  BY DEF TypeInv
<1>2. b \in ToSet(queue[mode]) /\ buf[b].size >= size
  BY DEF TakeCached, Smallest, Fitting
<1>3. b \in Buffers /\ buf[b].at = "cached" /\ buf[b].mode = mode
  BY <1>2 DEF Stored
<1>4. PICK k \in DOMAIN queue[mode] :
        queue[mode][k] = b /\ queue' = [queue EXCEPT ![mode] = RemoveAt(@, k)]
  BY DEF TakeCached
<1>5. PICK s : s = RemoveAt(queue[mode], k)
  OBVIOUS
<1>6. IsInjective(queue[mode])
  BY DEF Stored
<1>7. /\ s \in Seq(Buffers) /\ IsInjective(s) /\ ToSet(s) = ToSet(queue[mode]) \ {b}
      /\ Len(s) = Len(queue[mode]) - 1
  BY <1>1, <1>4, <1>5, <1>6, TakenOut
<1>8. queue' = [queue EXCEPT ![mode] = s]
  BY <1>4, <1>5
<1>9. PICK x : x = [buf[b] EXCEPT !.at = "used"]
  OBVIOUS
<1>10. buf[b] \in BufferRec
  BY <1>1, <1>3
<1>11. x \in BufferRec /\ x.at = "used" /\ x.mode = mode /\ x.size = buf[b].size
  BY <1>3, <1>9, <1>10 DEF BufferRec
<1>12. buf' = [buf EXCEPT ![b] = x]
  BY <1>9 DEF TakeCached
<1>13. GivenOut(b, size, mode)
  BY <1>1, <1>2, <1>3, <1>7, <1>8, <1>11, <1>12 DEF GivenOut, TakeCached
<1>14. ASSUME NEW m \in Modes
       PROVE  /\ IsInjective(queue'[m])
              /\ ToSet(queue'[m]) = {y \in Buffers : buf'[y].at = "cached" /\ buf'[y].mode = m}
              /\ conf.cache.kind = "default" => queue'[m] = <<>>
              /\ conf.cache.kind = "lru" => Len(queue'[m]) <= conf.cache.capacity
  <2>1. /\ IsInjective(queue[m])
        /\ ToSet(queue[m]) = {y \in Buffers : buf[y].at = "cached" /\ buf[y].mode = m}
        /\ conf.cache.kind = "default" => queue[m] = <<>>
        /\ conf.cache.kind = "lru" => Len(queue[m]) <= conf.cache.capacity
    BY DEF Stored
  <2>2. CASE m = mode
    <3>1. queue'[m] = s
      BY <1>1, <1>8, <2>2
    <3>2. ToSet(s) = {y \in Buffers : buf'[y].at = "cached" /\ buf'[y].mode = m}
      BY <1>1, <1>3, <1>7, <1>11, <1>12, <2>1, <2>2
    <3>3. conf.cache.kind # "default"
      BY <1>4, <2>1, <2>2
    <3>4. conf.cache.kind = "lru" => Len(s) <= conf.cache.capacity
      <4>1. Len(queue[mode]) \in Nat /\ conf.cache.capacity \in Nat
        BY <1>1, SetupsAssumption DEF SetupsAssumption, TypeInv
      <4> QED BY <1>7, <2>1, <2>2, <4>1
    <3> QED BY <1>7, <3>1, <3>2, <3>3, <3>4
  <2>3. CASE m # mode
    <3>1. queue'[m] = queue[m]
      BY <1>1, <1>8, <2>3
    <3>2. {y \in Buffers : buf'[y].at = "cached" /\ buf'[y].mode = m}
          = {y \in Buffers : buf[y].at = "cached" /\ buf[y].mode = m}
      BY <1>1, <1>3, <1>11, <1>12, <2>3
    <3> QED BY <2>1, <3>1, <3>2
  <2> QED BY <2>2, <2>3
<1> QED BY <1>13, <1>14 DEF Stored

\* What the cache gives to a request: a buffer of the size and the mode it asks
\* for that nobody uses, or none.
LEMMA Got ==
  ASSUME TypeInv, Stored, conf' = conf, NEW size \in Nat, NEW mode \in Modes, NEW b,
         NEW fails \in BOOLEAN, CacheGet(conf.cache, size, mode, b, fails)
  PROVE  /\ Stored'
         /\ \/ GivenOut(b, size, mode)
            \/ /\ b = Null /\ buf' = buf /\ queue' = queue /\ numInUse' \in Int
               /\ (conf.cache.kind = "default" /\ fails) \/ numInUse' = numInUse
<1>0. conf.cache.margin \in Nat /\ numInUse \in Int
  BY SetupsAssumption DEF SetupsAssumption, TypeInv
<1>1. CASE b = Null /\ UNCHANGED cacheVars
  BY <1>0, <1>1 DEF cacheVars, Stored
<1>2. CASE /\ conf.cache.kind = "default" /\ fails /\ b = Null
           /\ numInUse' = numInUse + 1 /\ UNCHANGED <<buf, queue>>
  BY <1>0, <1>2 DEF Stored
<1>3. CASE Allocate(size, mode, b)
  BY <1>3, Allocated
<1>4. CASE Allocate(size * (1 + conf.cache.margin), mode, b)
  <2>1. PICK n : n = size * conf.cache.margin
    OBVIOUS
  <2>2. n \in Nat /\ size * (1 + conf.cache.margin) = size + n
    BY <1>0, <2>1
  <2>3. PICK large : large = size * (1 + conf.cache.margin)
    OBVIOUS
  <2>4. large \in Nat /\ large >= size
    BY <2>2, <2>3
  <2>5. Allocate(large, mode, b)
    BY <1>4, <2>3
  <2> QED BY <2>4, <2>5, Allocated
<1>5. CASE TakeCached(size, mode, b)
  BY <1>5, FromCache
<1>6. \/ b = Null /\ UNCHANGED cacheVars
      \/ /\ conf.cache.kind = "default" /\ fails /\ b = Null
         /\ numInUse' = numInUse + 1 /\ UNCHANGED <<buf, queue>>
      \/ Allocate(size, mode, b)
      \/ Allocate(size * (1 + conf.cache.margin), mode, b)
      \/ TakeCached(size, mode, b)
  BY DEF CacheGet, default_bulk_cache_get, keep_all_bulk_cache_get, lru_bulk_cache_get, Refused
<1> QED BY <1>1, <1>2, <1>3, <1>4, <1>5, <1>6

\* The buffer b is not used any more; the others that are used are left alone.
TakenBack(b) ==
    /\ buf' \in [Buffers -> BufferRec] /\ buf'[b].at # "used"
    /\ \A x \in Buffers : x # b =>
         /\ buf'[x].at = "used" <=> buf[x].at = "used"
         /\ buf[x].at = "used" => buf'[x] = buf[x]
    /\ queue' \in [Modes -> Seq(Buffers)] /\ numInUse' = numInUse - 1

LEMMA NoBufferTyped == NoBuffer \in BufferRec /\ NoBuffer.at = "none"
BY UntouchedTyped DEF NoBuffer, BufferRec, Modes

LEMMA ReleasedDefault ==
  ASSUME TypeInv, Stored, conf' = conf, NEW b \in Buffers, buf[b].at = "used",
         default_bulk_cache_release(b)
  PROVE  TakenBack(b) /\ Stored'
<1>1. buf' = [buf EXCEPT ![b] = NoBuffer] /\ queue' = queue /\ numInUse' = numInUse - 1
  BY DEF default_bulk_cache_release
<1>2. buf \in [Buffers -> BufferRec]
  BY DEF TypeInv
<1>3. TakenBack(b)
  BY <1>1, <1>2, NoBufferTyped DEF TakenBack, TypeInv
<1>4. \A m \in Modes : {y \in Buffers : buf'[y].at = "cached" /\ buf'[y].mode = m}
                       = {y \in Buffers : buf[y].at = "cached" /\ buf[y].mode = m}
  BY <1>1, <1>2, NoBufferTyped
<1> QED BY <1>1, <1>3, <1>4 DEF Stored

\* The released buffer in front of the list of its mode.
LEMMA InFront ==
  ASSUME TypeInv, Stored, NEW b \in Buffers, buf[b].at = "used"
  PROVE  /\ buf[b] \in BufferRec /\ buf[b].mode \in Modes
         /\ <<b>> \o queue[buf[b].mode] \in Seq(Buffers)
         /\ IsInjective(<<b>> \o queue[buf[b].mode])
         /\ ToSet(<<b>> \o queue[buf[b].mode]) =
              {y \in Buffers : buf[y].at = "cached" /\ buf[y].mode = buf[b].mode} \cup {b}
         /\ Len(<<b>> \o queue[buf[b].mode]) = Len(queue[buf[b].mode]) + 1
         /\ Len(queue[buf[b].mode]) \in Nat
<1>1. buf[b] \in BufferRec /\ buf[b].mode \in Modes
  BY DEF TypeInv, BufferRec
<1>2. /\ queue[buf[b].mode] \in Seq(Buffers) /\ IsInjective(queue[buf[b].mode])
      /\ ToSet(queue[buf[b].mode])
           = {y \in Buffers : buf[y].at = "cached" /\ buf[y].mode = buf[b].mode}
  BY <1>1 DEF TypeInv, Stored
<1>3. b \notin ToSet(queue[buf[b].mode])
  BY <1>2
<1> QED BY <1>1, <1>2, <1>3, AtFront

LEMMA ReleasedKeepAll ==
  ASSUME TypeInv, Stored, conf' = conf, conf.cache.kind = "keep_all",
         NEW b \in Buffers, buf[b].at = "used", keep_all_bulk_cache_release(b)
  PROVE  TakenBack(b) /\ Stored'
<1>1. PICK s : s = <<b>> \o queue[buf[b].mode]
  OBVIOUS
<1>2. PICK x : x = [buf[b] EXCEPT !.at = "cached"]
  OBVIOUS
<1>3. /\ buf' = [buf EXCEPT ![b] = x] /\ queue' = [queue EXCEPT ![buf[b].mode] = s]
      /\ numInUse' = numInUse - 1
  BY <1>1, <1>2 DEF keep_all_bulk_cache_release
<1>4. buf \in [Buffers -> BufferRec] /\ queue \in [Modes -> Seq(Buffers)]
  BY DEF TypeInv
<1>5. /\ buf[b] \in BufferRec /\ buf[b].mode \in Modes /\ s \in Seq(Buffers) /\ IsInjective(s)
      /\ ToSet(s) = {y \in Buffers : buf[y].at = "cached" /\ buf[y].mode = buf[b].mode} \cup {b}
  BY <1>1, InFront
<1>6. x \in BufferRec /\ x.at = "cached" /\ x.mode = buf[b].mode
  BY <1>2, <1>5 DEF BufferRec
<1>7. TakenBack(b)
  BY <1>3, <1>4, <1>5, <1>6 DEF TakenBack
<1>8. ASSUME NEW m \in Modes
      PROVE  /\ IsInjective(queue'[m])
             /\ ToSet(queue'[m]) = {y \in Buffers : buf'[y].at = "cached" /\ buf'[y].mode = m}
  <2>1. CASE m = buf[b].mode
    <3>1. queue'[m] = s
      BY <1>3, <1>4, <2>1
    <3>2. ToSet(s) = {y \in Buffers : buf'[y].at = "cached" /\ buf'[y].mode = m}
      BY <1>3, <1>4, <1>5, <1>6, <2>1
    <3> QED BY <1>5, <3>1, <3>2
  <2>2. CASE m # buf[b].mode
    <3>1. queue'[m] = queue[m]
      BY <1>3, <1>4, <2>2
    <3>2. {y \in Buffers : buf'[y].at = "cached" /\ buf'[y].mode = m}
          = {y \in Buffers : buf[y].at = "cached" /\ buf[y].mode = m}
      BY <1>3, <1>4, <1>6, <2>2
    <3> QED BY <3>1, <3>2 DEF Stored
  <2> QED BY <2>1, <2>2
<1> QED BY <1>7, <1>8 DEF Stored

LEMMA ReleasedLru ==
  ASSUME TypeInv, Stored, conf' = conf, conf.cache.kind = "lru",
         NEW b \in Buffers, buf[b].at = "used",
         lru_bulk_cache_release(b, conf.cache.capacity)
  PROVE  TakenBack(b) /\ Stored'
<1>1. PICK s : s = <<b>> \o queue[buf[b].mode]
  OBVIOUS
<1>2. PICK x : x = [buf[b] EXCEPT !.at = "cached"]
  OBVIOUS
<1>3. buf \in [Buffers -> BufferRec] /\ queue \in [Modes -> Seq(Buffers)]
      /\ conf.cache.capacity \in Nat
  BY SetupsAssumption DEF SetupsAssumption, TypeInv
<1>4. /\ buf[b] \in BufferRec /\ buf[b].mode \in Modes /\ s \in Seq(Buffers) /\ IsInjective(s)
      /\ ToSet(s) = {y \in Buffers : buf[y].at = "cached" /\ buf[y].mode = buf[b].mode} \cup {b}
      /\ Len(s) = Len(queue[buf[b].mode]) + 1 /\ Len(queue[buf[b].mode]) \in Nat
  BY <1>1, InFront
<1>5. x \in BufferRec /\ x.at = "cached" /\ x.mode = buf[b].mode
  BY <1>2, <1>4 DEF BufferRec
<1>6. Len(queue[buf[b].mode]) <= conf.cache.capacity
  BY <1>4 DEF Stored
<1>7. s # <<>>
  BY <1>4
<1>8. /\ Front(s) \in Seq(Buffers) /\ IsInjective(Front(s))
      /\ Last(s) \in ToSet(s) /\ Last(s) \in Buffers
      /\ ToSet(Front(s)) = ToSet(s) \ {Last(s)} /\ Len(Front(s)) = Len(s) - 1
  BY <1>4, <1>7, LastGone
<1>9. \A y \in Buffers : y = Last(s) =>
        y = b \/ (buf[y].at = "cached" /\ buf[y].mode = buf[b].mode)
  BY <1>4, <1>8
<1>10. \A m \in Modes : m # buf[b].mode =>
         {y \in Buffers : buf[y].at = "cached" /\ buf[y].mode = m} = ToSet(queue[m])
  BY DEF Stored
<1>11. CASE Len(s) > conf.cache.capacity
  <2>1. /\ numInUse' = numInUse - 1 /\ queue' = [queue EXCEPT ![buf[b].mode] = Front(s)]
        /\ buf' = [y \in Buffers |-> IF y = Last(s) THEN NoBuffer
                                     ELSE IF y = b THEN x ELSE buf[y]]
    BY <1>1, <1>2, <1>11 DEF lru_bulk_cache_release
  <2>2. /\ \A y \in Buffers : buf'[y] \in BufferRec
        /\ \A y \in Buffers : y = Last(s) => buf'[y].at = "none"
        /\ \A y \in Buffers : y # Last(s) /\ y = b => buf'[y] = x
        /\ \A y \in Buffers : y # Last(s) /\ y # b => buf'[y] = buf[y]
    BY <1>3, <1>5, <2>1, NoBufferTyped
  <2>3. TakenBack(b)
    <3>1. buf' \in [Buffers -> BufferRec]
      BY <2>1, <2>2
    <3>2. buf'[b].at # "used"
      BY <1>5, <2>2
    <3>3. queue' \in [Modes -> Seq(Buffers)]
      BY <1>3, <1>4, <1>8, <2>1
    <3>4. \A y \in Buffers : y # b =>
             /\ buf'[y].at = "used" <=> buf[y].at = "used"
             /\ buf[y].at = "used" => buf'[y] = buf[y]
      BY <1>9, <2>2
    <3> QED BY <2>1, <3>1, <3>2, <3>3, <3>4 DEF TakenBack
  <2>4. ASSUME NEW m \in Modes
        PROVE  /\ IsInjective(queue'[m]) /\ Len(queue'[m]) <= conf.cache.capacity
               /\ ToSet(queue'[m])
                    = {y \in Buffers : buf'[y].at = "cached" /\ buf'[y].mode = m}
    <3>1. CASE m = buf[b].mode
      <4>1. queue'[m] = Front(s)
        BY <1>3, <2>1, <3>1
      <4>2. ToSet(Front(s)) = {y \in Buffers : buf'[y].at = "cached" /\ buf'[y].mode = m}
        BY <1>4, <1>5, <1>8, <2>2, <3>1
      <4>3. Len(Front(s)) <= conf.cache.capacity
        BY <1>3, <1>4, <1>6, <1>8
      <4> QED BY <1>8, <4>1, <4>2, <4>3
    <3>2. CASE m # buf[b].mode
      <4>1. queue'[m] = queue[m]
        BY <1>3, <2>1, <3>2
      <4>2. {y \in Buffers : buf'[y].at = "cached" /\ buf'[y].mode = m}
            = {y \in Buffers : buf[y].at = "cached" /\ buf[y].mode = m}
        BY <1>5, <1>9, <2>2, <3>2
      <4> QED BY <4>1, <4>2 DEF Stored
    <3> QED BY <3>1, <3>2
  <2> QED BY <2>3, <2>4 DEF Stored
<1>12. CASE ~(Len(s) > conf.cache.capacity)
  <2>1. /\ numInUse' = numInUse - 1 /\ queue' = [queue EXCEPT ![buf[b].mode] = s]
        /\ buf' = [y \in Buffers |-> IF y = b THEN x ELSE buf[y]]
    BY <1>1, <1>2, <1>12 DEF lru_bulk_cache_release
  <2>2. /\ \A y \in Buffers : buf'[y] \in BufferRec
        /\ buf'[b] = x /\ \A y \in Buffers : y # b => buf'[y] = buf[y]
    BY <1>3, <1>5, <2>1
  <2>3. TakenBack(b)
    <3>1. buf' \in [Buffers -> BufferRec]
      BY <2>1, <2>2
    <3>2. queue' \in [Modes -> Seq(Buffers)]
      BY <1>3, <1>4, <2>1
    <3> QED BY <1>5, <2>1, <2>2, <3>1, <3>2 DEF TakenBack
  <2>4. ASSUME NEW m \in Modes
        PROVE  /\ IsInjective(queue'[m]) /\ Len(queue'[m]) <= conf.cache.capacity
               /\ ToSet(queue'[m])
                    = {y \in Buffers : buf'[y].at = "cached" /\ buf'[y].mode = m}
    <3>1. CASE m = buf[b].mode
      <4>1. queue'[m] = s
        BY <1>3, <2>1, <3>1
      <4>2. ToSet(s) = {y \in Buffers : buf'[y].at = "cached" /\ buf'[y].mode = m}
        BY <1>4, <1>5, <2>2, <3>1
      <4>3. Len(s) <= conf.cache.capacity
        BY <1>3, <1>4, <1>12
      <4> QED BY <1>4, <4>1, <4>2, <4>3
    <3>2. CASE m # buf[b].mode
      <4>1. queue'[m] = queue[m]
        BY <1>3, <2>1, <3>2
      <4>2. {y \in Buffers : buf'[y].at = "cached" /\ buf'[y].mode = m}
            = {y \in Buffers : buf[y].at = "cached" /\ buf[y].mode = m}
        BY <1>5, <2>2, <3>2
      <4> QED BY <4>1, <4>2 DEF Stored
    <3> QED BY <3>1, <3>2
  <2> QED BY <2>3, <2>4 DEF Stored
<1> QED BY <1>11, <1>12

LEMMA Released ==
  ASSUME TypeInv, Stored, conf' = conf, NEW b \in Buffers, buf[b].at = "used",
         CacheRelease(conf.cache, b)
  PROVE  TakenBack(b) /\ Stored'
BY ReleasedDefault, ReleasedKeepAll, ReleasedLru DEF CacheRelease

\* When nothing is in use nothing is left of a finalized cache.
LEMMA Finalized ==
  ASSUME TypeInv, Stored, conf' = conf, \A b \in Buffers : buf[b].at # "used",
         CacheFinalize(conf.cache)
  PROVE  /\ Stored' /\ buf' \in [Buffers -> BufferRec]
         /\ \A b \in Buffers : buf'[b].at = "none"
         /\ queue' \in [Modes -> Seq(Buffers)] /\ numInUse' = numInUse
<1>1. /\ buf \in [Buffers -> BufferRec] /\ queue \in [Modes -> Seq(Buffers)]
      /\ conf.cache.kind \in Kinds /\ conf.cache.capacity \in Nat
  BY SetupsAssumption DEF SetupsAssumption, TypeInv
<1>2. CASE conf.cache.kind = "default" /\ UNCHANGED cacheVars
  <2>1. ASSUME NEW b \in Buffers PROVE buf[b].at = "none"
    <3>1. buf[b] \in BufferRec
      BY <1>1
    <3>2. buf[b].at \in {"none", "used", "cached"} /\ buf[b].mode \in Modes
      BY <3>1 DEF BufferRec
    <3>3. ASSUME buf[b].at = "cached" PROVE FALSE
      <4>1. b \in ToSet(queue[buf[b].mode]) /\ queue[buf[b].mode] = <<>>
        BY <1>2, <3>2, <3>3 DEF Stored
      <4> QED BY <4>1 DEF ToSet
    <3> QED BY <3>2, <3>3
  <2> QED BY <1>1, <1>2, <2>1 DEF cacheVars, Stored
<1>3. CASE keep_all_bulk_cache_finalize
  <2>1. /\ buf' = [b \in Buffers |-> IF buf[b].at = "cached" THEN NoBuffer ELSE buf[b]]
        /\ queue' = [m \in Modes |-> <<>>] /\ numInUse' = numInUse
    BY <1>3 DEF keep_all_bulk_cache_finalize
  <2>2. \A b \in Buffers : buf'[b] \in BufferRec /\ buf'[b].at = "none"
    BY <1>1, <2>1, NoBufferTyped DEF BufferRec
  <2>3. buf' \in [Buffers -> BufferRec] /\ queue' \in [Modes -> Seq(Buffers)]
    BY <2>1, <2>2
  <2>4. ASSUME NEW m \in Modes
        PROVE  /\ IsInjective(queue'[m]) /\ Len(queue'[m]) <= conf.cache.capacity
               /\ ToSet(queue'[m])
                    = {y \in Buffers : buf'[y].at = "cached" /\ buf'[y].mode = m}
               /\ queue'[m] = <<>>
    <3>1. queue'[m] = <<>> /\ Len(<<>>) = 0 /\ DOMAIN <<>> = {}
      BY <2>1
    <3>2. IsInjective(<<>>) /\ ToSet(<<>>) = {}
      BY <3>1 DEF IsInjective, ToSet
    <3> QED BY <1>1, <2>2, <3>1, <3>2
  <2> QED BY <2>1, <2>2, <2>3, <2>4 DEF Stored
<1> QED BY <1>2, <1>3 DEF CacheFinalize, default_bulk_cache_finalize, lru_bulk_cache_finalize

-----------------------------------------------------------------------------
(* The steps preserve the invariant *)

\* Which buffers are used, and by whom, is as before.
LEMMA HeldKept ==
  ASSUME TypeInv, Stored, Held, conf' = conf, finalized' = finalized, BuffersKept,
         \A d \in Clients : ult'[d].buf = ult[d].buf,
         \A d \in Clients : ult[d].buf # Null => calls'[d] = calls[d]
  PROVE  Held' /\ Stored' /\ (Counted => Counted')
<1>1. \A d \in Clients : ult[d].buf \in Buffers \cup {Null}
  BY DEF TypeInv, UltRec
<1>2. \A m \in Modes : {y \in Buffers : buf'[y].at = "cached" /\ buf'[y].mode = m}
                       = {y \in Buffers : buf[y].at = "cached" /\ buf[y].mode = m}
  BY DEF BuffersKept
<1>3. Stored'
  BY <1>2 DEF Stored, BuffersKept
<1>4. Holders' = Holders
  BY DEF Holders
<1>5. ASSUME NEW c \in Holders
      PROVE  buf'[ult'[c].buf].mode = Handler(c)'.buffer /\ buf'[ult'[c].buf].size >= CallOf(c)'.size
  <2>1. c \in Clients /\ ult[c].buf \in Buffers /\ calls'[c] = calls[c]
    BY <1>1, <1>5 DEF Holders
  <2>2. Handler(c)' = Handler(c) /\ CallOf(c)' = CallOf(c)
    BY <2>1 DEF Handler, Fn, CallOf
  <2> QED BY <1>5, <2>1, <2>2 DEF Held, BuffersKept
<1>6. \A b \in Buffers : buf'[b].at = "used" <=> \E c \in Clients : ult'[c].buf = b
  BY DEF Held, BuffersKept
<1>7. \A c, d \in Holders : ult'[c].buf = ult'[d].buf => c = d
  BY DEF Held, Holders
<1>8. finalized' => \A b \in Buffers : buf'[b].at = "none"
  BY DEF Held, BuffersKept
<1>9. Counted => Counted'
  BY <1>4 DEF Counted, BuffersKept
<1> QED BY <1>3, <1>4, <1>5, <1>6, <1>7, <1>8, <1>9 DEF Held

\* A ULT whose call and handler are the same.
LEMMA OwnBufferKept ==
  ASSUME NEW c \in Clients, ult'[c] = ult[c], OwnBuffer(c), conf' = conf, calls'[c] = calls[c]
  PROVE  OwnBuffer(c)'
<1>1. Handler(c)' = Handler(c)
  BY DEF Handler, Fn, CallOf
<1> QED BY <1>1 DEF OwnBuffer

LEMMA OwnBufferGoesOn ==
  ASSUME TypeInv, Control, Deferred, NEW c \in Clients, ult[c].run = "steps",
         ult[c].pc <= Len(Handler(c).steps), Now(c).do # "buffer", GoesOn(c),
         conf' = conf, calls' = calls
  PROVE  OwnBuffer(c)'
<1>1. PICK d \in Seq(Deferrals) :
        /\ \A n \in DOMAIN d : d[n] # "release"
        /\ UltTo(c, "steps", ult[c].pc + 1, ult[c].stack \o d, ult[c].buf)
  BY DEF GoesOn
<1>2. OwnBuffer(c) /\ Handler(c)' = Handler(c)
  BY DEF Deferred, Handler, Fn, CallOf
<1>3. /\ ult'[c].run = "steps" /\ ult'[c].pc = ult[c].pc + 1 /\ ult'[c].buf = ult[c].buf
      /\ ult'[c].stack = ult[c].stack \o d
  BY <1>1 DEF UltTo
<1>4. ult[c].stack \in Seq(Deferrals) /\ ult[c].pc \in Nat
  BY DEF TypeInv, UltRec
<1>5. PICK s : s = ult[c].stack
  OBVIOUS
<1>6. PICK s2 : s2 = s \o d
  OBVIOUS
<1>7. /\ \A n \in DOMAIN s : n \in DOMAIN s2 /\ s2[n] = s[n]
      /\ \A n \in DOMAIN s2 : n \in DOMAIN s \/ s2[n] # "release"
  <2>1. s \in Seq(Deferrals) /\ d \in Seq(Deferrals)
    BY <1>1, <1>4, <1>5
  <2>2. /\ s2 \in Seq(Deferrals) /\ Len(s2) = Len(s) + Len(d)
        /\ \A n \in 1 .. Len(s) + Len(d) : s2[n] = IF n <= Len(s) THEN s[n] ELSE d[n - Len(s)]
    BY <1>6, <2>1, ConcatProperties
  <2>3. Len(s) \in Nat /\ Len(d) \in Nat /\ DOMAIN s = 1 .. Len(s) /\ DOMAIN d = 1 .. Len(d)
        /\ DOMAIN s2 = 1 .. Len(s) + Len(d)
    BY <2>1, <2>2
  <2>4. ASSUME NEW n \in DOMAIN s PROVE n \in DOMAIN s2 /\ s2[n] = s[n]
    BY <2>2, <2>3, <2>4
  <2>5. ASSUME NEW n \in DOMAIN s2, n \notin DOMAIN s PROVE s2[n] # "release"
    <3>1. n - Len(s) \in DOMAIN d /\ ~(n <= Len(s))
      BY <2>3, <2>5
    <3> QED BY <1>1, <2>2, <2>3, <3>1
  <2> QED BY <2>4, <2>5
<1>8. ult'[c].stack = s2
  BY <1>3, <1>5, <1>6
<1>9. (\E n \in DOMAIN s2 : s2[n] = "release") <=> (\E n \in DOMAIN s : s[n] = "release")
  BY <1>7
<1>10. \A m, n \in DOMAIN s2 : s2[m] = "release" /\ s2[n] = "release" => m = n
  BY <1>2, <1>5, <1>7 DEF OwnBuffer
<1>11. (\E q \in DOMAIN Handler(c).steps :
          q < ult[c].pc + 1 /\ Handler(c).steps[q].do = "buffer")
       <=> \E q \in DOMAIN Handler(c).steps :
             q < ult[c].pc /\ Handler(c).steps[q].do = "buffer"
  <2>1. Handler(c).steps \in Seq(StepRec)
    BY CallKnown DEF CallAssumption, HandlerAssumption, Handler, Fn, StepRec
  <2>2. \A q \in DOMAIN Handler(c).steps : q \in Int /\ (q < ult[c].pc + 1 <=> q < ult[c].pc \/ q = ult[c].pc)
    BY <1>4, <2>1
  <2> QED BY <1>4, <2>2 DEF Now
<1> QED BY <1>2, <1>3, <1>5, <1>8, <1>9, <1>10, <1>11 DEF OwnBuffer

LEMMA OwnBufferGivesUp ==
  ASSUME NEW c \in Clients, Deferred, GivesUp(c)
  PROVE  OwnBuffer(c)'
<1>1. OwnBuffer(c)
  BY DEF Deferred
<1>2. ult'[c].run = "unwind" /\ ult'[c].stack = ult[c].stack /\ ult'[c].buf = ult[c].buf
  BY DEF GivesUp, UltTo
<1> QED BY <1>1, <1>2 DEF OwnBuffer

\* A step of a ULT that is none of its client's.
LEMMA ControlUlt ==
  ASSUME Control, NEW c \in Clients, ult[c].run \in {"steps", "unwind"},
         UNCHANGED <<conf, clientVars, finalized>>,
         ult'[c].run = "steps" => ult[c].run = "steps",
         \A d \in Clients : d # c => ult'[d] = ult[d]
  PROVE  Control'
<1>1. ASSUME NEW d \in Clients
      PROVE  /\ calls'[d] <= Len(conf'.calls[d])
             /\ cl'[d].run # "idle" \/ ult'[d].run # "none" => calls'[d] >= 1
             /\ cl'[d].run = "steps" => ult'[d].run = "none"
             /\ ult'[d].run = "steps" => cl'[d].run = "waiting"
             /\ finalized' => Idle(d)' /\ calls'[d] = Len(conf'.calls[d])
  <2>1. CASE d # c
    BY <2>1 DEF Control, clientVars, Idle
  <2>2. CASE d = c
    BY <2>2 DEF Control, clientVars, Idle
  <2> QED BY <2>1, <2>2
<1> QED BY <1>1 DEF Control

\* The steps of a ULT other than the one that takes a buffer.
Quiet(c) ==
    \/ GetInput(c) \/ LookupOrigin(c) \/ CheckDatabase(c) \/ CheckModeSupported(c)
    \/ PullRegions(c) \/ CheckRequest(c) \/ CallDatabase(c) \/ StartPush(c)
    \/ PushRegions(c) \/ WaitPush(c) \/ FillOutput(c)

LEMMA QuietStep ==
  ASSUME Inv, NEW c \in Clients, Quiet(c)
  PROVE  /\ GoesOn(c) \/ GivesUp(c)
         /\ BuffersKept /\ ult[c].run = "steps" /\ ult[c].pc <= Len(Handler(c).steps)
         /\ Now(c).do # "buffer"
         /\ mem' \in [Clients -> Memory] /\ flying' \in SUBSET Transfer
         /\ served' \in [Clients -> Nat]
<1> USE DEF Inv
<1>1. /\ ult[c].run = "steps" /\ ult[c].pc <= Len(Handler(c).steps) /\ Now(c).do # "buffer"
  BY DEF Quiet, AtServer, GetInput, LookupOrigin, CheckDatabase, CheckModeSupported,
         PullRegions, CheckRequest, CallDatabase, StartPush, PushRegions, WaitPush, FillOutput
<1>2. /\ mem \in [Clients -> Memory] /\ flying \in SUBSET Transfer
      /\ served \in [Clients -> Nat]
  BY DEF TypeInv
<1>3. CASE \/ GetInput(c) \/ LookupOrigin(c) \/ CheckDatabase(c)
           \/ CheckModeSupported(c) \/ CheckRequest(c) \/ WaitPush(c)
  BY <1>1, <1>2, <1>3, PlainSteps
<1>4. CASE PullRegions(c)
  BY <1>1, <1>2, <1>4, PullStep
<1>5. CASE CallDatabase(c)
  BY <1>1, <1>2, <1>5, CallStep
<1>6. CASE StartPush(c)
  BY <1>1, <1>2, <1>6, StartStep
<1>7. CASE PushRegions(c)
  BY <1>1, <1>2, <1>7, PushStep
<1>8. CASE FillOutput(c)
  BY <1>1, <1>2, <1>8, OutputStep
<1> QED BY <1>3, <1>4, <1>5, <1>6, <1>7, <1>8 DEF Quiet

LEMMA QuietInv ==
  ASSUME Inv, NEW c \in Clients, Quiet(c), UNCHANGED <<conf, clientVars, finalized>>
  PROVE  Inv'
<1> USE DEF Inv
<1>1. /\ GoesOn(c) \/ GivesUp(c)
      /\ BuffersKept /\ ult[c].run = "steps" /\ ult[c].pc <= Len(Handler(c).steps)
      /\ Now(c).do # "buffer"
      /\ mem' \in [Clients -> Memory] /\ flying' \in SUBSET Transfer
      /\ served' \in [Clients -> Nat]
  BY QuietStep
<1>2. /\ ult' \in [Clients -> UltRec] /\ ult'[c].buf = ult[c].buf
      /\ \A d \in Clients : d # c => ult'[d] = ult[d]
  BY <1>1 DEF GoesOn, GivesUp, UltTo
<1>3. TypeInv'
  BY <1>1, <1>2 DEF TypeInv, clientVars, BuffersKept
<1>4. Control'
  BY <1>1, <1>2, ControlUlt
<1>5. Deferred'
  <2>1. OwnBuffer(c)'
    BY <1>1, OwnBufferGoesOn, OwnBufferGivesUp DEF clientVars
  <2>2. ASSUME NEW d \in Clients, d # c PROVE OwnBuffer(d)'
    BY <1>2, <2>2, OwnBufferKept DEF clientVars, Deferred
  <2> QED BY <2>1, <2>2 DEF Deferred
<1>6. Held' /\ Stored' /\ Counted'
  BY <1>1, <1>2, HeldKept DEF clientVars
<1> QED BY <1>3, <1>4, <1>5, <1>6

LEMMA HoldersFinite ==
  ASSUME TypeInv PROVE IsFiniteSet(Holders)
<1>1. Holders \subseteq Clients /\ IsFiniteSet(Clients)
  BY SetupsAssumption DEF SetupsAssumption, Holders
<1> QED BY <1>1, FS_Subset

\* A request takes its buffer, or ends because it gets none.
LEMMA TakeStep ==
  ASSUME Inv, NEW c \in Clients, GetBuffer(c), conf' = conf, calls' = calls
  PROVE  /\ Stored' /\ UNCHANGED <<mem, flying, served>> /\ ult[c].run = "steps"
         /\ ult[c].pc \in DOMAIN Handler(c).steps /\ Now(c).do = "buffer"
         /\ \/ \E b \in Buffers :
                 /\ GivenOut(b, CallOf(c).size, Handler(c).buffer)
                 /\ UltTo(c, "steps", ult[c].pc + 1, Append(ult[c].stack, "release"), b)
            \/ /\ GivesUp(c) /\ buf' = buf /\ queue' = queue /\ numInUse' \in Int
               /\ CountsRight(conf) => numInUse' = numInUse
<1> USE DEF Inv
<1>1. /\ CallAssumption(CallOf(c)) /\ ult[c].pc \in DOMAIN Handler(c).steps
      /\ Now(c).do = "buffer"
  BY StepKnown DEF GetBuffer
<1>2. CallOf(c).size \in Nat /\ Handler(c).buffer \in Modes
  BY <1>1 DEF CallAssumption, HandlerAssumption, Handler, Fn
<1>3. ult[c] \in UltRec /\ ult \in [Clients -> UltRec]
  BY DEF TypeInv
<1>4. ult[c].run = "steps" /\ UNCHANGED <<mem, flying, served>>
  BY DEF GetBuffer, AtServer
<1>5. PICK b \in Buffers \cup {Null} :
         /\ CacheGet(conf.cache, CallOf(c).size, Handler(c).buffer, b, MayFail("buffer"))
         /\ b = Null => Stop(c, "Allocation")
         /\ b # Null => ult' = [ult EXCEPT ![c].pc = @ + 1, ![c].buf = b,
                                           ![c].stack = Append(@, "release")]
  BY DEF GetBuffer
<1>6. PICK fails \in BOOLEAN : fails <=> MayFail("buffer")
  BY DEF MayFail
<1>7. CacheGet(conf.cache, CallOf(c).size, Handler(c).buffer, b, fails)
  BY <1>5, <1>6 DEF CacheGet, default_bulk_cache_get, keep_all_bulk_cache_get, lru_bulk_cache_get
<1>8. /\ Stored'
      /\ \/ GivenOut(b, CallOf(c).size, Handler(c).buffer)
         \/ /\ b = Null /\ buf' = buf /\ queue' = queue /\ numInUse' \in Int
            /\ (conf.cache.kind = "default" /\ fails) \/ numInUse' = numInUse
  BY <1>2, <1>7, Got
<1>9. CASE GivenOut(b, CallOf(c).size, Handler(c).buffer)
  <2>1. b \in Buffers /\ b # Null
    BY <1>9, SetupsAssumption DEF GivenOut, SetupsAssumption
  <2>2. PICK u : u = [ult[c] EXCEPT !.pc = @ + 1, !.buf = b, !.stack = Append(@, "release")]
    OBVIOUS
  <2>3. ult' = [ult EXCEPT ![c] = u]
    BY <1>3, <1>5, <2>1, <2>2
  <2>4. ult[c].pc + 1 \in Nat \ {0} /\ Append(ult[c].stack, "release") \in Seq(Deferrals)
    BY <1>3 DEF UltRec, Deferrals
  <2>5. u \in UltRec
    BY <1>3, <2>1, <2>2, <2>4 DEF UltRec
  <2>6. /\ u.run = ult[c].run /\ u.pc = ult[c].pc + 1 /\ u.buf = b
        /\ u.stack = Append(ult[c].stack, "release")
    BY <1>3, <2>2 DEF UltRec
  <2>7. UltTo(c, "steps", ult[c].pc + 1, Append(ult[c].stack, "release"), b)
    BY <1>3, <1>4, <2>3, <2>5, <2>6 DEF UltTo
  <2> QED BY <1>1, <1>4, <1>8, <1>9, <2>1, <2>7
<1>10. CASE /\ b = Null /\ buf' = buf /\ queue' = queue /\ numInUse' \in Int
            /\ (conf.cache.kind = "default" /\ fails) \/ numInUse' = numInUse
  <2>1. Stop(c, "Allocation") /\ "Allocation" \in Rets
    BY <1>5, <1>10 DEF Rets
  <2>2. GivesUp(c)
    BY <2>1, StopDone DEF GivesUp
  <2>3. CountsRight(conf) => numInUse' = numInUse
    BY <1>6, <1>10 DEF CountsRight, MayFail
  <2> QED BY <1>1, <1>4, <1>8, <1>10, <2>2, <2>3
<1> QED BY <1>8, <1>9, <1>10

\* What a ULT has deferred, with one more or one less.
LEMMA OneDeferred ==
  ASSUME NEW q \in Seq(Deferrals), NEW e \in Deferrals
  PROVE  /\ DOMAIN Append(q, e) = 1 .. Len(q) + 1 /\ DOMAIN q = 1 .. Len(q) /\ Len(q) \in Nat
         /\ Append(q, e)[Len(q) + 1] = e
         /\ \A n \in DOMAIN q : Append(q, e)[n] = q[n]
OBVIOUS

LEMMA LastDeferred ==
  ASSUME NEW q \in Seq(Deferrals), q # <<>>
  PROVE  /\ DOMAIN Front(q) = 1 .. Len(q) - 1 /\ DOMAIN q = 1 .. Len(q) /\ Len(q) \in Nat \ {0}
         /\ Last(q) = q[Len(q)]
         /\ \A n \in DOMAIN Front(q) : Front(q)[n] = q[n]
<1>1. Len(q) \in Nat \ {0} /\ DOMAIN q = 1 .. Len(q)
  OBVIOUS
<1>2. PICK s : s = SubSeq(q, 1, Len(q) - 1)
  OBVIOUS
<1>3. DOMAIN s = 1 .. Len(q) - 1 /\ \A n \in 1 .. Len(q) - 1 : s[n] = q[n]
  BY <1>1, <1>2
<1> QED BY <1>1, <1>2, <1>3 DEF Front, Last

LEMMA TakeInv ==
  ASSUME Inv, NEW c \in Clients, GetBuffer(c), UNCHANGED <<conf, clientVars, finalized>>
  PROVE  Inv'
<1> USE DEF Inv
<1>1. /\ Stored' /\ UNCHANGED <<mem, flying, served>> /\ ult[c].run = "steps"
      /\ ult[c].pc \in DOMAIN Handler(c).steps /\ Now(c).do = "buffer"
  BY TakeStep DEF clientVars
<1>2. ult[c] \in UltRec /\ CallAssumption(CallOf(c)) /\ OwnBuffer(c)
  BY <1>1, CallKnown DEF TypeInv, Deferred
<1>3. HandlerAssumption(Handler(c)) /\ Handler(c)' = Handler(c) /\ CallOf(c)' = CallOf(c)
  BY <1>2 DEF CallAssumption, Handler, Fn, CallOf, clientVars
<1>4. Handler(c).steps \in Seq(StepRec)
  BY <1>3 DEF HandlerAssumption, StepRec
<1>5. ult[c].pc \in Nat /\ ult[c].stack \in Seq(Deferrals)
  BY <1>2 DEF UltRec
<1>6. CASE \E b \in Buffers :
             /\ GivenOut(b, CallOf(c).size, Handler(c).buffer)
             /\ UltTo(c, "steps", ult[c].pc + 1, Append(ult[c].stack, "release"), b)
  <2>1. PICK b \in Buffers :
             /\ GivenOut(b, CallOf(c).size, Handler(c).buffer)
             /\ UltTo(c, "steps", ult[c].pc + 1, Append(ult[c].stack, "release"), b)
    BY <1>6
  <2>2. /\ ult' \in [Clients -> UltRec] /\ ult'[c].run = "steps" /\ ult'[c].pc = ult[c].pc + 1
        /\ ult'[c].stack = Append(ult[c].stack, "release") /\ ult'[c].buf = b
        /\ \A d \in Clients : d # c => ult'[d] = ult[d]
    BY <2>1 DEF UltTo
  <2>3. /\ buf[b].at # "used" /\ buf' \in [Buffers -> BufferRec]
        /\ buf'[b].at = "used" /\ buf'[b].mode = Handler(c).buffer
        /\ buf'[b].size >= CallOf(c).size
        /\ \A x \in Buffers : x # b => buf'[x] = buf[x]
        /\ queue' \in [Modes -> Seq(Buffers)] /\ numInUse' = numInUse + 1
    BY <2>1 DEF GivenOut
  <2>4. b # Null
    BY SetupsAssumption DEF SetupsAssumption
  <2>5. ult[c].buf = Null
    <3>1. ~\E q \in DOMAIN Handler(c).steps :
              q < ult[c].pc /\ Handler(c).steps[q].do = "buffer"
      BY <1>1, <1>3, <1>4, <1>5 DEF HandlerAssumption, Now
    <3> QED BY <1>1, <1>2, <3>1 DEF OwnBuffer
  <2>6. TypeInv'
    BY <1>1, <2>2, <2>3 DEF TypeInv, clientVars
  <2>7. Control'
    BY <1>1, <2>2, ControlUlt
  <2>8. OwnBuffer(c)'
    <3>1. PICK s : s = Append(ult[c].stack, "release")
      OBVIOUS
    <3>2. "release" \in Deferrals
      BY DEF Deferrals
    <3>3. /\ DOMAIN s = 1 .. Len(ult[c].stack) + 1 /\ Len(ult[c].stack) \in Nat
          /\ DOMAIN ult[c].stack = 1 .. Len(ult[c].stack)
          /\ s[Len(ult[c].stack) + 1] = "release"
          /\ \A n \in DOMAIN ult[c].stack : s[n] = ult[c].stack[n]
      BY <1>5, <3>1, <3>2, OneDeferred
    <3>4. \A n \in DOMAIN ult[c].stack : ult[c].stack[n] # "release"
      BY <1>2, <2>5 DEF OwnBuffer
    <3>5. \A n \in DOMAIN s : s[n] = "release" => n = Len(ult[c].stack) + 1
      BY <3>3, <3>4
    <3>6. \E n \in DOMAIN s : s[n] = "release"
      BY <3>3
    <3>7. \A m, n \in DOMAIN s : s[m] = "release" /\ s[n] = "release" => m = n
      BY <3>5
    <3>8. \E q \in DOMAIN Handler(c).steps :
             q < ult[c].pc + 1 /\ Handler(c).steps[q].do = "buffer"
      BY <1>1, <1>5 DEF Now
    <3> QED BY <1>3, <2>2, <2>4, <3>1, <3>6, <3>7, <3>8 DEF OwnBuffer
  <2>9. Deferred'
    BY <2>2, <2>8, OwnBufferKept DEF clientVars, Deferred
  <2>10. Held'
    <3>1. \A x \in Buffers : buf'[x].at = "used" <=> \E d \in Clients : ult'[d].buf = x
      <4>1. ASSUME NEW x \in Buffers, x # b
            PROVE  buf'[x].at = "used" <=> \E d \in Clients : ult'[d].buf = x
        <5>1. (\E d \in Clients : ult'[d].buf = x) <=> \E d \in Clients : ult[d].buf = x
          BY <2>2, <2>5, <4>1, SetupsAssumption DEF SetupsAssumption
        <5> QED BY <2>3, <4>1, <5>1 DEF Held
      <4>2. buf'[b].at = "used" /\ \E d \in Clients : ult'[d].buf = b
        BY <2>2, <2>3
      <4> QED BY <4>1, <4>2
    <3>2. \A d \in Clients : ult[d].buf # b
      BY <2>3 DEF Held
    <3>3. ASSUME NEW d \in Clients, NEW e \in Clients, ult'[d].buf # Null, ult'[e].buf # Null,
                 ult'[d].buf = ult'[e].buf
          PROVE  d = e
      <4>1. CASE d = c \/ e = c
        BY <2>2, <3>2, <3>3, <4>1
      <4>2. CASE d # c /\ e # c
        BY <2>2, <3>3, <4>2 DEF Held, Holders
      <4> QED BY <4>1, <4>2
    <3>4. ASSUME NEW d \in Clients, ult'[d].buf # Null
          PROVE  buf'[ult'[d].buf].mode = Handler(d)'.buffer
                 /\ buf'[ult'[d].buf].size >= CallOf(d)'.size
      <4>1. CASE d = c
        BY <1>3, <2>2, <2>3, <4>1
      <4>2. CASE d # c
        <5>1. ult'[d].buf = ult[d].buf /\ ult[d].buf \in Buffers
          BY <2>2, <3>4, <4>2 DEF TypeInv, UltRec
        <5>2. buf'[ult[d].buf] = buf[ult[d].buf]
          BY <2>3, <3>2, <5>1
        <5>3. Handler(d)' = Handler(d) /\ CallOf(d)' = CallOf(d)
          BY DEF Handler, Fn, CallOf, clientVars
        <5> QED BY <3>4, <5>1, <5>2, <5>3 DEF Held, Holders
      <4> QED BY <4>1, <4>2
    <3>5. ~finalized'
      BY <1>1 DEF Control, Idle
    <3> QED BY <3>1, <3>3, <3>4, <3>5 DEF Held, Holders
  <2>11. Counted'
    <3>1. Holders' = Holders \cup {c} /\ c \notin Holders
      BY <2>2, <2>4, <2>5 DEF Holders
    <3>2. Cardinality(Holders') = Cardinality(Holders) + 1
      BY <3>1, HoldersFinite, FS_AddElement
    <3> QED BY <2>3, <3>2 DEF Counted
  <2> QED BY <1>1, <2>6, <2>7, <2>9, <2>10, <2>11
<1>7. CASE /\ GivesUp(c) /\ buf' = buf /\ queue' = queue /\ numInUse' \in Int
           /\ CountsRight(conf) => numInUse' = numInUse
  <2>1. /\ ult' \in [Clients -> UltRec] /\ ult'[c].buf = ult[c].buf /\ ult'[c].run = "unwind"
        /\ \A d \in Clients : d # c => ult'[d] = ult[d]
    BY <1>7 DEF GivesUp, UltTo
  <2>2. TypeInv'
    BY <1>1, <1>7, <2>1 DEF TypeInv, clientVars
  <2>3. Control'
    BY <1>1, <2>1, ControlUlt
  <2>4. Deferred'
    BY <1>7, <2>1, OwnBufferGivesUp, OwnBufferKept DEF clientVars, Deferred
  <2>5. Holders' = Holders
    BY <2>1 DEF Holders
  <2>6. \A d \in Clients : Handler(d)' = Handler(d) /\ CallOf(d)' = CallOf(d)
                           /\ ult'[d].buf = ult[d].buf
    BY <2>1 DEF Handler, Fn, CallOf, clientVars
  <2>7. Held'
    <3>1. \A d \in Holders : /\ buf'[ult'[d].buf].mode = Handler(d)'.buffer
                             /\ buf'[ult'[d].buf].size >= CallOf(d)'.size
      BY <1>7, <2>6 DEF Held, Holders
    <3> QED BY <1>7, <2>5, <2>6, <3>1 DEF Held, Holders
  <2>8. Counted'
    BY <1>7, <2>5 DEF Counted
  <2> QED BY <1>1, <2>2, <2>3, <2>4, <2>7, <2>8
<1> QED BY <1>6, <1>7, TakeStep DEF clientVars

\* A ULT that unwinds has something deferred, which goes.
LEMMA UnwindKnown ==
  ASSUME Inv, NEW c \in Clients, NEW what, Unwinding(c, what)
  PROVE  /\ ult[c] \in UltRec /\ ult[c].stack \in Seq(Deferrals) /\ ult[c].stack # <<>>
         /\ Popped(c) \in UltRec /\ Popped(c).run = "unwind" /\ Popped(c).buf = ult[c].buf
         /\ Popped(c).stack = Front(ult[c].stack) /\ Last(ult[c].stack) \in what
         /\ ult[c].run \in {"steps", "unwind"} /\ ~finalized
<1>1. ult[c] \in UltRec /\ ult[c].stack \in Seq(Deferrals)
  BY DEF Inv, TypeInv, UltRec
<1>2. /\ ult[c].stack # <<>> /\ Last(ult[c].stack) \in what
      /\ ult[c].run \in {"steps", "unwind"}
  BY DEF Unwinding, Top
<1>3. ~finalized
  BY <1>2 DEF Inv, Control, Idle
<1> QED BY <1>1, <1>2, <1>3, PoppedDone DEF Inv

LEMMA OwnBufferPopped ==
  ASSUME Inv, NEW c \in Clients, NEW what, Unwinding(c, what), "release" \notin what,
         ult'[c].run = "unwind", ult'[c].buf = ult[c].buf,
         ult'[c].stack = Front(ult[c].stack)
  PROVE  OwnBuffer(c)'
<1>1. /\ ult[c].stack \in Seq(Deferrals) /\ ult[c].stack # <<>>
      /\ Last(ult[c].stack) # "release" /\ OwnBuffer(c)
  BY UnwindKnown DEF Inv, Deferred
<1>2. PICK s : s = Front(ult[c].stack)
  OBVIOUS
<1>3. PICK l : l = Len(ult[c].stack)
  OBVIOUS
<1>4. /\ DOMAIN s = 1 .. l - 1 /\ DOMAIN ult[c].stack = 1 .. l /\ l \in Nat \ {0}
      /\ ult[c].stack[l] # "release"
      /\ \A n \in DOMAIN s : s[n] = ult[c].stack[n]
  BY <1>1, <1>2, <1>3, LastDeferred
<1>5. \A n \in DOMAIN s : n \in DOMAIN ult[c].stack
  BY <1>4
<1>6. (\E n \in DOMAIN s : s[n] = "release")
       <=> \E n \in DOMAIN ult[c].stack : ult[c].stack[n] = "release"
  <2>1. ASSUME NEW n \in DOMAIN ult[c].stack, ult[c].stack[n] = "release"
        PROVE  n \in DOMAIN s /\ s[n] = "release"
    <3>1. n # l
      BY <1>4, <2>1
    <3> QED BY <1>4, <2>1, <3>1
  <2> QED BY <1>4, <1>5, <2>1
<1>7. \A m, n \in DOMAIN s : s[m] = "release" /\ s[n] = "release" => m = n
  BY <1>1, <1>4, <1>5 DEF OwnBuffer
<1> QED BY <1>1, <1>2, <1>6, <1>7 DEF OwnBuffer

\* The steps of a ULT's end that leave the cache alone.
LEMMA UnwindInv ==
  ASSUME Inv, NEW c \in Clients, FreeRequest(c) \/ Respond(c) \/ EndUlt(c)
  PROVE  Inv'
<1> USE DEF Inv
<1>1. PICK what : Unwinding(c, what) /\ "release" \notin what
  BY DEF FreeRequest, Respond, EndUlt
<1>2. /\ ult[c] \in UltRec /\ ult[c].stack \in Seq(Deferrals) /\ ult[c].stack # <<>>
      /\ Popped(c) \in UltRec /\ Popped(c).run = "unwind" /\ Popped(c).buf = ult[c].buf
      /\ Popped(c).stack = Front(ult[c].stack) /\ Last(ult[c].stack) \in what
      /\ ult[c].run \in {"steps", "unwind"} /\ ~finalized
  BY <1>1, UnwindKnown
<1>3. UNCHANGED <<conf, calls, mem, flying, served, finalized, cacheVars, exposed>>
  BY DEF FreeRequest, Respond, EndUlt, clientVars
<1>4. ult \in [Clients -> UltRec] /\ cl \in [Clients -> CallRec]
  BY DEF TypeInv
<1>5. PICK u \in UltRec :
        /\ ult' = [ult EXCEPT ![c] = u] /\ u.buf = ult[c].buf
        /\ \/ u.run = "unwind" /\ u.stack = Front(ult[c].stack)
           \/ u = NoUlt /\ Len(ult[c].stack) = 1
  <2>1. CASE FreeRequest(c) \/ Respond(c)
    BY <1>2, <2>1 DEF FreeRequest, Respond
  <2>2. CASE EndUlt(c) /\ Len(ult[c].stack) = 1
    <3>1. ult' = [ult EXCEPT ![c] = NoUlt]
      BY <2>2 DEF EndUlt
    <3>2. NoUlt \in UltRec /\ NoUlt.buf = Null
      <4>1. Blank \in Memory /\ <<>> \in Seq(Deferrals)
        BY DEF Blank, Memory, Data
      <4> QED BY <4>1 DEF NoUlt, UltRec, Rets
    <3>3. ult[c].buf = Null
      <4>1. \A n \in DOMAIN ult[c].stack : n = 1 /\ ult[c].stack[n] # "release"
        BY <1>1, <1>2, <2>2, LastDeferred
      <4> QED BY <4>1 DEF Deferred, OwnBuffer
    <3> QED BY <2>2, <3>1, <3>2, <3>3
  <2>3. CASE EndUlt(c) /\ Len(ult[c].stack) # 1 /\ Top(c) = "locals"
    <3>1. PICK u : u = [Popped(c) EXCEPT !.out = Blank]
      OBVIOUS
    <3>2. ult' = [ult EXCEPT ![c] = u]
      BY <2>3, <3>1 DEF EndUlt
    <3>3. Blank \in Memory
      BY DEF Blank, Memory, Data
    <3>4. u \in UltRec /\ u.buf = ult[c].buf /\ u.run = "unwind" /\ u.stack = Front(ult[c].stack)
      BY <1>2, <3>1, <3>3 DEF UltRec
    <3> QED BY <3>2, <3>4
  <2>4. CASE EndUlt(c) /\ Len(ult[c].stack) # 1 /\ Top(c) # "locals"
    <3>1. ult' = [ult EXCEPT ![c] = Popped(c)]
      BY <2>4 DEF EndUlt
    <3> QED BY <1>2, <3>1
  <2> QED BY <2>1, <2>2, <2>3, <2>4
<1>6. /\ ult' \in [Clients -> UltRec] /\ ult'[c] = u
      /\ \A d \in Clients : d # c => ult'[d] = ult[d]
  BY <1>4, <1>5
<1>7. /\ cl' \in [Clients -> CallRec]
      /\ cl' = cl \/ (cl'[c].run \in {"answered", "back"} /\ Respond(c)
                      /\ \A d \in Clients : d # c => cl'[d] = cl[d])
  <2>1. CASE FreeRequest(c) \/ EndUlt(c)
    BY <1>4, <2>1 DEF FreeRequest, EndUlt, clientVars
  <2>2. CASE /\ Respond(c)
             /\ cl' = [cl EXCEPT ![c].run = "answered", ![c].ret = ult[c].ret, ![c].out = ult[c].out]
    <3>1. PICK k : k = [cl[c] EXCEPT !.run = "answered", !.ret = ult[c].ret, !.out = ult[c].out]
      OBVIOUS
    <3>2. cl' = [cl EXCEPT ![c] = k]
      BY <1>4, <2>2, <3>1
    <3>3. ult[c].ret \in Rets /\ ult[c].out \in Memory /\ cl[c] \in CallRec
      BY <1>2, <1>4 DEF UltRec
    <3>4. k \in CallRec /\ k.run = "answered"
      BY <3>1, <3>3 DEF CallRec
    <3> QED BY <1>4, <2>2, <3>2, <3>4, ZenonT(60)
  <2>3. CASE Respond(c) /\ ClientReturns(c, "FromMercury")
    <3>1. PICK k : k = [cl[c] EXCEPT !.run = "back", !.ret = "FromMercury"]
      OBVIOUS
    <3>2. cl' = [cl EXCEPT ![c] = k]
      BY <1>4, <2>3, <3>1 DEF ClientReturns
    <3>3. k \in CallRec /\ k.run = "back"
      BY <1>4, <3>1 DEF CallRec, Rets
    <3> QED BY <1>4, <2>3, <3>2, <3>3
  <2> QED BY <2>1, <2>2, <2>3 DEF Respond
<1>8. TypeInv'
  BY <1>3, <1>6, <1>7 DEF TypeInv, cacheVars
<1>9. Control'
  <2>1. ASSUME NEW d \in Clients
        PROVE  /\ calls[d] <= Len(conf.calls[d])
               /\ cl'[d].run # "idle" \/ ult'[d].run # "none" => calls[d] >= 1
               /\ cl'[d].run = "steps" => ult'[d].run = "none"
               /\ ult'[d].run = "steps" => cl'[d].run = "waiting"
    <3>1. CASE d # c
      BY <1>6, <1>7, <3>1 DEF Control
    <3>2. CASE d = c
      <4>1. ult'[c].run # "steps" /\ calls[c] >= 1 /\ cl[c].run # "steps"
        BY <1>2, <1>5, <1>6 DEF NoUlt, Control
      <4>2. cl'[c].run # "steps"
        BY <1>7, <4>1
      <4> QED BY <3>2, <4>1, <4>2 DEF Control
    <3> QED BY <3>1, <3>2
  <2> QED BY <1>2, <1>3, <2>1 DEF Control
<1>10. Deferred'
  <2>1. OwnBuffer(c)'
    <3>1. CASE u.run = "unwind" /\ u.stack = Front(ult[c].stack)
      BY <1>1, <1>5, <1>6, <3>1, OwnBufferPopped
    <3>2. CASE u = NoUlt
      <4>1. u.run = "none" /\ u.buf = Null /\ u.stack = <<>>
        BY <3>2 DEF NoUlt
      <4> QED BY <1>6, <4>1 DEF OwnBuffer
    <3> QED BY <1>5, <3>1, <3>2
  <2> QED BY <1>3, <1>6, <2>1, OwnBufferKept DEF Deferred
<1>11. Held' /\ Stored' /\ Counted'
  <2>1. BuffersKept
    BY <1>3, CacheUnchanged
  <2> QED BY <1>3, <1>5, <1>6, <2>1, HeldKept
<1> QED BY <1>8, <1>9, <1>10, <1>11

\* A request that releases its buffer has one, which goes back.
LEMMA ReleaseStep ==
  ASSUME Inv, NEW c \in Clients, ReleaseBuffer(c)
  PROVE  /\ ult[c].buf \in Buffers /\ ult[c].buf # Null /\ buf[ult[c].buf].at = "used"
         /\ TakenBack(ult[c].buf) /\ Stored'
<1> USE DEF Inv
<1>1. Unwinding(c, {"release"}) /\ CacheRelease(conf.cache, ult[c].buf)
      /\ UNCHANGED <<conf, clientVars, mem, flying, served, finalized>>
  BY DEF ReleaseBuffer
<1>2. /\ ult[c] \in UltRec /\ ult[c].stack \in Seq(Deferrals) /\ ult[c].stack # <<>>
      /\ Popped(c) \in UltRec /\ Popped(c).run = "unwind" /\ Popped(c).buf = ult[c].buf
      /\ Popped(c).stack = Front(ult[c].stack) /\ Last(ult[c].stack) \in {"release"}
      /\ ult[c].run \in {"steps", "unwind"} /\ ~finalized
  BY <1>1, UnwindKnown
<1>3. /\ DOMAIN Front(ult[c].stack) = 1 .. Len(ult[c].stack) - 1
      /\ DOMAIN ult[c].stack = 1 .. Len(ult[c].stack) /\ Len(ult[c].stack) \in Nat \ {0}
      /\ ult[c].stack[Len(ult[c].stack)] = "release"
      /\ \A n \in DOMAIN Front(ult[c].stack) : Front(ult[c].stack)[n] = ult[c].stack[n]
  BY <1>2, LastDeferred
<1>4. OwnBuffer(c)
  BY DEF Deferred
<1>5. PICK b : b = ult[c].buf
  OBVIOUS
<1>6. b # Null /\ b \in Buffers
  <2>1. Len(ult[c].stack) \in DOMAIN ult[c].stack
    BY <1>3
  <2>2. \E n \in DOMAIN ult[c].stack : ult[c].stack[n] = "release"
    BY <1>3, <2>1
  <2>3. ult[c].buf # Null
    BY <1>4, <2>2 DEF OwnBuffer
  <2>4. ult[c].buf \in Buffers \cup {Null}
    BY <1>2 DEF UltRec
  <2> QED BY <1>5, <2>3, <2>4
<1>7. buf[b].at = "used"
  BY <1>5, <1>6 DEF Held
<1>8. TakenBack(b) /\ Stored'
  BY <1>1, <1>5, <1>6, <1>7, Released
<1> QED BY <1>5, <1>6, <1>7, <1>8

LEMMA ReleaseInv ==
  ASSUME Inv, NEW c \in Clients, ReleaseBuffer(c)
  PROVE  Inv'
<1> USE DEF Inv
<1>1. Unwinding(c, {"release"}) /\ CacheRelease(conf.cache, ult[c].buf)
      /\ UNCHANGED <<conf, clientVars, mem, flying, served, finalized>>
  BY DEF ReleaseBuffer
<1>2. /\ ult[c] \in UltRec /\ ult[c].stack \in Seq(Deferrals) /\ ult[c].stack # <<>>
      /\ Popped(c) \in UltRec /\ Popped(c).run = "unwind" /\ Popped(c).buf = ult[c].buf
      /\ Popped(c).stack = Front(ult[c].stack) /\ Last(ult[c].stack) \in {"release"}
      /\ ult[c].run \in {"steps", "unwind"} /\ ~finalized
  BY <1>1, UnwindKnown
<1>3. /\ DOMAIN Front(ult[c].stack) = 1 .. Len(ult[c].stack) - 1
      /\ DOMAIN ult[c].stack = 1 .. Len(ult[c].stack) /\ Len(ult[c].stack) \in Nat \ {0}
      /\ ult[c].stack[Len(ult[c].stack)] = "release"
      /\ \A n \in DOMAIN Front(ult[c].stack) : Front(ult[c].stack)[n] = ult[c].stack[n]
  BY <1>2, LastDeferred
<1>4. OwnBuffer(c)
  BY DEF Deferred
<1>5. PICK b : b = ult[c].buf
  OBVIOUS
<1>6. b # Null /\ b \in Buffers
  BY <1>5, ReleaseStep
<1>8. TakenBack(b) /\ Stored'
  BY <1>5, ReleaseStep
<1>9. PICK u : u = [Popped(c) EXCEPT !.buf = Null]
  OBVIOUS
<1>10. u \in UltRec /\ u.run = "unwind" /\ u.buf = Null /\ u.stack = Front(ult[c].stack)
  BY <1>2, <1>9 DEF UltRec
<1>11. ult' = [ult EXCEPT ![c] = u]
  BY <1>9 DEF ReleaseBuffer
<1>12. /\ ult' \in [Clients -> UltRec] /\ ult'[c] = u
       /\ \A d \in Clients : d # c => ult'[d] = ult[d]
  BY <1>10, <1>11 DEF TypeInv
<1>13. TypeInv'
  BY <1>1, <1>8, <1>12 DEF TypeInv, TakenBack, clientVars
<1>14. Control'
  BY <1>1, <1>2, <1>10, <1>12, ControlUlt
<1>15. Deferred'
  <2>1. \A n \in DOMAIN Front(ult[c].stack) : Front(ult[c].stack)[n] # "release"
    <3>1. ASSUME NEW n \in DOMAIN Front(ult[c].stack), Front(ult[c].stack)[n] = "release"
          PROVE  FALSE
      <4>1. n \in DOMAIN ult[c].stack /\ ult[c].stack[n] = "release"
            /\ Len(ult[c].stack) \in DOMAIN ult[c].stack /\ n # Len(ult[c].stack)
        BY <1>3, <3>1
      <4> QED BY <1>3, <1>4, <4>1 DEF OwnBuffer
    <3> QED BY <3>1
  <2>2. OwnBuffer(c)'
    BY <1>10, <1>12, <2>1 DEF OwnBuffer
  <2> QED BY <1>1, <1>12, <2>2, OwnBufferKept DEF Deferred, clientVars
<1>16. /\ buf'[b].at # "used" /\ numInUse' = numInUse - 1
       /\ \A x \in Buffers : x # b => /\ buf'[x].at = "used" <=> buf[x].at = "used"
                                      /\ buf[x].at = "used" => buf'[x] = buf[x]
  BY <1>8 DEF TakenBack
<1>17. \A d \in Clients : ult[d].buf = b => d = c
  BY <1>5, <1>6 DEF Held, Holders
<1>18. Held'
  <2>1. ASSUME NEW x \in Buffers
        PROVE  buf'[x].at = "used" <=> \E d \in Clients : ult'[d].buf = x
    <3>1. CASE x = b
      <4>1. \A d \in Clients : ult'[d].buf # b
        BY <1>6, <1>10, <1>12, <1>17
      <4> QED BY <1>16, <3>1, <4>1
    <3>2. CASE x # b
      <4>1. x # Null
        BY SetupsAssumption DEF SetupsAssumption
      <4>2. (\E d \in Clients : ult'[d].buf = x) <=> \E d \in Clients : ult[d].buf = x
        BY <1>5, <1>10, <1>12, <3>2, <4>1
      <4> QED BY <1>16, <3>2, <4>2 DEF Held
    <3> QED BY <3>1, <3>2
  <2>2. ASSUME NEW d \in Clients, ult'[d].buf # Null
        PROVE  /\ d # c /\ ult'[d] = ult[d] /\ d \in Holders
               /\ ult[d].buf # b /\ ult[d].buf \in Buffers
    <3>1. d # c
      BY <1>10, <1>12, <2>2
    <3>2. ult'[d] = ult[d] /\ ult[d].buf # b
      BY <1>12, <1>17, <3>1
    <3> QED BY <2>2, <3>1, <3>2 DEF Holders, TypeInv, UltRec
  <2>3. \A d, e \in Clients :
           ult'[d].buf # Null /\ ult'[e].buf # Null /\ ult'[d].buf = ult'[e].buf => d = e
    BY <2>2 DEF Held
  <2>4. ASSUME NEW d \in Clients, ult'[d].buf # Null
        PROVE  /\ buf'[ult'[d].buf].mode = Handler(d)'.buffer
               /\ buf'[ult'[d].buf].size >= CallOf(d)'.size
    <3>1. buf[ult[d].buf].at = "used"
      BY <2>2, <2>4 DEF Held
    <3>2. buf'[ult[d].buf] = buf[ult[d].buf]
      BY <1>16, <2>2, <2>4, <3>1
    <3>3. Handler(d)' = Handler(d) /\ CallOf(d)' = CallOf(d)
      BY <1>1 DEF Handler, Fn, CallOf, clientVars
    <3> QED BY <2>2, <2>4, <3>2, <3>3 DEF Held
  <2> QED BY <1>1, <1>2, <2>1, <2>3, <2>4 DEF Held, Holders
<1>19. Counted'
  <2>1. Holders' = Holders \ {c} /\ c \in Holders
    BY <1>5, <1>6, <1>10, <1>12 DEF Holders
  <2>2. Cardinality(Holders') = Cardinality(Holders) - 1
    BY <2>1, HoldersFinite, FS_RemoveElement
  <2> QED BY <1>1, <1>16, <2>2 DEF Counted
<1> QED BY <1>8, <1>13, <1>14, <1>15, <1>18, <1>19

\* A client changes what belongs to it, the ULTs nothing of that.
LEMMA ClientInv ==
  ASSUME Inv, NEW c \in Clients, Begin(c) \/ ClientStep(c)
  PROVE  Inv'
<1> USE DEF Inv
<1>1. UNCHANGED <<conf, flying, finalized, cacheVars>>
  BY DEF Begin, ClientStep, ClientLocalStep, GetOutput, Return
<1>2. /\ calls \in [Clients -> Nat] /\ cl \in [Clients -> CallRec] /\ ult \in [Clients -> UltRec]
      /\ mem \in [Clients -> Memory] /\ served \in [Clients -> Nat] /\ conf \in Setups
      /\ exposed \in [Clients -> {"none", "readonly", "readwrite"}]
  BY DEF TypeInv
<1>3. BuffersKept
  BY <1>1, CacheUnchanged
<1>4. ASSUME calls' \in [Clients -> Nat], cl' \in [Clients -> CallRec],
             ult' \in [Clients -> UltRec], mem' \in [Clients -> Memory],
             served' \in [Clients -> Nat],
             exposed' \in [Clients -> {"none", "readonly", "readwrite"}],
             \A d \in Clients : d # c => cl'[d] = cl[d] /\ ult'[d] = ult[d] /\ calls'[d] = calls[d],
             ult'[c] = ult[c] \/ (ult[c].run = "none" /\ ult'[c].stack = FirstDeferred
                                  /\ ult'[c].buf = Null /\ ult'[c].pc = 1),
             calls'[c] = calls[c] \/ (calls'[c] = calls[c] + 1 /\ ult[c].run = "none"),
             calls'[c] <= Len(conf.calls[c]),
             cl'[c].run # "idle" \/ ult'[c].run # "none" => calls'[c] >= 1,
             cl'[c].run = "steps" => ult'[c].run = "none",
             ult'[c].run = "steps" => cl'[c].run = "waiting",
             ~finalized
      PROVE  Inv'
  <2>1. TypeInv'
    BY <1>1, <1>4 DEF TypeInv, cacheVars
  <2>2. Control'
    <3>1. ASSUME NEW d \in Clients
          PROVE  /\ calls'[d] <= Len(conf.calls[d])
                 /\ cl'[d].run # "idle" \/ ult'[d].run # "none" => calls'[d] >= 1
                 /\ cl'[d].run = "steps" => ult'[d].run = "none"
                 /\ ult'[d].run = "steps" => cl'[d].run = "waiting"
      <4>1. CASE d = c
        BY <1>4, <4>1
      <4>2. CASE d # c
        BY <1>4, <4>2 DEF Control
      <4> QED BY <4>1, <4>2
    <3> QED BY <1>1, <1>4, <3>1 DEF Control
  <2>3. OwnBuffer(c)'
    <3>1. CASE ult'[c] = ult[c] /\ calls'[c] = calls[c]
      BY <1>1, <3>1, OwnBufferKept DEF Deferred
    <3>2. CASE ult'[c] = ult[c] /\ ult[c].run = "none"
      BY <3>2 DEF Deferred, OwnBuffer
    <3>3. CASE ult'[c].stack = FirstDeferred /\ ult'[c].buf = Null /\ ult'[c].pc = 1
      <4>1. \A n \in DOMAIN FirstDeferred : FirstDeferred[n] # "release"
        BY DEF FirstDeferred
      <4>2. ASSUME ult'[c].run = "steps",
                   NEW q \in DOMAIN Handler(c)'.steps, q < 1
            PROVE  FALSE
        <5>1. calls'[c] \in Nat /\ calls'[c] >= 1 /\ calls'[c] <= Len(conf.calls[c])
          BY <1>4, <4>2
        <5>2. conf.calls[c] \in Seq(ToSet(conf.calls[c]))
          BY <1>2, SetupsAssumption DEF SetupsAssumption
        <5>3. calls'[c] \in DOMAIN conf.calls[c]
          BY <5>1, <5>2
        <5>4. CallAssumption(conf.calls[c][calls'[c]])
          BY <1>2, <5>3, SetupsAssumption DEF SetupsAssumption
        <5>5. Handler(c)' = conf.calls[c][calls'[c]].fn.rpc
          BY <1>1 DEF Handler, Fn, CallOf
        <5>6. Handler(c)'.steps \in Seq(StepRec)
          BY <5>4, <5>5 DEF CallAssumption, HandlerAssumption, StepRec
        <5>7. q \in Nat \ {0}
          BY <4>2, <5>6
        <5> QED BY <4>2, <5>7
      <4> QED BY <3>3, <4>1, <4>2 DEF OwnBuffer
    <3> QED BY <1>4, <3>1, <3>2, <3>3
  <2>4. Deferred'
    BY <1>1, <1>4, <2>3, OwnBufferKept DEF Deferred
  <2>5. \A d \in Clients : ult[d].run = "none" => ult[d].buf = Null
    BY DEF Deferred, OwnBuffer
  <2>6. /\ \A d \in Clients : ult'[d].buf = ult[d].buf
        /\ \A d \in Clients : ult[d].buf # Null => calls'[d] = calls[d]
    BY <1>4, <2>5
  <2>7. Held' /\ Stored' /\ Counted'
    BY <1>1, <1>3, <2>6, HeldKept
  <2> QED BY <2>1, <2>2, <2>4, <2>7
<1>5. cl[c] \in CallRec /\ calls[c] \in Nat /\ ult[c] \in UltRec
  BY <1>2
<1>6. /\ calls[c] <= Len(conf.calls[c])
      /\ cl[c].run # "idle" \/ ult[c].run # "none" => calls[c] >= 1
      /\ cl[c].run = "steps" => ult[c].run = "none"
      /\ ult[c].run = "steps" => cl[c].run = "waiting"
      /\ finalized => cl[c].run = "idle" /\ calls[c] = Len(conf.calls[c])
  BY DEF Control, Idle
\* The client goes on in its call.
<1>7. ASSUME UNCHANGED <<calls, ult, served>>, cl[c].run # "idle", mem' \in [Clients -> Memory],
             exposed' \in [Clients -> {"none", "readonly", "readwrite"}],
             NEW k \in CallRec, cl' = [cl EXCEPT ![c] = k],
             k.run = "steps" => cl[c].run = "steps", ult[c].run # "steps"
      PROVE  Inv'
  <2>1. cl' \in [Clients -> CallRec] /\ cl'[c] = k /\ \A d \in Clients : d # c => cl'[d] = cl[d]
    BY <1>2, <1>7
  <2> QED BY <1>2, <1>4, <1>6, <1>7, <2>1
<1>8. ASSUME UNCHANGED <<calls, ult, served>>, cl[c].run # "idle", mem' \in [Clients -> Memory],
             ult[c].run # "steps",
             exposed' \in [Clients -> {"none", "readonly", "readwrite"}],
             NEW ret \in Rets, ClientReturns(c, ret)
      PROVE  Inv'
  <2>1. PICK k : k = [cl[c] EXCEPT !.run = "back", !.ret = ret]
    OBVIOUS
  <2>2. cl' = [cl EXCEPT ![c] = k]
    BY <1>2, <1>8, <2>1 DEF ClientReturns
  <2>3. k \in CallRec /\ k.run = "back"
    BY <1>5, <1>8, <2>1 DEF CallRec
  <2> QED BY <1>7, <1>8, <2>2, <2>3
<1>9. ASSUME UNCHANGED <<calls, ult, served>>, cl[c].run = "steps", mem' = mem,
             exposed' \in [Clients -> {"none", "readonly", "readwrite"}],
             ClientNext(c)
      PROVE  Inv'
  <2>1. PICK k : k = [cl[c] EXCEPT !.pc = @ + 1]
    OBVIOUS
  <2>2. cl' = [cl EXCEPT ![c] = k]
    BY <1>2, <1>9, <2>1 DEF ClientNext
  <2>3. k \in CallRec /\ k.run = "steps"
    BY <1>5, <1>9, <2>1 DEF CallRec
  <2> QED BY <1>2, <1>6, <1>7, <1>9, <2>2, <2>3
<1>10. CASE Begin(c)
  <2>1. /\ cl[c].run = "idle" /\ ult[c].run = "none" /\ calls[c] < Len(conf.calls[c])
        /\ calls' = [calls EXCEPT ![c] = @ + 1] /\ UNCHANGED <<exposed, ult>>
        /\ served' = [served EXCEPT ![c] = 0]
    BY <1>10 DEF Begin
  <2>2. PICK k : k = [NoCall EXCEPT !.run = "steps"]
    OBVIOUS
  <2>3. k \in CallRec
    <3>1. Blank \in Memory
      BY DEF Blank, Memory, Data
    <3> QED BY <2>2, <3>1 DEF NoCall, CallRec, Rets
  <2>4. cl' = [cl EXCEPT ![c] = k]
    BY <1>10, <2>2 DEF Begin
  <2>5. cl' \in [Clients -> CallRec] /\ \A d \in Clients : d # c => cl'[d] = cl[d]
    BY <1>2, <2>3, <2>4
  <2>6. /\ calls' \in [Clients -> Nat] /\ calls'[c] = calls[c] + 1
        /\ \A d \in Clients : d # c => calls'[d] = calls[d]
    BY <1>2, <2>1
  <2>7. PICK m : m = [r \in Regions |-> IF r \in Given(conf.calls[c][calls'[c]].fn)
                                       THEN Sent(c, calls'[c], r) ELSE Junk]
    OBVIOUS
  <2>8. m \in Memory
    <3>1. \A r \in Regions : Sent(c, calls'[c], r) \in Data /\ Junk \in Data
      BY <2>6 DEF Sent, Data
    <3> QED BY <2>7, <3>1 DEF Memory
  <2>9. mem' \in [Clients -> Memory]
    BY <1>2, <1>10, <2>7, <2>8 DEF Begin
  <2>10. served' \in [Clients -> Nat]
    BY <1>2, <2>1
  <2>11. calls'[c] <= Len(conf.calls[c]) /\ calls'[c] >= 1 /\ ~finalized
    <3>1. Len(conf.calls[c]) \in Nat
      BY <1>2, SetupsAssumption DEF SetupsAssumption
    <3> QED BY <1>5, <1>6, <2>1, <2>6, <3>1
  <2>12. ult' = ult /\ ult'[c].run = "none"
    BY <2>1
  <2>13. exposed' \in [Clients -> {"none", "readonly", "readwrite"}]
    BY <1>2, <2>1
  <2>14. /\ ult' \in [Clients -> UltRec] /\ ult'[c] = ult[c] /\ ult'[c].run # "steps"
         /\ \A d \in Clients : d # c => ult'[d] = ult[d]
    BY <1>2, <2>12
  <2>15. \A d \in Clients : d # c => cl'[d] = cl[d] /\ ult'[d] = ult[d] /\ calls'[d] = calls[d]
    BY <2>5, <2>6, <2>14
  <2>16. ult[c].run = "none"
    BY <2>1
  <2> QED BY <1>4, <2>5, <2>6, <2>9, <2>10, <2>11, <2>12, <2>13, <2>14, <2>15, <2>16
<1>11. CASE ClientLocalStep(c)
  <2>1. cl[c].run = "steps" /\ ult[c].run = "none" /\ UNCHANGED <<mem, served>>
    BY <1>6, <1>11 DEF ClientLocalStep, CheckArgs, Expose, CheckMode, CreateHandle, Forward, AtClient
  <2>2. ASSUME NEW what, ClientFails(c, what) PROVE Inv'
    <3>1. ClientReturns(c, "FromMercury") /\ UNCHANGED <<calls, exposed, ult>>
      BY <2>2 DEF ClientFails
    <3> QED BY <1>2, <1>8, <2>1, <3>1 DEF Rets
  <2>3. CASE CheckArgs(c)
    <3>1. UNCHANGED <<calls, exposed, ult>>
      BY <2>3 DEF CheckArgs
    <3>2. \/ ClientReturns(c, "OK") \/ ClientReturns(c, "InvalidArgs") \/ ClientNext(c)
      BY <2>3 DEF CheckArgs
    <3> QED BY <1>2, <1>8, <1>9, <2>1, <3>1, <3>2 DEF Rets
  <2>4. CASE Expose(c)
    <3>1. CASE ClientNext(c) /\ exposed' = [exposed EXCEPT ![c] = Fn(c).access]
               /\ UNCHANGED <<calls, ult>>
      <4>1. Fn(c).access \in {"none", "readonly", "readwrite"}
        BY <2>1, CallKnown DEF CallAssumption, Fn
      <4> QED BY <1>2, <1>9, <2>1, <3>1, <4>1
    <3> QED BY <2>2, <2>4, <3>1 DEF Expose
  <2>5. CASE CheckMode(c)
    <3>1. UNCHANGED <<calls, exposed, ult>>
      BY <2>5 DEF CheckMode
    <3>2. \/ ClientReturns(c, "ErrMode") \/ ClientNext(c)
      BY <2>5 DEF CheckMode
    <3> QED BY <1>2, <1>8, <1>9, <2>1, <3>1, <3>2 DEF Rets
  <2>6. CASE CreateHandle(c)
    <3>1. CASE ClientNext(c) /\ UNCHANGED <<calls, exposed, ult>>
      BY <1>2, <1>9, <2>1, <3>1
    <3> QED BY <2>2, <2>6, <3>1 DEF CreateHandle
  <2>7. CASE Forward(c)
    <3>a. PICK i : i = [r \in Regions |-> IF r \in Fn(c).sends THEN mem[c][r] ELSE Junk]
      OBVIOUS
    <3>1. PICK u : u = [NoUlt EXCEPT !.run = "steps", !.stack = FirstDeferred, !.in = i]
      OBVIOUS
    <3>2. CASE cl' = [cl EXCEPT ![c].run = "waiting"] /\ ult' = [ult EXCEPT ![c] = u]
               /\ UNCHANGED <<calls, exposed>>
      <4>1. PICK k : k = [cl[c] EXCEPT !.run = "waiting"]
        OBVIOUS
      <4>2. cl' = [cl EXCEPT ![c] = k]
        BY <1>2, <3>2, <4>1
      <4>3. k \in CallRec /\ k.run = "waiting"
        BY <1>5, <4>1 DEF CallRec
      <4>4. i \in Memory
        BY <1>2, <3>a DEF Memory, Data
      <4>5. FirstDeferred \in Seq(Deferrals) /\ Blank \in Memory
        BY DEF FirstDeferred, Deferrals, Blank, Memory, Data
      <4>a. PICK n : n = NoUlt
        OBVIOUS
      <4>b. n \in UltRec /\ n.buf = Null /\ n.pc = 1
        BY <4>5, <4>a DEF UltRec, NoUlt, Rets
      <4>c. u = [n EXCEPT !.run = "steps", !.stack = FirstDeferred, !.in = i]
        BY <3>1, <4>a
      <4>6. /\ u \in UltRec /\ u.run = "steps" /\ u.stack = FirstDeferred
            /\ u.buf = Null /\ u.pc = 1
        BY <4>4, <4>5, <4>b, <4>c DEF UltRec
      <4>7. /\ ult' \in [Clients -> UltRec] /\ ult'[c] = u
            /\ \A d \in Clients : d # c => ult'[d] = ult[d]
        BY <1>2, <3>2, <4>6
      <4>8. /\ cl' \in [Clients -> CallRec] /\ cl'[c] = k
            /\ \A d \in Clients : d # c => cl'[d] = cl[d]
        BY <1>2, <4>2, <4>3
      <4>9. ~finalized /\ calls[c] >= 1
        BY <1>6, <2>1
      <4> QED BY <1>2, <1>4, <1>6, <2>1, <3>2, <4>3, <4>6, <4>7, <4>8, <4>9
    <3> QED BY <2>2, <2>7, <3>a, <3>1, <3>2 DEF Forward
  <2> QED BY <1>11, <2>3, <2>4, <2>5, <2>6, <2>7 DEF ClientLocalStep
<1>12. CASE GetOutput(c)
  <2>1. cl[c].run = "answered" /\ UNCHANGED <<calls, exposed, ult, served>>
    BY <1>12 DEF GetOutput
  <2>2. ult[c].run # "steps"
    BY <1>6, <2>1
  <2>3. PICK m : m = [r \in Regions |-> IF cl[c].out[r] # Junk THEN cl[c].out[r] ELSE mem[c][r]]
    OBVIOUS
  <2>4. m \in Memory
    BY <1>2, <1>5, <2>3 DEF Memory, CallRec
  <2>5. mem' = mem \/ mem' = [mem EXCEPT ![c] = m]
    BY <1>12, <2>3 DEF GetOutput
  <2>6. mem' \in [Clients -> Memory]
    BY <1>2, <2>4, <2>5
  <2>7. PICK ret \in Rets : ClientReturns(c, ret)
    <3>1. cl[c].ret \in Rets /\ "KeyNotFound" \in Rets /\ "FromMercury" \in Rets
      BY <1>5 DEF CallRec, Rets
    <3>2. \/ ClientReturns(c, "FromMercury") \/ ClientReturns(c, "KeyNotFound")
          \/ ClientReturns(c, cl[c].ret)
      BY <1>12 DEF GetOutput
    <3> QED BY <3>1, <3>2
  <2> QED BY <1>2, <1>8, <2>1, <2>2, <2>6, <2>7
<1>13. CASE Return(c)
  <2>1. /\ cl[c].run = "back" /\ cl' = [cl EXCEPT ![c].run = "idle"]
        /\ exposed' = [exposed EXCEPT ![c] = "none"] /\ UNCHANGED <<calls, mem, ult, served>>
    BY <1>13 DEF Return
  <2>2. PICK k : k = [cl[c] EXCEPT !.run = "idle"]
    OBVIOUS
  <2>3. cl' = [cl EXCEPT ![c] = k]
    BY <1>2, <2>1, <2>2
  <2>4. k \in CallRec /\ k.run = "idle"
    BY <1>5, <2>2 DEF CallRec
  <2>5. ult[c].run # "steps"
    BY <1>6, <2>1
  <2>6. exposed' \in [Clients -> {"none", "readonly", "readwrite"}] /\ mem' \in [Clients -> Memory]
    BY <1>2, <2>1
  <2> QED BY <1>7, <2>1, <2>3, <2>4, <2>5, <2>6
<1> QED BY <1>10, <1>11, <1>12, <1>13 DEF ClientStep

-----------------------------------------------------------------------------
(* The transfers, the end, and the specification *)

\* A transfer belongs to a client that has called.
Launched == \A f \in flying : calls[f.to] >= 1

\* The completion of a transfer writes the memory of the client.
LEMMA CompleteInv ==
  ASSUME Inv, Launched, NEW f \in flying, Complete(f)
  PROVE  Inv'
<1> USE DEF Inv
<1>1. f \in Transfer /\ f.to \in Clients /\ f.from \in Buffers
  BY DEF TypeInv, Transfer
<1>2. PICK c \in Clients : c = f.to
  BY <1>1
<1>3. CallAssumption(CallOf(c))
  <2>1. calls[c] \in Nat /\ calls[c] >= 1 /\ calls[c] <= Len(conf.calls[c])
    BY <1>2 DEF Launched, TypeInv, Control
  <2>2. conf.calls[c] \in Seq(ToSet(conf.calls[c]))
    BY SetupsAssumption DEF SetupsAssumption, TypeInv
  <2>3. calls[c] \in DOMAIN conf.calls[c]
    BY <2>1, <2>2
  <2> QED BY <2>3, SetupsAssumption DEF SetupsAssumption, TypeInv, CallOf
<1>4. PICK m : m = Pushed(c, f.from, f.regions)
  OBVIOUS
<1>5. m \in Memory
  BY <1>1, <1>3, <1>4, PushedTyped
<1>6. /\ mem' = [mem EXCEPT ![c] = m] /\ flying' \subseteq flying
      /\ UNCHANGED <<conf, clientVars, ult, served, finalized, cacheVars>>
  BY <1>2, <1>4 DEF Complete
<1>7. mem' \in [Clients -> Memory] /\ flying' \in SUBSET Transfer
  BY <1>5, <1>6 DEF TypeInv
<1>8. TypeInv'
  BY <1>6, <1>7 DEF TypeInv, clientVars, cacheVars
<1>9. Control'
  BY <1>6 DEF Control, Idle, clientVars
<1>10. Deferred'
  BY <1>6, OwnBufferKept DEF Deferred, clientVars
<1>11. BuffersKept
  BY <1>6, CacheUnchanged
<1>12. Held' /\ Stored' /\ Counted'
  BY <1>6, <1>11, HeldKept DEF clientVars
<1> QED BY <1>8, <1>9, <1>10, <1>12

\* Once nobody calls any more nobody has a buffer: all of them are freed.
LEMMA FinalizeInv ==
  ASSUME Inv, FinalizeCache
  PROVE  Inv'
<1> USE DEF Inv
<1>1. /\ CacheFinalize(conf.cache) /\ finalized' = TRUE
      /\ UNCHANGED <<conf, clientVars, mem, ult, flying, served>>
      /\ \A c \in Clients : Idle(c) /\ calls[c] = Len(conf.calls[c])
  BY DEF FinalizeCache
<1>2. \A c \in Clients : ult[c].buf = Null
  BY <1>1 DEF Idle, Deferred, OwnBuffer
<1>3. \A b \in Buffers : buf[b].at # "used"
  <2>1. ASSUME NEW b \in Buffers PROVE buf[b].at # "used"
    <3>1. b # Null
      BY SetupsAssumption DEF SetupsAssumption
    <3> QED BY <1>2, <3>1 DEF Held
  <2> QED BY <2>1
<1>4. /\ Stored' /\ buf' \in [Buffers -> BufferRec]
      /\ \A b \in Buffers : buf'[b].at = "none"
      /\ queue' \in [Modes -> Seq(Buffers)] /\ numInUse' = numInUse
  BY <1>1, <1>3, Finalized
<1>5. TypeInv'
  BY <1>1, <1>4 DEF TypeInv, clientVars
<1>6. Control'
  BY <1>1 DEF Control, Idle, clientVars
<1>7. Deferred'
  BY <1>1, OwnBufferKept DEF Deferred, clientVars
<1>8. Holders' = {} /\ Holders = {}
  BY <1>1, <1>2 DEF Holders
<1>9. Held'
  <2>1. ASSUME NEW b \in Buffers
        PROVE  buf'[b].at = "used" <=> \E c \in Clients : ult'[c].buf = b
    <3>1. b # Null
      BY SetupsAssumption DEF SetupsAssumption
    <3> QED BY <1>1, <1>2, <1>4, <3>1
  <2> QED BY <1>4, <1>8, <2>1 DEF Held
<1>10. Counted'
  BY <1>1, <1>4, <1>8 DEF Counted
<1> QED BY <1>4, <1>5, <1>6, <1>7, <1>9, <1>10

LEMMA InitInv == Init => Inv /\ Launched /\ Flights
<1> SUFFICES ASSUME Init PROVE Inv /\ Launched /\ Flights
  OBVIOUS
<1>1. /\ conf \in Setups /\ calls = [c \in Clients |-> 0] /\ cl = [c \in Clients |-> NoCall]
      /\ exposed = [c \in Clients |-> "none"] /\ mem = [c \in Clients |-> Blank]
      /\ ult = [c \in Clients |-> NoUlt] /\ flying = {} /\ served = [c \in Clients |-> 0]
      /\ finalized = FALSE /\ buf = [b \in Buffers |-> NoBuffer]
      /\ queue = [m \in Modes |-> <<>>] /\ numInUse = 0
  BY DEF Init, CacheInit
<1>2. Blank \in Memory
  BY DEF Blank, Memory, Data
<1>3. NoCall \in CallRec
  BY <1>2 DEF NoCall, CallRec, Rets
<1>4. NoUlt \in UltRec
  BY <1>2 DEF NoUlt, UltRec, Rets
<1>5. TypeInv
  <2>1. queue \in [Modes -> Seq(Buffers)] /\ buf \in [Buffers -> BufferRec]
    BY <1>1, NoBufferTyped
  <2>2. /\ mem \in [Clients -> Memory] /\ ult \in [Clients -> UltRec] /\ cl \in [Clients -> CallRec]
        /\ calls \in [Clients -> Nat] /\ served \in [Clients -> Nat]
        /\ exposed \in [Clients -> {"none", "readonly", "readwrite"}]
    BY <1>1, <1>2, <1>3, <1>4
  <2>3. conf \in Setups /\ numInUse \in Int
    BY <1>1
  <2>4. flying = {} /\ finalized = FALSE
    BY <1>1
  <2>5. flying \in SUBSET Transfer /\ finalized \in BOOLEAN
    BY ZenonT(30), <2>4
  <2> QED BY <2>1, <2>2, <2>3, <2>5 DEF TypeInv
<1>6. \A c \in Clients : /\ calls[c] = 0 /\ cl[c].run = "idle" /\ ult[c].run = "none"
                         /\ ult[c].buf = Null /\ ult[c].stack = <<>>
  BY <1>1 DEF NoCall, NoUlt
<1>7. Control
  <2>1. \A c \in Clients : Len(conf.calls[c]) \in Nat
    BY <1>1, SetupsAssumption DEF SetupsAssumption
  <2> QED BY <1>1, <1>6, <2>1 DEF Control
<1>8. Deferred
  BY <1>6 DEF Deferred, OwnBuffer
<1>9. Stored
  <2>1. ASSUME NEW m \in Modes
        PROVE  /\ queue[m] = <<>> /\ IsInjective(queue[m]) /\ Len(queue[m]) = 0
               /\ ToSet(queue[m]) = {b \in Buffers : buf[b].at = "cached" /\ buf[b].mode = m}
    <3>1. queue[m] = <<>> /\ DOMAIN <<>> = {} /\ Len(<<>>) = 0
      BY <1>1
    <3>2. IsInjective(<<>>) /\ ToSet(<<>>) = {}
      BY <3>1 DEF IsInjective, ToSet
    <3>3. \A b \in Buffers : buf[b].at = "none"
      BY <1>1 DEF NoBuffer
    <3> QED BY <3>1, <3>2, <3>3
  <2>2. conf.cache.capacity \in Nat
    BY <1>1, SetupsAssumption DEF SetupsAssumption
  <2> QED BY <2>1, <2>2 DEF Stored
<1>10. Holders = {}
  BY <1>6 DEF Holders
<1>11. Held
  <2>1. ASSUME NEW b \in Buffers
        PROVE  buf[b].at = "used" <=> \E c \in Clients : ult[c].buf = b
    <3>1. b # Null
      BY SetupsAssumption DEF SetupsAssumption
    <3> QED BY <1>1, <1>6, <3>1 DEF NoBuffer
  <2> QED BY <1>1, <1>10, <2>1 DEF Held
<1>12. Counted
  BY <1>1, <1>10, FS_EmptySet DEF Counted
<1>13. Launched /\ Flights
  BY <1>1 DEF Launched, Flights
<1> QED BY <1>5, <1>7, <1>8, <1>9, <1>11, <1>12, <1>13 DEF Inv

\* A client whose ULT starts a transfer has called, and no call is taken back.
LEMMA LaunchedKept ==
  ASSUME Inv, Launched, Next
  PROVE  Launched'
<1>1. ASSUME NEW c \in Clients, Begin(c) \/ ClientStep(c) \/ UltStep(c)
      PROVE  \A d \in Clients : calls[d] >= 1 => calls'[d] >= 1
  <2>1. \A d \in Clients : calls[d] \in Nat
    BY DEF Inv, TypeInv
  <2>2. CASE Begin(c)
    <3>1. calls' = [calls EXCEPT ![c] = @ + 1] /\ calls \in [Clients -> Nat]
      BY <2>2 DEF Begin, Inv, TypeInv
    <3> QED BY <3>1
  <2>3. CASE ClientStep(c) \/ UltStep(c)
    <3>1. calls' = calls
      BY <2>3 DEF ClientStep, ClientLocalStep, CheckArgs, Expose, CheckMode, CreateHandle,
                  Forward, ClientFails, GetOutput, Return, UltStep, ServerStep, ReleaseBuffer,
                  FreeRequest, Respond, EndUlt, clientVars
    <3> QED BY <3>1
  <2> QED BY <1>1, <2>2, <2>3
<1>2. ASSUME NEW c \in Clients, StartPush(c)
      PROVE  \A f \in flying' : f \in flying \/ (f.to = c /\ calls[c] >= 1)
  <2>1. ult[c].run = "steps" /\ calls[c] >= 1
    BY <1>2 DEF StartPush, AtServer, Inv, Control
  <2>2. flying' = flying \/ flying' = flying \cup {[to |-> c, from |-> ult[c].buf,
                                                   regions |-> Now(c).regions]}
    BY <1>2 DEF StartPush
  <2> QED BY <2>1, <2>2
<1>3. ASSUME NEW c \in Clients, Begin(c) \/ ClientStep(c) \/ UltStep(c)
      PROVE  (\E d \in Clients : StartPush(d)) \/ flying' = flying
  BY <1>3 DEF Begin, ClientStep, ClientLocalStep, GetOutput, Return, UltStep, ServerStep,
              GetInput, LookupOrigin, CheckDatabase, CheckModeSupported, GetBuffer,
              PullRegions, CheckRequest, CallDatabase, PushRegions, WaitPush, FillOutput,
              ReleaseBuffer, FreeRequest, Respond, EndUlt
<1>4. \A f \in flying : f.to \in Clients
  BY DEF Inv, TypeInv, Transfer
<1>5. CASE \E c \in Clients : Begin(c) \/ ClientStep(c) \/ UltStep(c)
  <2>1. PICK c \in Clients : Begin(c) \/ ClientStep(c) \/ UltStep(c)
    BY <1>5
  <2>2. \A d \in Clients : calls[d] >= 1 => calls'[d] >= 1
    BY <1>1, <2>1
  <2>3. \A f \in flying' : f \in flying \/ (f.to \in Clients /\ calls[f.to] >= 1)
    BY <1>2, <1>3, <2>1
  <2> QED BY <1>4, <2>2, <2>3 DEF Launched
<1>6. CASE (\E f \in flying : Complete(f)) \/ FinalizeCache
  <2>1. flying' \subseteq flying /\ calls' = calls
    BY <1>6 DEF Complete, FinalizeCache, clientVars
  <2> QED BY <2>1 DEF Launched
<1> QED BY <1>5, <1>6 DEF Next

LEMMA NextInv ==
  ASSUME Inv, Launched, Next
  PROVE  Inv' /\ Launched'
<1>1. ASSUME NEW c \in Clients, UltStep(c)
      PROVE  Inv'
  <2>1. CASE ServerStep(c)
    <3>1. UNCHANGED <<conf, clientVars, finalized>> /\ (Quiet(c) \/ GetBuffer(c))
      BY <2>1 DEF ServerStep, Quiet
    <3> QED BY <3>1, QuietInv, TakeInv
  <2> QED BY <1>1, <2>1, ReleaseInv, UnwindInv DEF UltStep
<1>2. Inv'
  BY <1>1, ClientInv, CompleteInv, FinalizeInv DEF Next
<1> QED BY <1>2, LaunchedKept

LEMMA StutterInv ==
  ASSUME Inv, Launched, UNCHANGED vars
  PROVE  Inv' /\ Launched'
<1> USE DEF Inv
<1>1. UNCHANGED <<conf, calls, cl, exposed, mem, ult, flying, served, finalized, cacheVars>>
  BY DEF vars, cacheVars
<1>2. TypeInv' /\ Launched'
  BY <1>1 DEF TypeInv, cacheVars, Launched
<1>3. Control'
  BY <1>1 DEF Control, Idle
<1>4. Deferred'
  BY <1>1, OwnBufferKept DEF Deferred
<1>5. BuffersKept
  BY <1>1, CacheUnchanged
<1>6. Held' /\ Stored' /\ Counted'
  BY <1>1, <1>5, HeldKept
<1> QED BY <1>2, <1>3, <1>4, <1>6

LEMMA InvInductive == (Inv /\ Launched) /\ [Next]_vars => (Inv /\ Launched)'
BY NextInv, StutterInv

\* The types of the state, where the request of each client is, and what is
\* deferred in its ULT (DEFER in src/src/server and src/src/client).
LEMMA InvHolds == Spec => [](Inv /\ Launched)
BY InitInv, InvInductive, PTL DEF Spec

\* Whatever the clients call and whatever fails, two requests never hold the
\* same buffer, the one a request holds is as large and of the mode it asked
\* for, the lists of the cache have each cached buffer once, the lru cache
\* keeps its capacity and finalization leaves no buffer (src/src/buffer).
\* The default cache counts the buffers in use right unless an allocation
\* fails.
THEOREM BuffersAccountedHolds ==
  ASSUME \A s \in Setups : CountsRight(s)
  PROVE  Spec => []BuffersAccounted
<1>1. Inv /\ Launched => BuffersAccounted
  <2> SUFFICES ASSUME Inv PROVE BuffersAccounted
    OBVIOUS
  <2>1. numInUse = Cardinality(Holders)
    BY DEF Inv, Counted, TypeInv
  <2>2. \A c \in Holders : buf[ult[c].buf].at = "used"
    BY DEF Inv, Held, Holders, TypeInv, UltRec
  <2>3. Holders = {c \in Clients : ult[c].buf # Null}
    BY DEF Holders
  <2>4. /\ \A c, d \in Holders : ult[c].buf = ult[d].buf => c = d
        /\ \A c \in Holders : LET held == buf[ult[c].buf] IN
              /\ held.at = "used" /\ held.mode = Handler(c).buffer
              /\ held.size >= CallOf(c).size
        /\ finalized => \A b \in Buffers : buf[b].at = "none"
    BY <2>2 DEF Inv, Held
  <2>5. \A m \in Modes :
          /\ IsInjective(queue[m])
          /\ ToSet(queue[m]) = {b \in Buffers : buf[b].at = "cached" /\ buf[b].mode = m}
          /\ conf.cache.kind = "lru" => Len(queue[m]) <= conf.cache.capacity
    BY DEF Inv, Stored
  <2> QED BY <2>1, <2>3, <2>4, <2>5 DEF BuffersAccounted
<1> QED BY <1>1, InvHolds, PTL

-----------------------------------------------------------------------------
(* Transfers under way *)

\* What is said of one transfer.
Flight(f) ==
    /\ ult[f.to].run = "steps" /\ ult[f.to].buf = f.from
    /\ exposed[f.to] = "readwrite" /\ buf[f.from].mode = "readwrite"
    /\ InFlight(f.to)

\* A transfer whose ULT is where it was.
LEMMA FlightKept ==
  ASSUME NEW f \in flying, Flight(f), conf' = conf, calls'[f.to] = calls[f.to],
         ult'[f.to] = ult[f.to], exposed'[f.to] = exposed[f.to],
         buf'[f.from].mode = buf[f.from].mode
  PROVE  Flight(f)'
<1>1. Handler(f.to)' = Handler(f.to)
  BY DEF Handler, Fn, CallOf
<1> QED BY <1>1 DEF Flight, InFlight

\* While a transfer is under way its ULT pushes, without failing, or waits.
LEMMA FlightSteps ==
  ASSUME TypeInv, Control, PushesAndWaits(conf), NEW c \in Clients,
         ult[c].run = "steps", InFlight(c)
  PROVE  /\ ult[c].pc \in DOMAIN Handler(c).steps /\ Now(c).do \in {"push", "wait"}
         /\ "push" \notin conf.faults
         /\ Now(c).do = "push" => \E p, w \in DOMAIN Handler(c).steps :
              /\ Handler(c).steps[p].do = "ipush" /\ p < ult[c].pc + 1
              /\ Handler(c).steps[w].do = "wait" /\ ult[c].pc + 1 <= w
              /\ \A q \in p + 1 .. w - 1 : Handler(c).steps[q].do = "push"
<1>1. CallAssumption(CallOf(c)) /\ calls[c] \in DOMAIN conf.calls[c]
  BY CallKnown
<1>2. Handler(c).steps \in Seq(StepRec)
  BY <1>1 DEF CallAssumption, HandlerAssumption, Handler, Fn, StepRec
<1>3. PICK p \in DOMAIN Handler(c).steps, w \in DOMAIN Handler(c).steps :
        /\ Handler(c).steps[p].do = "ipush" /\ p < ult[c].pc
        /\ Handler(c).steps[w].do = "wait" /\ ult[c].pc <= w
        /\ \A q \in p + 1 .. w - 1 : Handler(c).steps[q].do = "push"
  BY DEF InFlight
<1>4. PICK n : n = Len(Handler(c).steps)
  OBVIOUS
<1>5. p \in 1 .. n /\ w \in 1 .. n /\ n \in Nat /\ DOMAIN Handler(c).steps = 1 .. n
  BY <1>2, <1>4
<1>6. ult[c].pc \in Nat \ {0}
  BY DEF TypeInv, UltRec
<1>7. ult[c].pc \in DOMAIN Handler(c).steps
  BY <1>3, <1>5, <1>6
<1>8. ult[c].pc = w \/ ult[c].pc \in p + 1 .. w - 1
  BY <1>3, <1>5, <1>6
<1>9. Now(c).do \in {"push", "wait"}
  BY <1>3, <1>8 DEF Now
<1>10. "push" \notin conf.faults
  BY <1>1, <1>3 DEF PushesAndWaits, Handler, Fn, CallOf
<1>11. Now(c).do = "push" => ult[c].pc # w
  BY <1>3 DEF Now
<1>12. Now(c).do = "push" => p < ult[c].pc + 1 /\ ult[c].pc + 1 <= w
  BY <1>3, <1>5, <1>6, <1>11
<1> QED BY <1>3, <1>7, <1>9, <1>10, <1>12

\* Only the ULT of c and the mode of buffers that nobody uses change.
LEMMA OthersFly ==
  ASSUME Inv, NEW c \in Clients, NEW f \in flying, f.to # c, Flight(f), conf' = conf,
         \A d \in Clients : d # c =>
           ult'[d] = ult[d] /\ calls'[d] = calls[d] /\ exposed'[d] = exposed[d],
         \A x \in Buffers : buf[x].at = "used" /\ x # ult[c].buf => buf'[x].mode = buf[x].mode
  PROVE  Flight(f)'
<1>1. f.to \in Clients /\ f.from \in Buffers
  BY DEF Inv, TypeInv, Transfer
<1>2. buf[f.from].at = "used" /\ ult[f.to].buf = f.from
  BY <1>1 DEF Inv, Held, Flight
<1>3. f.from # Null
  BY <1>1, SetupsAssumption DEF SetupsAssumption
<1>4. f.from # ult[c].buf
  BY <1>1, <1>2, <1>3 DEF Inv, Held, Holders
<1>5. buf'[f.from].mode = buf[f.from].mode
  BY <1>1, <1>2, <1>4
<1> QED BY <1>1, <1>5, FlightKept

\* What the step of a ULT does to the others.
LEMMA UltFrame ==
  ASSUME Inv, NEW c \in Clients, UltStep(c)
  PROVE  /\ conf' = conf /\ calls' = calls /\ exposed' = exposed
         /\ \A d \in Clients : d # c => ult'[d] = ult[d]
         /\ \A x \in Buffers :
              buf[x].at = "used" /\ x # ult[c].buf => buf'[x].mode = buf[x].mode
<1> USE DEF Inv
<1>1. conf' = conf /\ calls' = calls /\ exposed' = exposed
  BY DEF UltStep, ServerStep, ReleaseBuffer, FreeRequest, Respond, EndUlt, clientVars
<1>2. CASE Quiet(c)
  <2>1. (GoesOn(c) \/ GivesUp(c)) /\ BuffersKept
    BY <1>2, QuietStep
  <2>2. \A d \in Clients : d # c => ult'[d] = ult[d]
    BY <2>1 DEF GoesOn, GivesUp, UltTo
  <2> QED BY <1>1, <2>1, <2>2 DEF BuffersKept
<1>3. CASE GetBuffer(c)
  <2>1. CASE \E b \in Buffers :
                /\ GivenOut(b, CallOf(c).size, Handler(c).buffer)
                /\ UltTo(c, "steps", ult[c].pc + 1, Append(ult[c].stack, "release"), b)
    BY <1>1, <2>1 DEF GivenOut, UltTo
  <2>2. CASE GivesUp(c) /\ buf' = buf
    BY <1>1, <2>2 DEF GivesUp, UltTo
  <2> QED BY <1>1, <1>3, <2>1, <2>2, TakeStep
<1>4. CASE ReleaseBuffer(c)
  <2>1. \A d \in Clients : d # c => ult'[d] = ult[d]
    BY <1>4 DEF ReleaseBuffer, TypeInv
  <2>2. TakenBack(ult[c].buf)
    BY <1>4, ReleaseStep
  <2>3. \A x \in Buffers :
          buf[x].at = "used" /\ x # ult[c].buf => buf'[x].mode = buf[x].mode
    BY <2>2 DEF TakenBack
  <2> QED BY <1>1, <2>1, <2>3
<1>5. CASE FreeRequest(c) \/ Respond(c) \/ EndUlt(c)
  <2>1. UNCHANGED buf
    BY <1>5 DEF FreeRequest, Respond, EndUlt, cacheVars
  <2>2. \A d \in Clients : d # c => ult'[d] = ult[d]
    BY <1>5 DEF FreeRequest, Respond, EndUlt, TypeInv
  <2> QED BY <1>1, <2>1, <2>2
<1> QED BY <1>2, <1>3, <1>4, <1>5 DEF UltStep, ServerStep, Quiet

LEMMA FlightsKept ==
  ASSUME Inv, Launched, Flights, PushesAndWaits(conf), Next
  PROVE  Flights'
<1> USE DEF Inv
<1>1. \A f \in flying : Flight(f) /\ f.to \in Clients /\ f.from \in Buffers
  BY DEF Flights, Flight, TypeInv, Transfer
<1>2. SUFFICES ASSUME NEW f \in flying' PROVE Flight(f)'
  BY DEF Flights, Flight
<1>3. ASSUME NEW c \in Clients, Begin(c) \/ ClientStep(c)
      PROVE  Flight(f)'
  <2>1. UNCHANGED <<conf, flying, buf>>
    BY <1>3 DEF Begin, ClientStep, ClientLocalStep, GetOutput, Return, cacheVars
  <2>2. f \in flying /\ cl[f.to].run = "waiting" /\ f.to \in Clients
    BY <1>1, <2>1 DEF Flight, Control
  <2>3. f.to # c
    BY <1>3, <2>2 DEF Begin, ClientStep, ClientLocalStep, CheckArgs, Expose, CheckMode,
                      CreateHandle, Forward, AtClient, GetOutput, Return
  <2>4. \A d \in Clients : d # c =>
           ult'[d] = ult[d] /\ calls'[d] = calls[d] /\ exposed'[d] = exposed[d]
    BY <1>3 DEF Begin, ClientStep, ClientLocalStep, CheckArgs, Expose, CheckMode,
                CreateHandle, Forward, ClientFails, GetOutput, Return, TypeInv
  <2> QED BY <1>1, <2>1, <2>2, <2>3, <2>4, FlightKept
<1>4. ASSUME NEW c \in Clients, UltStep(c)
      PROVE  Flight(f)'
  <2>1. /\ conf' = conf /\ calls' = calls /\ exposed' = exposed
        /\ \A d \in Clients : d # c => ult'[d] = ult[d]
        /\ \A x \in Buffers :
             buf[x].at = "used" /\ x # ult[c].buf => buf'[x].mode = buf[x].mode
    BY <1>4, UltFrame
  <2>2. CASE f \in flying /\ f.to # c
    BY <1>1, <2>1, <2>2, OthersFly
  <2>3. CASE f \in flying /\ f.to = c
    <3>1. Flight(f) /\ ult[c].run = "steps" /\ ult[c].buf = f.from /\ InFlight(c)
      BY <1>1, <2>3 DEF Flight
    <3>2. PICK h : h = Handler(c).steps
      OBVIOUS
    <3>3. /\ ult[c].pc \in DOMAIN h /\ Now(c).do \in {"push", "wait"}
          /\ "push" \notin conf.faults
          /\ Now(c).do = "push" => \E p, w \in DOMAIN h :
               /\ h[p].do = "ipush" /\ p < ult[c].pc + 1
               /\ h[w].do = "wait" /\ ult[c].pc + 1 <= w
               /\ \A q \in p + 1 .. w - 1 : h[q].do = "push"
      BY <3>1, <3>2, FlightSteps
    <3>5. PushRegions(c) \/ WaitPush(c)
      <4>1. h \in Seq(StepRec)
        BY <3>1, <3>2, CallKnown DEF CallAssumption, HandlerAssumption, Handler, Fn, StepRec
      <4>2. ~(ult[c].pc > Len(h))
        BY <3>3, <4>1
      <4>3. \A what : ~Unwinding(c, what)
        BY <3>1, <3>2, <4>2 DEF Unwinding
      <4>4. ServerStep(c)
        BY <1>4, <4>3 DEF UltStep, ReleaseBuffer, FreeRequest, Respond, EndUlt
      <4>5. /\ ~AtServer(c, "input") /\ ~AtServer(c, "origin") /\ ~AtServer(c, "database")
            /\ ~AtServer(c, "mode") /\ ~AtServer(c, "buffer") /\ ~AtServer(c, "pull")
            /\ ~AtServer(c, "check") /\ ~AtServer(c, "call") /\ ~AtServer(c, "ipush")
            /\ ~AtServer(c, "output")
        BY <3>3 DEF AtServer
      <4>6. ~(GetInput(c) \/ LookupOrigin(c) \/ CheckDatabase(c) \/ CheckModeSupported(c)
              \/ GetBuffer(c) \/ PullRegions(c))
        BY <4>5 DEF GetInput, LookupOrigin, CheckDatabase, CheckModeSupported, GetBuffer,
                    PullRegions
      <4>7. ~(CheckRequest(c) \/ CallDatabase(c) \/ StartPush(c) \/ FillOutput(c))
        BY <4>5 DEF CheckRequest, CallDatabase, StartPush, FillOutput
      <4> QED BY <4>4, <4>6, <4>7 DEF ServerStep
    <3>6. ~WaitPush(c)
      BY <2>3 DEF WaitPush
    <3>7. MayPush(c)
      BY <2>3, <3>1 DEF Flight, MayPush
    <3>8. NextStep(c, <<>>) /\ Now(c).do = "push" /\ UNCHANGED cacheVars
      BY <3>3, <3>5, <3>6, <3>7, <2>3 DEF PushRegions, TransferFails, MayFail, AtServer, Flight
    <3>9. GoesOn(c)
      BY <3>1, <3>8, NextPlain
    <3>10. ult'[c].run = "steps" /\ ult'[c].pc = ult[c].pc + 1 /\ ult'[c].buf = f.from
      BY <3>1, <3>9 DEF GoesOn, UltTo
    <3>11. Handler(c)' = Handler(c)
      BY <2>1 DEF Handler, Fn, CallOf
    <3>12. InFlight(c)'
      BY <3>2, <3>3, <3>8, <3>10, <3>11 DEF InFlight
    <3>13. exposed'[c] = "readwrite" /\ buf'[f.from].mode = "readwrite"
      BY <2>1, <2>3, <3>1, <3>8 DEF Flight, cacheVars
    <3> QED BY <2>3, <3>10, <3>12, <3>13 DEF Flight
  <2>4. CASE f \notin flying
    <3>1. StartPush(c)
      BY <1>4, <2>4 DEF UltStep, ServerStep, GetInput, LookupOrigin, CheckDatabase,
          CheckModeSupported, GetBuffer, PullRegions, CheckRequest, CallDatabase, PushRegions,
          WaitPush, FillOutput, ReleaseBuffer, FreeRequest, Respond, EndUlt
    <3>2. /\ MayPush(c) /\ GoesOn(c) /\ ult[c].buf \in Buffers /\ BuffersKept
          /\ f = [to |-> c, from |-> ult[c].buf, regions |-> Now(c).regions]
      BY <2>4, <3>1, StartStep
    <3>3. /\ CallAssumption(CallOf(c)) /\ ult[c].pc \in DOMAIN Handler(c).steps
          /\ Now(c).do = "ipush"
      BY <3>1, StepKnown DEF StartPush
    <3>4. Handler(c).steps \in Seq(StepRec) /\ Handler(c)' = Handler(c)
      BY <2>1, <3>3 DEF CallAssumption, HandlerAssumption, Handler, Fn, StepRec, CallOf
    <3>5. WaitsFor(Handler(c), ult[c].pc)
      <4>1. calls[c] \in DOMAIN conf.calls[c]
        BY <3>1, CallKnown DEF StartPush, AtServer
      <4> QED BY <3>3, <4>1 DEF PushesAndWaits, Handler, Fn, CallOf, Now
    <3>6. PICK w \in DOMAIN Handler(c).steps :
            /\ ult[c].pc < w /\ Handler(c).steps[w].do = "wait"
            /\ \A q \in ult[c].pc + 1 .. w - 1 : Handler(c).steps[q].do = "push"
      BY <3>5 DEF WaitsFor
    <3>7. ult'[c].run = "steps" /\ ult'[c].pc = ult[c].pc + 1 /\ ult'[c].buf = ult[c].buf
      BY <3>2 DEF GoesOn, UltTo
    <3>8. w \in Nat /\ ult[c].pc \in Nat /\ ult[c].pc < ult[c].pc + 1 /\ ult[c].pc + 1 <= w
      BY <3>3, <3>4, <3>6
    <3>9. InFlight(c)'
      BY <3>3, <3>4, <3>6, <3>7, <3>8 DEF InFlight, Now
    <3>10. exposed'[c] = "readwrite" /\ buf'[ult[c].buf].mode = "readwrite"
      BY <2>1, <3>2 DEF MayPush, BuffersKept
    <3>11. f.to = c /\ f.from = ult[c].buf
      BY <3>2
    <3> QED BY <3>7, <3>9, <3>10, <3>11 DEF Flight
  <2> QED BY <2>2, <2>3, <2>4
<1>5. CASE \E g \in flying : Complete(g)
  <2>1. f \in flying /\ UNCHANGED <<conf, calls, exposed, ult, buf>>
    BY <1>5 DEF Complete, clientVars, cacheVars
  <2> QED BY <1>1, <2>1, FlightKept
<1>6. CASE FinalizeCache
  <2>1. f \in flying /\ ult[f.to].run = "none"
    BY <1>1, <1>6 DEF FinalizeCache, Idle
  <2> QED BY <1>1, <2>1 DEF Flight
<1> QED BY <1>3, <1>4, <1>5, <1>6 DEF Next

\* While a transfer is under way its buffer is in use by the request it belongs
\* to and the client is inside its call with its memory exposed, when handlers
\* only push between the start of a transfer and its wait and no such push
\* fails (src/src/server/get.cpp, doc_load.cpp).
THEOREM TransfersSafeHolds ==
  ASSUME \A s \in Setups : PushesAndWaits(s)
  PROVE  Spec => []TransfersSafe
<1>1. Inv /\ Launched /\ Flights /\ [Next]_vars => Flights'
  <2> SUFFICES ASSUME Inv, Launched, Flights, [Next]_vars PROVE Flights'
    OBVIOUS
  <2>1. PushesAndWaits(conf)
    BY DEF Inv, TypeInv
  <2>2. CASE Next
    BY <2>1, <2>2, FlightsKept
  <2>3. CASE UNCHANGED vars
    <3>1. UNCHANGED <<conf, calls, exposed, ult, flying, buf>>
      BY <2>3 DEF vars
    <3>2. \A f \in flying : Flight(f)
      BY DEF Flights, Flight
    <3>3. \A f \in flying : Flight(f)'
      BY <3>1, <3>2, FlightKept
    <3> QED BY <3>1, <3>3 DEF Flights, Flight
  <2> QED BY <2>2, <2>3
<1>2. Inv /\ Flights => TransfersSafe
  <2> SUFFICES ASSUME Inv, Flights, NEW f \in flying
               PROVE  /\ buf[f.from].at = "used" /\ ult[f.to].buf = f.from
                      /\ cl[f.to].run = "waiting" /\ exposed[f.to] = "readwrite"
    BY DEF TransfersSafe
  <2>1. f.to \in Clients /\ f.from \in Buffers
    BY DEF Inv, TypeInv, Transfer
  <2>2. ult[f.to].run = "steps" /\ ult[f.to].buf = f.from /\ exposed[f.to] = "readwrite"
    BY DEF Flights
  <2> QED BY <2>1, <2>2 DEF Inv, Held, Control
<1> QED BY <1>1, <1>2, InitInv, InvHolds, PTL DEF Spec

-----------------------------------------------------------------------------
(* What is turned down, and what the database may be given *)

\* What a check finds wrong.
HasFlaw(bad, rs) ==
    \/ bad = "empty" /\ "ksizes" \in rs
    \/ bad = "short" /\ rs \cap {"ksizes", "sizes"} # {}
    \/ bad = "filter" /\ "filter" \in rs

\* The step of the function, or of its handler, that turns the call down.
StopsClient(k, p) ==
    \/ k.fn.steps[p] = "args" /\ k.bad \in k.fn.args
    \/ k.fn.steps[p] = "mode" /\ k.bad = "modes"

StopsServer(k, p) ==
    LET s == k.fn.rpc.steps[p]
    IN  \/ s.do = "mode" /\ k.bad = "unsupported"
        \/ s.do = "buffer" /\ k.size = 0
        \/ s.do = "check" /\ HasFlaw(k.bad, s.regions)

\* What is wrong with a call is found before it is sent, or before the database
\* is called.
CaughtInTime(k) ==
    LET f == k.fn.steps h == k.fn.rpc.steps
    IN  \/ k.bad = "none"
        \/ \A q \in DOMAIN f : f[q] = "forward" =>
             \E p \in DOMAIN f : p < q /\ StopsClient(k, p)
        \/ \A q \in DOMAIN h : h[q].do = "call" =>
             \E p \in DOMAIN h : p < q /\ StopsServer(k, p)

\* Once a handler has called the database it turns nothing down.
ChecksFirst(h) ==
    \A p, q \in DOMAIN h.steps :
        h.steps[p].do = "call" /\ p < q
          => h.steps[q].do \notin {"database", "mode", "buffer", "check"}

Guarded(s) ==
    \A c \in Clients : \A n \in DOMAIN s.calls[c] :
        CaughtInTime(s.calls[c][n]) /\ ChecksFirst(s.calls[c][n].fn.rpc)

\* What a check or a call looks at has been sent with the request or pulled
\* from where the client has put it; until then nothing is written (the offsets
\* of src/src/server and src/src/client).
Looked(k, s) == s.regions \cup (IF k.fn.packed THEN {} ELSE s.more)

Reads(s) == s.do \in {"pull", "check", "call"}
Writes(s) == s.do \in {"call", "push", "ipush"}

HasPlace(k, r) ==
    \E p \in DOMAIN k.fn.layout :
        /\ k.fn.layout[p] = r
        /\ \A q \in DOMAIN k.fn.rpc.layout : k.fn.rpc.layout[q] = r <=> q = p

GetsRequest(k) ==
    LET h == k.fn.rpc
    IN  \A p \in DOMAIN h.steps :
          /\ Reads(h.steps[p]) =>
               \A q \in DOMAIN h.steps : q < p => ~Writes(h.steps[q])
          /\ h.steps[p].do \in {"check", "call"} =>
               \A r \in Looked(k, h.steps[p]) :
                 /\ r \in Given(k.fn)
                 /\ IF r \in ToSet(h.layout)
                    THEN HasPlace(k, r) /\ \E q \in DOMAIN h.steps :
                           q < p /\ h.steps[q].do = "pull" /\ r \in Looked(k, h.steps[q])
                    ELSE r \in k.fn.sends

SendsAll(s) ==
    \A c \in Clients : \A n \in DOMAIN s.calls[c] : GetsRequest(s.calls[c][n])

Rejections == {"InvalidArgs", "InvalidFilter", "ErrMode", "InvalidDatabase", "Allocation"}

\* Where a call is that is turned down, and one that is not.
Screened(c) ==
    /\ cl[c].run = "steps" =>
         served[c] = 0 /\ \A p \in 1 .. cl[c].pc - 1 : ~StopsClient(CallOf(c), p)
    /\ ult[c].run = "steps" =>
         /\ ult[c].ret \notin Rejections
         /\ \E q \in DOMAIN Fn(c).steps : Fn(c).steps[q] = "forward" /\
              \A p \in 1 .. q - 1 : ~StopsClient(CallOf(c), p)
         /\ \A p \in 1 .. ult[c].pc - 1 : ~StopsServer(CallOf(c), p)
         /\ served[c] > 0 => \E p \in 1 .. ult[c].pc - 1 : Handler(c).steps[p].do = "call"
    /\ ult[c].run # "none" /\ ult[c].ret \in Rejections => served[c] = 0
    /\ cl[c].run \in {"answered", "back"} /\ cl[c].ret \in Rejections => served[c] = 0
    /\ served[c] > 0 => CallOf(c).bad = "none"
Screening == \A c \in Clients : Screened(c)

\* The ULT of c is at the next step, with the same answer; or it has stopped.
LEMMA NextStepFields ==
  ASSUME TypeInv, NEW c \in Clients, NEW d, NextStep(c, d)
  PROVE  /\ ult'[c].run = ult[c].run /\ ult'[c].pc = ult[c].pc + 1
         /\ ult'[c].ret = ult[c].ret /\ ult'[c].in = ult[c].in /\ ult'[c].buf = ult[c].buf
<1>1. ult[c] \in UltRec /\ ult \in [Clients -> UltRec]
  BY DEF TypeInv
<1>2. PICK u : u = [ult[c] EXCEPT !.pc = @ + 1, !.stack = @ \o d]
  OBVIOUS
<1>3. ult' = [ult EXCEPT ![c] = u]
  BY <1>2 DEF NextStep
<1>4. /\ u.run = ult[c].run /\ u.pc = ult[c].pc + 1
      /\ u.ret = ult[c].ret /\ u.in = ult[c].in /\ u.buf = ult[c].buf
  BY <1>1, <1>2 DEF UltRec
<1> QED BY <1>1, <1>3, <1>4

LEMMA StopFields ==
  ASSUME TypeInv, NEW c \in Clients, NEW ret, Stop(c, ret)
  PROVE  ult'[c].run = "unwind" /\ ult'[c].ret = ret
<1>1. ult[c] \in UltRec /\ ult \in [Clients -> UltRec]
  BY DEF TypeInv
<1>2. PICK u : u = [ult[c] EXCEPT !.run = "unwind", !.ret = ret]
  OBVIOUS
<1>3. ult' = [ult EXCEPT ![c] = u]
  BY <1>2 DEF Stop
<1>4. u.run = "unwind" /\ u.ret = ret
  BY <1>1, <1>2 DEF UltRec
<1> QED BY <1>1, <1>3, <1>4

\* A client and its ULT change nothing of the others but what is cached.
LEMMA OnlyItsOwn ==
  ASSUME Inv, NEW c \in Clients, Begin(c) \/ ClientStep(c) \/ UltStep(c)
  PROVE  /\ conf' = conf
         /\ \A d \in Clients : d # c =>
              /\ calls'[d] = calls[d] /\ cl'[d] = cl[d] /\ ult'[d] = ult[d]
              /\ served'[d] = served[d] /\ mem'[d] = mem[d] /\ exposed'[d] = exposed[d]
<1> USE DEF Inv
<1>1. /\ calls \in [Clients -> Nat] /\ cl \in [Clients -> CallRec] /\ ult \in [Clients -> UltRec]
      /\ mem \in [Clients -> Memory] /\ served \in [Clients -> Nat]
      /\ exposed \in [Clients -> {"none", "readonly", "readwrite"}]
  BY DEF TypeInv
<1>2. CASE Begin(c)
  BY <1>1, <1>2 DEF Begin
<1>3. CASE ClientLocalStep(c)
  BY <1>1, <1>3 DEF ClientLocalStep, CheckArgs, Expose, CheckMode, CreateHandle, Forward,
                    ClientFails, ClientNext, ClientReturns
<1>4. CASE GetOutput(c) \/ Return(c)
  BY <1>1, <1>4 DEF GetOutput, Return, ClientReturns
<1>5. CASE UltStep(c)
  <2>1. conf' = conf /\ calls' = calls /\ exposed' = exposed
        /\ \A d \in Clients : d # c => ult'[d] = ult[d]
    BY <1>5, UltFrame
  <2>2. \A d \in Clients : d # c => cl'[d] = cl[d]
    BY <1>1, <1>5 DEF UltStep, ServerStep, ReleaseBuffer, FreeRequest, Respond, EndUlt,
                      ClientReturns, clientVars
  <2>3. \A d \in Clients : d # c => served'[d] = served[d]
    BY <1>1, <1>5 DEF UltStep, ServerStep, GetInput, LookupOrigin, CheckDatabase,
         CheckModeSupported, GetBuffer, PullRegions, CheckRequest, CallDatabase, StartPush,
         PushRegions, WaitPush, FillOutput, ReleaseBuffer, FreeRequest, Respond, EndUlt
  <2>4. \A d \in Clients : d # c => mem'[d] = mem[d]
    BY <1>1, <1>5 DEF UltStep, ServerStep, GetInput, LookupOrigin, CheckDatabase,
         CheckModeSupported, GetBuffer, PullRegions, CheckRequest, CallDatabase, StartPush,
         PushRegions, WaitPush, FillOutput, ReleaseBuffer, FreeRequest, Respond, EndUlt
  <2> QED BY <2>1, <2>2, <2>3, <2>4
<1> QED BY <1>2, <1>3, <1>4, <1>5 DEF ClientStep

LEMMA ScreenedKept ==
  ASSUME NEW c \in Clients, Screened(c), conf' = conf, calls'[c] = calls[c], cl'[c] = cl[c],
         ult'[c] = ult[c], served'[c] = served[c]
  PROVE  Screened(c)'
<1>1. CallOf(c)' = CallOf(c) /\ Fn(c)' = Fn(c) /\ Handler(c)' = Handler(c)
  BY DEF CallOf, Fn, Handler
<1> QED BY <1>1 DEF Screened

\* No buffer is given for no data.
LEMMA SomethingAsked ==
  ASSUME NEW k, NEW size \in Nat, NEW mode, NEW b, NEW fails,
         CacheGet(k, size, mode, b, fails), b # Null
  PROVE  size # 0
BY DEF CacheGet, default_bulk_cache_get, keep_all_bulk_cache_get, lru_bulk_cache_get, Refused

\* A step of a handler goes on when it finds nothing wrong.
LEMMA ServerKinds ==
  ASSUME Inv, NEW c \in Clients, ServerStep(c)
  PROVE  /\ ult[c].run = "steps" /\ ult[c].pc \in DOMAIN Handler(c).steps
         /\ \/ /\ ult'[c].run = "steps" /\ ult'[c].pc = ult[c].pc + 1
               /\ ult'[c].ret = ult[c].ret
               /\ ~StopsServer(CallOf(c), ult[c].pc)
            \/ /\ ult'[c].run = "unwind"
               /\ ult'[c].ret \in Rejections =>
                    Now(c).do \in {"database", "mode", "buffer", "check"}
         /\ IF Now(c).do = "call" THEN served' = [served EXCEPT ![c] = @ + 1]
            ELSE served' = served
<1> USE DEF Inv
<1>1. ASSUME NEW what, AtServer(c, what)
      PROVE  /\ ult[c].run = "steps" /\ ult[c].pc \in DOMAIN Handler(c).steps
             /\ Now(c).do = what
  BY <1>1, StepKnown DEF AtServer
<1>2. StopsServer(CallOf(c), ult[c].pc) <=>
        \/ Now(c).do = "mode" /\ CallOf(c).bad = "unsupported"
        \/ Now(c).do = "buffer" /\ CallOf(c).size = 0
        \/ Now(c).do = "check" /\ HasFlaw(CallOf(c).bad, Now(c).regions)
  BY DEF StopsServer, Now, Handler, Fn
<1>3. ASSUME NEW d, NextStep(c, d), ult[c].run = "steps"
      PROVE  /\ ult'[c].run = "steps" /\ ult'[c].pc = ult[c].pc + 1
             /\ ult'[c].ret = ult[c].ret
  BY <1>3, NextStepFields
<1>4. ASSUME NEW what, NEW allowed, ServerFails(c, what) \/ TransferFails(c, what, allowed)
      PROVE  ult'[c].run = "unwind" /\ ult'[c].ret \notin Rejections
  <2>1. Stop(c, "FromMercury")
    BY <1>4 DEF ServerFails, TransferFails
  <2> QED BY <2>1, StopFields DEF Rejections
<1>5. CASE GetInput(c)
  <2>1. AtServer(c, "input") /\ UNCHANGED served
        /\ (NextStep(c, <<"free_input">>) \/ ServerFails(c, "input"))
    BY <1>5 DEF GetInput
  <2> QED BY <1>1, <1>2, <1>3, <1>4, <2>1
<1>6. CASE LookupOrigin(c)
  <2>1. AtServer(c, "origin") /\ UNCHANGED served
        /\ (NextStep(c, <<"free_addr">>) \/ ServerFails(c, "origin"))
    BY <1>6 DEF LookupOrigin
  <2> QED BY <1>1, <1>2, <1>3, <1>4, <2>1
<1>7. CASE CheckDatabase(c)
  <2>1. AtServer(c, "database") /\ UNCHANGED served
        /\ (NextStep(c, <<>>) \/ Stop(c, "InvalidDatabase"))
    BY <1>7 DEF CheckDatabase
  <2> QED BY <1>1, <1>2, <1>3, <2>1, StopFields
<1>8. CASE CheckModeSupported(c)
  <2>1. AtServer(c, "mode") /\ UNCHANGED served
        /\ ((NextStep(c, <<>>) /\ CallOf(c).bad # "unsupported") \/ Stop(c, "ErrMode"))
    BY <1>8 DEF CheckModeSupported
  <2> QED BY <1>1, <1>2, <1>3, <2>1, StopFields
<1>9. CASE GetBuffer(c)
  <2>1. AtServer(c, "buffer") /\ UNCHANGED served
    BY <1>9 DEF GetBuffer
  <2>2. PICK b \in Buffers \cup {Null} :
          /\ CacheGet(conf.cache, CallOf(c).size, Handler(c).buffer, b, MayFail("buffer"))
          /\ IF b = Null THEN Stop(c, "Allocation")
             ELSE ult' = [ult EXCEPT ![c].pc = @ + 1, ![c].buf = b,
                                     ![c].stack = Append(@, "release")]
    BY <1>9 DEF GetBuffer
  <2>3. CASE b = Null
    BY <1>1, <2>1, <2>2, <2>3, StopFields
  <2>4. CASE b # Null
    <3>1. CallAssumption(CallOf(c))
      BY <2>1, StepKnown
    <3>2. CallOf(c).size # 0
      BY <2>2, <2>4, <3>1, SomethingAsked DEF CallAssumption
    <3>3. PICK u : u = [ult[c] EXCEPT !.pc = @ + 1, !.buf = b, !.stack = Append(@, "release")]
      OBVIOUS
    <3>4. ult' = [ult EXCEPT ![c] = u]
      BY <2>2, <2>4, <3>3
    <3>5. ult[c] \in UltRec /\ ult \in [Clients -> UltRec]
      BY DEF TypeInv
    <3>6. u.run = ult[c].run /\ u.pc = ult[c].pc + 1 /\ u.ret = ult[c].ret
      BY <3>3, <3>5 DEF UltRec
    <3>7. /\ ult'[c].run = ult[c].run /\ ult'[c].pc = ult[c].pc + 1
          /\ ult'[c].ret = ult[c].ret
      BY <3>4, <3>5, <3>6
    <3> QED BY <1>1, <1>2, <2>1, <3>2, <3>7
  <2> QED BY <2>3, <2>4
<1>10. CASE PullRegions(c)
  <2>1. AtServer(c, "pull") /\ UNCHANGED served
        /\ (NextStep(c, <<>>) \/ TransferFails(c, "pull", MayPull(c)))
    BY <1>10 DEF PullRegions
  <2> QED BY <1>1, <1>2, <1>3, <1>4, <2>1
<1>11. CASE CheckRequest(c)
  <2>1. AtServer(c, "check") /\ UNCHANGED served
        /\ ((NextStep(c, <<>>) /\ Found(c) = "OK") \/ Stop(c, Found(c)))
    BY <1>11 DEF CheckRequest
  <2>2. Found(c) = "OK" => ~HasFlaw(CallOf(c).bad, Now(c).regions)
    BY DEF Found, HasFlaw
  <2> QED BY <1>1, <1>2, <1>3, <2>1, <2>2, StopFields
<1>12. CASE CallDatabase(c)
  <2>1. AtServer(c, "call") /\ served' = [served EXCEPT ![c] = @ + 1]
    BY <1>12 DEF CallDatabase
  <2>2. CASE Stop(c, "DatabaseError")
    BY <1>1, <2>1, <2>2, StopFields DEF Rejections
  <2>3. CASE ~Stop(c, "DatabaseError")
    <3>1. PICK f : ult' = [ult EXCEPT ![c].pc = @ + 1,
                             ![c].in = [r \in Regions |-> IF r \in Now(c).fills /\ ~InLayout(c, r)
                                                          THEN Answer(c, calls[c], r) ELSE f[r]]]
                   /\ f = ult[c].in
      BY <1>12, <2>3 DEF CallDatabase
    <3>2. PICK g : g = [r \in Regions |-> IF r \in Now(c).fills /\ ~InLayout(c, r)
                                          THEN Answer(c, calls[c], r) ELSE f[r]]
      OBVIOUS
    <3>3. PICK u : u = [ult[c] EXCEPT !.pc = @ + 1, !.in = g]
      OBVIOUS
    <3>4. ult' = [ult EXCEPT ![c] = u]
      BY <3>1, <3>2, <3>3
    <3>5. ult[c] \in UltRec /\ ult \in [Clients -> UltRec]
      BY DEF TypeInv
    <3>6. u.run = ult[c].run /\ u.pc = ult[c].pc + 1 /\ u.ret = ult[c].ret
      BY <3>3, <3>5 DEF UltRec
    <3>7. /\ ult'[c].run = ult[c].run /\ ult'[c].pc = ult[c].pc + 1
          /\ ult'[c].ret = ult[c].ret
      BY <3>4, <3>5, <3>6
    <3> QED BY <1>1, <1>2, <2>1, <3>7
  <2> QED BY <2>2, <2>3
<1>13. CASE StartPush(c)
  <2>1. AtServer(c, "ipush") /\ UNCHANGED served
    BY <1>13 DEF StartPush
  <2>2. \/ NextStep(c, <<>>) \/ Stop(c, "FromMercury")
        \/ TransferFails(c, "ipush", MayPush(c))
    BY <1>13 DEF StartPush
  <2> QED BY <1>1, <1>2, <1>3, <1>4, <2>1, <2>2, StopFields DEF Rejections
<1>14. CASE PushRegions(c)
  <2>1. AtServer(c, "push") /\ UNCHANGED served
        /\ (NextStep(c, <<>>) \/ TransferFails(c, "push", MayPush(c)))
    BY <1>14 DEF PushRegions
  <2> QED BY <1>1, <1>2, <1>3, <1>4, <2>1
<1>15. CASE WaitPush(c)
  <2>1. AtServer(c, "wait") /\ UNCHANGED served /\ NextStep(c, <<>>)
    BY <1>15 DEF WaitPush
  <2> QED BY <1>1, <1>2, <1>3, <2>1
<1>16. CASE FillOutput(c)
  <2>1. AtServer(c, "output") /\ UNCHANGED served
    BY <1>16 DEF FillOutput
  <2>2. PICK o : o = [r \in Regions |-> IF r \in Now(c).regions THEN Holds(c, r) ELSE ult[c].out[r]]
    OBVIOUS
  <2>3. PICK u : u = [ult[c] EXCEPT !.pc = @ + 1, !.out = o]
    OBVIOUS
  <2>4. ult' = [ult EXCEPT ![c] = u]
    BY <1>16, <2>2, <2>3 DEF FillOutput
  <2>5. ult[c] \in UltRec /\ ult \in [Clients -> UltRec]
    BY DEF TypeInv
  <2>6. u.run = ult[c].run /\ u.pc = ult[c].pc + 1 /\ u.ret = ult[c].ret
    BY <2>3, <2>5 DEF UltRec
  <2>7. /\ ult'[c].run = ult[c].run /\ ult'[c].pc = ult[c].pc + 1
        /\ ult'[c].ret = ult[c].ret
    BY <2>4, <2>5, <2>6
  <2> QED BY <1>1, <1>2, <2>1, <2>7
<1> QED BY <1>5, <1>6, <1>7, <1>8, <1>9, <1>10, <1>11, <1>12, <1>13, <1>14, <1>15, <1>16
        DEF ServerStep

\* A call that reaches the database has nothing wrong with it.
LEMMA NothingWrong ==
  ASSUME NEW c \in Clients, CallAssumption(CallOf(c)), CaughtInTime(CallOf(c)),
         NEW n \in DOMAIN Handler(c).steps, Handler(c).steps[n].do = "call",
         \A p \in 1 .. n - 1 : ~StopsServer(CallOf(c), p),
         NEW q \in DOMAIN Fn(c).steps, Fn(c).steps[q] = "forward",
         Fn(c).steps \in Seq(STRING),
         \A p \in 1 .. q - 1 : ~StopsClient(CallOf(c), p)
  PROVE  CallOf(c).bad = "none"
<1>1. Handler(c).steps \in Seq(StepRec)
  BY DEF CallAssumption, HandlerAssumption, Handler, Fn, StepRec
<1>2. \A p \in DOMAIN Handler(c).steps : p < n => p \in 1 .. n - 1
  BY <1>1
<1>3. \A p \in DOMAIN Fn(c).steps : p < q => p \in 1 .. q - 1
  OBVIOUS
<1>4. ASSUME CallOf(c).bad # "none"
      PROVE  FALSE
  <2>1. CASE \A x \in DOMAIN Fn(c).steps : Fn(c).steps[x] = "forward" =>
               \E p \in DOMAIN Fn(c).steps : p < x /\ StopsClient(CallOf(c), p)
    BY <1>3, <2>1
  <2>2. CASE \A x \in DOMAIN Handler(c).steps : Handler(c).steps[x].do = "call" =>
               \E p \in DOMAIN Handler(c).steps : p < x /\ StopsServer(CallOf(c), p)
    BY <1>2, <2>2
  <2> QED BY <1>4, <2>1, <2>2 DEF CaughtInTime, Handler, Fn
<1> QED BY <1>4

LEMMA ScreenedServer ==
  ASSUME Inv, Screening, Guarded(conf), NEW c \in Clients, ServerStep(c)
  PROVE  Screened(c)'
<1> USE DEF Inv
<1>1. /\ ult[c].run = "steps" /\ ult[c].pc \in DOMAIN Handler(c).steps
      /\ \/ /\ ult'[c].run = "steps" /\ ult'[c].pc = ult[c].pc + 1
            /\ ult'[c].ret = ult[c].ret
            /\ ~StopsServer(CallOf(c), ult[c].pc)
         \/ /\ ult'[c].run = "unwind"
            /\ ult'[c].ret \in Rejections =>
                 Now(c).do \in {"database", "mode", "buffer", "check"}
      /\ IF Now(c).do = "call" THEN served' = [served EXCEPT ![c] = @ + 1]
         ELSE served' = served
  BY ServerKinds
<1>2. /\ conf' = conf /\ calls' = calls /\ cl' = cl
      /\ CallOf(c)' = CallOf(c) /\ Fn(c)' = Fn(c) /\ Handler(c)' = Handler(c)
  BY DEF ServerStep, clientVars, CallOf, Fn, Handler
<1>3. Screened(c) /\ cl[c].run = "waiting" /\ ult[c].pc \in Nat \ {0} /\ served[c] \in Nat
      /\ served \in [Clients -> Nat]
  BY <1>1 DEF Screening, Control, TypeInv, UltRec
<1>4. CallAssumption(CallOf(c)) /\ CaughtInTime(CallOf(c)) /\ ChecksFirst(Handler(c))
  <2>1. CallAssumption(CallOf(c)) /\ calls[c] \in DOMAIN conf.calls[c]
    BY <1>1, CallKnown
  <2> QED BY <2>1 DEF Guarded, CallOf, Handler, Fn
<1>5. CallOf(c).fn.steps \in Seq(STRING)
  BY <1>4 DEF CallAssumption
<1>6. PICK q \in DOMAIN Fn(c).steps : Fn(c).steps[q] = "forward" /\
              \A p \in 1 .. q - 1 : ~StopsClient(CallOf(c), p)
  BY <1>1, <1>3 DEF Screened
<1>7. served'[c] > 0 => CallOf(c).bad = "none"
  <2>1. CASE Now(c).do = "call"
    <3>1. \A p \in 1 .. ult[c].pc - 1 : ~StopsServer(CallOf(c), p)
      BY <1>1, <1>3 DEF Screened
    <3> QED BY <1>1, <1>4, <1>5, <1>6, <2>1, <3>1, NothingWrong DEF Now, Fn
  <2>2. CASE Now(c).do # "call"
    BY <1>1, <1>3, <2>2 DEF Screened
  <2> QED BY <2>1, <2>2
<1>8. ASSUME ult'[c].run = "steps"
      PROVE  /\ ult'[c].ret \notin Rejections
             /\ \A p \in 1 .. ult'[c].pc - 1 : ~StopsServer(CallOf(c), p)
             /\ served'[c] > 0 => \E p \in 1 .. ult'[c].pc - 1 : Handler(c).steps[p].do = "call"
  <2>1. \A p \in 1 .. ult'[c].pc - 1 : p = ult[c].pc \/ p \in 1 .. ult[c].pc - 1
    BY <1>1, <1>3, <1>8
  <2>2. /\ ult[c].pc \in 1 .. ult'[c].pc - 1
        /\ \A p \in 1 .. ult[c].pc - 1 : p \in 1 .. ult'[c].pc - 1
    BY <1>1, <1>3, <1>8
  <2>3. \A p \in 1 .. ult'[c].pc - 1 : ~StopsServer(CallOf(c), p)
    BY <1>1, <1>3, <1>8, <2>1 DEF Screened
  <2>a. ult'[c].ret \notin Rejections
    BY <1>1, <1>3, <1>8 DEF Screened
  <2>4. CASE Now(c).do = "call"
    BY <2>a, <2>2, <2>3, <2>4 DEF Now
  <2>5. CASE Now(c).do # "call"
    BY <1>1, <1>3, <2>a, <2>2, <2>3, <2>5 DEF Screened
  <2> QED BY <2>4, <2>5
<1>9. ASSUME ult'[c].ret \in Rejections
      PROVE  served'[c] = 0
  <2>1. CASE ult'[c].run = "unwind" /\ Now(c).do \in {"database", "mode", "buffer", "check"}
    <3>1. served[c] = 0
      <4>1. ASSUME served[c] > 0 PROVE FALSE
        <5>1. PICK p \in 1 .. ult[c].pc - 1 : Handler(c).steps[p].do = "call"
          BY <1>1, <1>3, <4>1 DEF Screened
        <5>2. Handler(c).steps \in Seq(StepRec)
          BY <1>4 DEF CallAssumption, HandlerAssumption, Handler, Fn, StepRec
        <5>3. p \in DOMAIN Handler(c).steps /\ p < ult[c].pc
          BY <1>1, <1>3, <5>1, <5>2
        <5> QED BY <1>1, <1>4, <2>1, <5>1, <5>3 DEF ChecksFirst, Now
      <4> QED BY <1>3, <4>1
    <3>2. Now(c).do # "call"
      BY <2>1
    <3> QED BY <1>1, <3>1, <3>2
  <2>2. CASE ult'[c].run = "steps" /\ ult'[c].ret = ult[c].ret
    BY <1>1, <1>3, <1>9, <2>2 DEF Screened
  <2> QED BY <1>1, <1>9, <2>1, <2>2
<1> QED BY <1>2, <1>3, <1>6, <1>7, <1>8, <1>9 DEF Screened

LEMMA ScreenedClient ==
  ASSUME Inv, Screening, NEW c \in Clients, Begin(c) \/ ClientStep(c)
  PROVE  Screened(c)'
<1> USE DEF Inv
<1>1. conf' = conf
  BY DEF Begin, ClientStep, ClientLocalStep, GetOutput, Return
<1>2. /\ calls \in [Clients -> Nat] /\ cl \in [Clients -> CallRec] /\ ult \in [Clients -> UltRec]
      /\ served \in [Clients -> Nat] /\ cl[c] \in CallRec
  BY DEF TypeInv
<1>3. Screened(c) /\ (cl[c].run = "steps" => ult[c].run = "none")
  BY DEF Screening, Control
<1>a. cl[c].pc \in Nat
  BY <1>2 DEF CallRec
<1>4. ASSUME calls' = calls
      PROVE  CallOf(c)' = CallOf(c) /\ Fn(c)' = Fn(c) /\ Handler(c)' = Handler(c)
  BY <1>1, <1>4 DEF CallOf, Fn, Handler
\* The call ends with ret.
<1>5. ASSUME UNCHANGED <<calls, ult, served>>, NEW ret, ClientReturns(c, ret),
             ret \in Rejections => served[c] = 0
      PROVE  Screened(c)'
  <2>1. cl'[c].run = "back" /\ cl'[c].ret = ret
    BY <1>2, <1>5 DEF ClientReturns, CallRec
  <2> QED BY <1>3, <1>4, <1>5, <2>1 DEF Screened
<1>6. ASSUME UNCHANGED <<calls, ult, served>>, cl[c].run = "steps", ClientNext(c),
             ~StopsClient(CallOf(c), cl[c].pc)
      PROVE  Screened(c)'
  <2>1. cl'[c].run = "steps" /\ cl'[c].pc = cl[c].pc + 1
    BY <1>2, <1>6 DEF ClientNext, CallRec
  <2>2. \A p \in 1 .. cl'[c].pc - 1 : p = cl[c].pc \/ p \in 1 .. cl[c].pc - 1
    BY <1>a, <2>1
  <2>3. \A p \in 1 .. cl'[c].pc - 1 : ~StopsClient(CallOf(c), p)
    BY <1>3, <1>6, <2>2 DEF Screened
  <2> QED BY <1>3, <1>4, <1>6, <2>1, <2>3 DEF Screened
<1>7. CASE Begin(c)
  <2>1. served'[c] = 0 /\ ult' = ult /\ ult[c].run = "none"
    BY <1>2, <1>7 DEF Begin
  <2>2. cl'[c].run = "steps" /\ cl'[c].pc = 1
    BY <1>2, <1>7 DEF Begin, NoCall
  <2> QED BY <2>1, <2>2 DEF Screened
<1>8. CASE ClientLocalStep(c)
  <2>1. cl[c].run = "steps" /\ served[c] = 0 /\ ult[c].run = "none" /\ UNCHANGED <<served, calls>>
    BY <1>3, <1>8 DEF ClientLocalStep, CheckArgs, Expose, CheckMode, CreateHandle, Forward,
                      AtClient, Screened, ClientFails
  <2>2. ASSUME NEW what, ClientFails(c, what) PROVE Screened(c)'
    BY <1>5, <2>1, <2>2 DEF ClientFails
  <2>3. StopsClient(CallOf(c), cl[c].pc) <=>
          \/ Fn(c).steps[cl[c].pc] = "args" /\ CallOf(c).bad \in Fn(c).args
          \/ Fn(c).steps[cl[c].pc] = "mode" /\ CallOf(c).bad = "modes"
    BY DEF StopsClient, Fn
  <2>4. CASE CheckArgs(c)
    <3>1. ult' = ult /\ Fn(c).steps[cl[c].pc] = "args"
      BY <2>4 DEF CheckArgs, AtClient
    <3>2. \/ ClientNext(c) /\ CallOf(c).bad \notin Fn(c).args
          \/ ClientReturns(c, "OK") \/ ClientReturns(c, "InvalidArgs")
      BY <2>4 DEF CheckArgs
    <3> QED BY <1>5, <1>6, <2>1, <2>3, <3>1, <3>2
  <2>5. CASE Expose(c)
    <3>1. Fn(c).steps[cl[c].pc] = "expose"
      BY <2>5 DEF Expose, AtClient
    <3>2. ClientFails(c, "expose") \/ (ClientNext(c) /\ ult' = ult)
      BY <2>5 DEF Expose
    <3> QED BY <1>6, <2>1, <2>2, <2>3, <3>1, <3>2
  <2>6. CASE CheckMode(c)
    <3>1. ult' = ult /\ Fn(c).steps[cl[c].pc] = "mode"
      BY <2>6 DEF CheckMode, AtClient
    <3>2. (ClientNext(c) /\ CallOf(c).bad # "modes") \/ ClientReturns(c, "ErrMode")
      BY <2>6 DEF CheckMode
    <3> QED BY <1>5, <1>6, <2>1, <2>3, <3>1, <3>2
  <2>7. CASE CreateHandle(c)
    <3>1. Fn(c).steps[cl[c].pc] = "create"
      BY <2>7 DEF CreateHandle, AtClient
    <3>2. ClientFails(c, "create") \/ (ClientNext(c) /\ ult' = ult)
      BY <2>7 DEF CreateHandle
    <3> QED BY <1>6, <2>1, <2>2, <2>3, <3>1, <3>2
  <2>8. CASE Forward(c) /\ ~ClientFails(c, "forward")
    <3>1. /\ cl' = [cl EXCEPT ![c].run = "waiting"] /\ cl[c].pc \in DOMAIN Fn(c).steps
          /\ Fn(c).steps[cl[c].pc] = "forward"
      BY <2>8 DEF Forward, AtClient
    <3>2. cl'[c].run = "waiting"
      BY <1>2, <3>1 DEF CallRec
    <3>3. ult'[c].run = "steps" /\ ult'[c].ret = "OK" /\ ult'[c].pc = 1
      BY <1>2, <2>8, ZenonT(60) DEF Forward, NoUlt
    <3>4. \A p \in 1 .. cl[c].pc - 1 : ~StopsClient(CallOf(c), p)
      BY <1>3, <2>1 DEF Screened
    <3>5. served'[c] = 0
      BY <2>1
    <3>6. "OK" \notin Rejections
      BY DEF Rejections
    <3>7. \E q \in DOMAIN Fn(c).steps : Fn(c).steps[q] = "forward" /\
              \A p \in 1 .. q - 1 : ~StopsClient(CallOf(c), p)
      BY <3>1, <3>4
    <3>8. \A p \in 1 .. ult'[c].pc - 1 : FALSE
      BY <3>3
    <3> QED BY <1>4, <2>1, <3>2, <3>3, <3>5, <3>6, <3>7, <3>8 DEF Screened
  <2> QED BY <1>8, <2>2, <2>4, <2>5, <2>6, <2>7, <2>8 DEF ClientLocalStep
<1>9. CASE GetOutput(c)
  <2>1. cl[c].run = "answered" /\ UNCHANGED <<calls, ult, served>>
    BY <1>9 DEF GetOutput
  <2>2. \/ ClientReturns(c, "FromMercury") \/ ClientReturns(c, "KeyNotFound")
        \/ ClientReturns(c, cl[c].ret)
    BY <1>9 DEF GetOutput
  <2>3. cl[c].ret \in Rejections => served[c] = 0
    BY <1>3, <2>1 DEF Screened
  <2> QED BY <1>5, <2>1, <2>2, <2>3 DEF Rejections
<1>10. CASE Return(c)
  <2>1. cl'[c].run = "idle" /\ UNCHANGED <<calls, ult, served>>
    BY <1>2, <1>10 DEF Return, CallRec
  <2> QED BY <1>3, <1>4, <2>1 DEF Screened
<1> QED BY <1>7, <1>8, <1>9, <1>10 DEF ClientStep

LEMMA ScreenedEnd ==
  ASSUME Inv, Screening, NEW c \in Clients,
         ReleaseBuffer(c) \/ FreeRequest(c) \/ Respond(c) \/ EndUlt(c)
  PROVE  Screened(c)'
<1> USE DEF Inv
<1>1. PICK what : Unwinding(c, what)
  BY DEF ReleaseBuffer, FreeRequest, Respond, EndUlt
<1>2. /\ ult[c] \in UltRec /\ Popped(c) \in UltRec /\ Popped(c).run = "unwind"
      /\ ult[c].run \in {"steps", "unwind"}
  BY <1>1, UnwindKnown
<1>3. ult[c].ret = Popped(c).ret
  BY <1>2 DEF Popped, UltRec
<1>4. UNCHANGED <<conf, calls, served>> /\ cl \in [Clients -> CallRec] /\ ult \in [Clients -> UltRec]
      /\ cl[c] \in CallRec
  BY DEF ReleaseBuffer, FreeRequest, Respond, EndUlt, clientVars, TypeInv
<1>5. CallOf(c)' = CallOf(c) /\ Fn(c)' = Fn(c) /\ Handler(c)' = Handler(c)
  BY <1>4 DEF CallOf, Fn, Handler
<1>6. ult'[c].run = "none" \/ (ult'[c].run = "unwind" /\ ult'[c].ret = ult[c].ret)
  <2>1. CASE FreeRequest(c) \/ Respond(c)
    BY <1>2, <1>3, <1>4, <2>1 DEF FreeRequest, Respond
  <2>2. CASE ReleaseBuffer(c)
    <3>1. PICK u : u = [Popped(c) EXCEPT !.buf = Null]
      OBVIOUS
    <3>2. ult'[c] = u
      BY <1>4, <2>2, <3>1 DEF ReleaseBuffer
    <3>3. u.run = "unwind" /\ u.ret = ult[c].ret
      BY <1>2, <1>3, <3>1 DEF UltRec
    <3> QED BY <3>2, <3>3
  <2>3. CASE EndUlt(c)
    <3>1. PICK u : u = [Popped(c) EXCEPT !.out = Blank]
      OBVIOUS
    <3>2. ult'[c] = NoUlt \/ ult'[c] = u \/ ult'[c] = Popped(c)
      BY <1>4, <2>3, <3>1 DEF EndUlt
    <3>3. u.run = "unwind" /\ u.ret = ult[c].ret
      BY <1>2, <1>3, <3>1 DEF UltRec
    <3>4. NoUlt.run = "none"
      BY DEF NoUlt
    <3> QED BY <1>2, <1>3, <3>2, <3>3, <3>4
  <2> QED BY <2>1, <2>2, <2>3
<1>7. Screened(c) /\ (ult[c].ret \in Rejections => served[c] = 0)
  BY <1>2 DEF Screening, Screened
<1>8. CASE Respond(c)
  <2>1. /\ cl'[c].run \in {"answered", "back"}
        /\ cl'[c].ret = ult[c].ret \/ cl'[c].ret = "FromMercury"
    <3>1. CASE cl' = [cl EXCEPT ![c].run = "answered", ![c].ret = ult[c].ret, ![c].out = ult[c].out]
      <4>1. PICK k : k = [cl[c] EXCEPT !.run = "answered", !.ret = ult[c].ret, !.out = ult[c].out]
        OBVIOUS
      <4>2. cl'[c] = k
        BY <1>4, <3>1, <4>1
      <4>3. k.run = "answered" /\ k.ret = ult[c].ret
        BY <1>4, <4>1 DEF CallRec
      <4> QED BY <4>2, <4>3
    <3>2. CASE ClientReturns(c, "FromMercury")
      <4>1. PICK k : k = [cl[c] EXCEPT !.run = "back", !.ret = "FromMercury"]
        OBVIOUS
      <4>2. cl'[c] = k
        BY <1>4, <3>2, <4>1 DEF ClientReturns
      <4>3. k.run = "back" /\ k.ret = "FromMercury"
        BY <1>4, <4>1 DEF CallRec
      <4> QED BY <4>2, <4>3
    <3> QED BY <1>8, <3>1, <3>2 DEF Respond
  <2> QED BY <1>4, <1>5, <1>6, <1>7, <2>1 DEF Screened, Rejections
<1>9. CASE ~Respond(c)
  <2>1. cl' = cl
    BY <1>9 DEF ReleaseBuffer, FreeRequest, EndUlt, clientVars
  <2> QED BY <1>4, <1>5, <1>6, <1>7, <2>1 DEF Screened
<1> QED BY <1>8, <1>9

LEMMA ScreeningKept ==
  ASSUME Inv, Screening, Guarded(conf), [Next]_vars
  PROVE  Screening'
<1>1. ASSUME NEW c \in Clients, Begin(c) \/ ClientStep(c) \/ UltStep(c)
      PROVE  Screening'
  <2>1. Screened(c)'
    BY <1>1, ScreenedClient, ScreenedServer, ScreenedEnd DEF UltStep
  <2>2. ASSUME NEW d \in Clients, d # c PROVE Screened(d)'
    BY <1>1, <2>2, OnlyItsOwn, ScreenedKept DEF Screening
  <2> QED BY <2>1, <2>2 DEF Screening
<1>2. CASE (\E f \in flying : Complete(f)) \/ FinalizeCache
  <2>1. UNCHANGED <<conf, calls, cl, ult, served>>
    BY <1>2 DEF Complete, FinalizeCache, clientVars
  <2> QED BY <2>1, ScreenedKept DEF Screening
<1>3. CASE UNCHANGED vars
  <2>1. UNCHANGED <<conf, calls, cl, ult, served>>
    BY <1>3 DEF vars
  <2> QED BY <2>1, ScreenedKept DEF Screening
<1> QED BY <1>1, <1>2, <1>3 DEF Next

\* A call that is turned down has not touched the database, and no call with
\* something wrong reaches it, when the functions and handlers look before they
\* send and before they call (src/src/client and src/src/server).
THEOREM RejectedMeansUntouchedHolds ==
  ASSUME \A s \in Setups : Guarded(s)
  PROVE  Spec => []RejectedMeansUntouched
<1>1. Init => Screening
  <2> SUFFICES ASSUME Init, NEW c \in Clients PROVE Screened(c)
    BY DEF Screening
  <2>1. cl[c] = NoCall /\ ult[c] = NoUlt /\ served[c] = 0
    BY DEF Init
  <2> QED BY <2>1 DEF Screened, NoCall, NoUlt
<1>2. Inv /\ Launched /\ Screening /\ [Next]_vars => Screening'
  <2>1. Inv => Guarded(conf)
    BY DEF Inv, TypeInv
  <2> QED BY <2>1, ScreeningKept
<1>3. Screening => RejectedMeansUntouched
  BY DEF Screening, Screened, RejectedMeansUntouched, Rejections
<1> QED BY <1>1, <1>2, <1>3, InvHolds, PTL DEF Spec

-----------------------------------------------------------------------------
(* What the database is given *)

\* Nothing has been written for the request yet.
Early(c) ==
    \A p \in DOMAIN Handler(c).steps : p < ult[c].pc => ~Writes(Handler(c).steps[p])

\* What the request consists of is in the memory of the client, in the input of
\* the handler and, once it has been pulled, in the buffer.
GivenTold(c) ==
    \A r \in Regions \cap Given(Fn(c)) : mem[c][r] = Sent(c, calls[c], r)
InputTold(c) ==
    \A r \in Regions \cap Given(Fn(c)) :
        r \in Fn(c).sends => ult[c].in[r] = Sent(c, calls[c], r)

\* A step before pc has pulled r.
HasPulled(c, r, pc) ==
    \E q \in DOMAIN Handler(c).steps :
        /\ q < pc /\ Handler(c).steps[q].do = "pull"
        /\ r \in Looked(CallOf(c), Handler(c).steps[q])
PulledTold(c) ==
    \A r \in Regions \cap Given(Fn(c)) : \A p \in DOMAIN Handler(c).layout :
        HasPlace(CallOf(c), r) /\ Handler(c).layout[p] = r /\ HasPulled(c, r, ult[c].pc)
          => buf[ult[c].buf].data[p] = Sent(c, calls[c], r)

Told(c) ==
    /\ cl[c].run = "steps" => GivenTold(c)
    /\ ult[c].run = "steps" /\ Early(c) => GivenTold(c) /\ InputTold(c) /\ PulledTold(c)
Requests == \A c \in Clients : Told(c)

\* Whoever has pulled has a buffer.
LEMMA PullerHolds ==
  ASSUME Inv, NEW c \in Clients, ult[c].run = "steps", NEW r, HasPulled(c, r, ult[c].pc)
  PROVE  /\ ult[c].buf \in Buffers /\ ult[c].buf # Null
         /\ \E q \in DOMAIN Handler(c).steps :
              q < ult[c].pc /\ Handler(c).steps[q].do = "buffer"
<1> USE DEF Inv
<1>1. HandlerAssumption(Handler(c)) /\ Handler(c).steps \in Seq(StepRec)
  BY CallKnown DEF CallAssumption, HandlerAssumption, Handler, Fn, StepRec
<1>2. PICK q \in DOMAIN Handler(c).steps :
        q < ult[c].pc /\ Handler(c).steps[q].do = "pull"
  BY DEF HasPulled
<1>3. UsesBuffer(Handler(c), Handler(c).steps[q])
  BY <1>2 DEF UsesBuffer
<1>4. PICK x \in 1 .. q - 1 : Handler(c).steps[x].do = "buffer"
  BY <1>1, <1>2, <1>3 DEF HandlerAssumption
<1>5. ult[c].pc \in Nat /\ ult[c].buf \in Buffers \cup {Null}
  BY DEF TypeInv, UltRec
<1>6. x \in DOMAIN Handler(c).steps /\ x < ult[c].pc
  BY <1>1, <1>2, <1>4, <1>5
<1>7. ult[c].buf # Null
  BY <1>4, <1>6 DEF Deferred, OwnBuffer
<1> QED BY <1>4, <1>5, <1>6, <1>7

\* The step of a ULT changes the content of its own buffer only.
LEMMA OtherBuffers ==
  ASSUME Inv, NEW c \in Clients, UltStep(c),
         NEW x \in Buffers, buf[x].at = "used", x # ult[c].buf
  PROVE  buf'[x] = buf[x]
<1> USE DEF Inv
<1>1. buf \in [Buffers -> BufferRec]
  BY DEF TypeInv
<1>2. CASE PullRegions(c) \/ CallDatabase(c)
  <2>1. PICK b : b = ult[c].buf
    OBVIOUS
  <2>2. buf' = buf \/ \E d : buf' = [buf EXCEPT ![b].data = d]
    BY <1>2, <2>1 DEF PullRegions, CallDatabase
  <2> QED BY <1>1, <2>1, <2>2
<1>3. CASE GetBuffer(c)
  <2>1. conf' = conf /\ calls' = calls
    BY UltFrame
  <2>2. CASE \E b \in Buffers :
                /\ GivenOut(b, CallOf(c).size, Handler(c).buffer)
                /\ UltTo(c, "steps", ult[c].pc + 1, Append(ult[c].stack, "release"), b)
    BY <2>2 DEF GivenOut
  <2> QED BY <1>3, <2>1, <2>2, TakeStep
<1>4. CASE ReleaseBuffer(c)
  <2>1. TakenBack(ult[c].buf)
    BY <1>4, ReleaseStep
  <2> QED BY <2>1 DEF TakenBack
<1>5. CASE ~PullRegions(c) /\ ~CallDatabase(c) /\ ~GetBuffer(c) /\ ~ReleaseBuffer(c)
  <2>1. buf' = buf
    BY <1>5 DEF UltStep, ServerStep, GetInput, LookupOrigin, CheckDatabase,
         CheckModeSupported, CheckRequest, StartPush, PushRegions, WaitPush, FillOutput,
         FreeRequest, Respond, EndUlt, cacheVars
  <2> QED BY <2>1
<1> QED BY <1>2, <1>3, <1>4, <1>5

\* A request that nothing of has changed.
LEMMA ToldKept ==
  ASSUME Inv, NEW c \in Clients, Told(c), conf' = conf, calls'[c] = calls[c], cl'[c] = cl[c],
         ult'[c] = ult[c], mem'[c] = mem[c],
         ult[c].buf \in Buffers /\ ult[c].buf # Null => buf'[ult[c].buf] = buf[ult[c].buf]
  PROVE  Told(c)'
<1>1. CallOf(c)' = CallOf(c) /\ Fn(c)' = Fn(c) /\ Handler(c)' = Handler(c)
  BY DEF CallOf, Fn, Handler
<1>2. GivenTold(c)' <=> GivenTold(c)
  BY <1>1 DEF GivenTold
<1>3. InputTold(c)' <=> InputTold(c)
  BY <1>1 DEF InputTold
<1>4. Early(c)' <=> Early(c)
  BY <1>1 DEF Early
<1>5. ult[c].run = "steps" /\ PulledTold(c) => PulledTold(c)'
  <2> SUFFICES ASSUME ult[c].run = "steps", PulledTold(c),
                      NEW r \in Regions \cap Given(Fn(c)), NEW p \in DOMAIN Handler(c).layout,
                      HasPlace(CallOf(c), r), Handler(c).layout[p] = r,
                      HasPulled(c, r, ult[c].pc)
               PROVE  buf'[ult[c].buf].data[p] = Sent(c, calls[c], r)
    BY <1>1 DEF PulledTold, HasPulled
  <2>1. buf'[ult[c].buf] = buf[ult[c].buf]
    BY PullerHolds
  <2> QED BY <2>1 DEF PulledTold
<1> QED BY <1>2, <1>3, <1>4, <1>5 DEF Told

LEMMA ToldClient ==
  ASSUME Inv, Requests, NEW c \in Clients, Begin(c) \/ ClientStep(c)
  PROVE  Told(c)'
<1> USE DEF Inv
<1>1. conf' = conf
  BY DEF Begin, ClientStep, ClientLocalStep, GetOutput, Return
<1>2. /\ calls \in [Clients -> Nat] /\ cl \in [Clients -> CallRec] /\ ult \in [Clients -> UltRec]
      /\ mem \in [Clients -> Memory] /\ cl[c] \in CallRec
  BY DEF TypeInv
<1>3. Told(c)
  BY DEF Requests
<1>4. CASE Begin(c)
  <2>1. ult'[c].run = "none"
    BY <1>4 DEF Begin
  <2>2. PICK n : n = calls'[c]
    OBVIOUS
  <2>3. Fn(c)' = conf.calls[c][n].fn
    BY <1>1, <2>2 DEF Fn, CallOf
  <2>4. mem'[c] = [r \in Regions |-> IF r \in Given(conf.calls[c][n].fn)
                                     THEN Sent(c, n, r) ELSE Junk]
    BY <1>2, <1>4, <2>2 DEF Begin
  <2>5. GivenTold(c)'
    BY <2>2, <2>3, <2>4 DEF GivenTold
  <2> QED BY <2>1, <2>5 DEF Told
<1>5. CASE ClientLocalStep(c)
  <2>1. cl[c].run = "steps" /\ ult[c].run = "none" /\ UNCHANGED <<mem, calls>>
    BY <1>5 DEF ClientLocalStep, CheckArgs, Expose, CheckMode, CreateHandle, Forward,
                AtClient, ClientFails, Control
  <2>2. CallOf(c)' = CallOf(c) /\ Fn(c)' = Fn(c) /\ Handler(c)' = Handler(c)
    BY <1>1, <2>1 DEF CallOf, Fn, Handler
  <2>3. GivenTold(c) /\ GivenTold(c)'
    BY <1>3, <2>1, <2>2 DEF Told, GivenTold
  <2>4. CASE ult' = ult
    BY <2>1, <2>3, <2>4 DEF Told
  <2>5. CASE Forward(c) /\ ult' # ult
    <3>1. PICK i : i = [r \in Regions |-> IF r \in Fn(c).sends THEN mem[c][r] ELSE Junk]
      OBVIOUS
    <3>2. ult' = [ult EXCEPT ![c] = [NoUlt EXCEPT !.run = "steps", !.stack = FirstDeferred,
                                                  !.in = i]]
      BY <2>5, <3>1 DEF Forward, ClientFails
    <3>3. ult'[c].in = i /\ ult'[c].pc = 1
      BY <1>2, <3>2 DEF NoUlt
    <3>4. InputTold(c)'
      BY <2>1, <2>2, <2>3, <3>1, <3>3 DEF InputTold, GivenTold
    <3>5. PulledTold(c)'
      <4>1. CallAssumption(CallOf(c))
        BY <2>1, CallKnown
      <4>2. Handler(c).steps \in Seq(StepRec)
        BY <4>1 DEF CallAssumption, HandlerAssumption, Handler, Fn, StepRec
      <4>3. \A q \in DOMAIN Handler(c).steps : ~(q < 1)
        BY <4>2
      <4> QED BY <2>2, <3>3, <4>3 DEF PulledTold, HasPulled
    <3> QED BY <2>3, <3>4, <3>5 DEF Told
  <2>6. ult' = ult \/ Forward(c)
    BY <1>5 DEF ClientLocalStep, CheckArgs, Expose, CheckMode, CreateHandle, ClientFails
  <2> QED BY <2>4, <2>5, <2>6
<1>6. CASE GetOutput(c) \/ Return(c)
  <2>1. cl[c].run \in {"answered", "back"} /\ ult' = ult
    BY <1>6 DEF GetOutput, Return
  <2>2. ult[c].run # "steps"
    BY <2>1 DEF Control
  <2>3. cl'[c].run \in {"back", "idle"}
    BY <1>2, <1>6 DEF GetOutput, Return, ClientReturns, CallRec
  <2> QED BY <2>1, <2>2, <2>3 DEF Told
<1> QED BY <1>4, <1>5, <1>6 DEF ClientStep

\* The steps that write nothing for the request leave it where it is, and what
\* a step pulls is what the client has.
LEMMA ReadingSteps ==
  ASSUME Inv, NEW c \in Clients, ServerStep(c), ult'[c].run = "steps", ~Writes(Now(c))
  PROVE  /\ mem' = mem /\ ult'[c].in = ult[c].in
         /\ \/ buf' = buf /\ ult'[c].buf = ult[c].buf /\ Now(c).do # "pull"
            \/ /\ ult'[c].buf = ult[c].buf /\ Now(c).do = "pull" /\ ult[c].buf \in Buffers
               /\ buf'[ult[c].buf].data = Pulled(c, RegionsOf(c))
            \/ Now(c).do = "buffer"
<1> USE DEF Inv
<1>1. ASSUME NEW what, AtServer(c, what)
      PROVE  Now(c).do = what
  BY <1>1 DEF AtServer
<1>2. ~CallDatabase(c) /\ ~StartPush(c) /\ ~PushRegions(c)
  BY <1>1 DEF CallDatabase, StartPush, PushRegions, Writes
<1>3. mem' = mem
  BY <1>2 DEF ServerStep, GetInput, LookupOrigin, CheckDatabase, CheckModeSupported, GetBuffer,
              PullRegions, CheckRequest, WaitPush, FillOutput
<1>4. \A ret : ~Stop(c, ret)
  BY StopFields
<1>5. ult[c] \in UltRec /\ ult \in [Clients -> UltRec]
  BY DEF TypeInv
<1>6. CASE GetInput(c) \/ LookupOrigin(c) \/ CheckDatabase(c) \/ CheckModeSupported(c)
           \/ CheckRequest(c) \/ WaitPush(c)
  <2>1. buf' = buf
    BY <1>6 DEF GetInput, LookupOrigin, CheckDatabase, CheckModeSupported, CheckRequest,
                WaitPush, cacheVars
  <2>2. \E d : NextStep(c, d)
    BY <1>4, <1>6 DEF GetInput, LookupOrigin, CheckDatabase, CheckModeSupported, CheckRequest,
                WaitPush, ServerFails
  <2>3. Now(c).do # "pull"
    BY <1>1, <1>6 DEF GetInput, LookupOrigin, CheckDatabase, CheckModeSupported, CheckRequest,
                WaitPush
  <2> QED BY <1>3, <2>1, <2>2, <2>3, NextStepFields
<1>7. CASE FillOutput(c)
  <2>1. PICK o : o = [r \in Regions |-> IF r \in Now(c).regions THEN Holds(c, r) ELSE ult[c].out[r]]
    OBVIOUS
  <2>2. PICK u : u = [ult[c] EXCEPT !.pc = @ + 1, !.out = o]
    OBVIOUS
  <2>3. ult' = [ult EXCEPT ![c] = u]
    BY <1>7, <2>1, <2>2 DEF FillOutput
  <2>4. u.in = ult[c].in /\ u.buf = ult[c].buf
    BY <1>5, <2>2 DEF UltRec
  <2>5. ult'[c].in = ult[c].in /\ ult'[c].buf = ult[c].buf
    BY <1>5, <2>3, <2>4
  <2>6. buf' = buf /\ Now(c).do # "pull"
    BY <1>1, <1>7 DEF FillOutput, cacheVars
  <2> QED BY <1>3, <2>5, <2>6
<1>8. CASE GetBuffer(c)
  <2>1. PICK b \in Buffers \cup {Null} :
          ult' = [ult EXCEPT ![c].pc = @ + 1, ![c].buf = b, ![c].stack = Append(@, "release")]
    BY <1>4, <1>8 DEF GetBuffer
  <2>2. PICK u : u = [ult[c] EXCEPT !.pc = @ + 1, !.buf = b, !.stack = Append(@, "release")]
    OBVIOUS
  <2>3. ult' = [ult EXCEPT ![c] = u]
    BY <2>1, <2>2
  <2>4. u.in = ult[c].in
    BY <1>5, <2>2 DEF UltRec
  <2>5. ult'[c].in = ult[c].in
    BY <1>5, <2>3, <2>4
  <2> QED BY <1>1, <1>3, <1>8, <2>5 DEF GetBuffer
<1>9. CASE PullRegions(c)
  <2>1. ult[c].buf \in Buffers /\ Now(c).do = "pull"
    <3>1. AtServer(c, "pull")
      BY <1>9 DEF PullRegions
    <3> QED BY <3>1, StepKnown DEF UsesBuffer
  <2>2. NextStep(c, <<>>) /\ buf' = [buf EXCEPT ![ult[c].buf].data = Pulled(c, RegionsOf(c))]
    BY <1>4, <1>9 DEF PullRegions, TransferFails
  <2>3. PICK d : d = Pulled(c, RegionsOf(c))
    OBVIOUS
  <2>4. buf' = [buf EXCEPT ![ult[c].buf].data = d] /\ buf \in [Buffers -> BufferRec]
    BY <2>2, <2>3 DEF TypeInv
  <2>5. buf'[ult[c].buf].data = d
    BY <2>1, <2>4 DEF BufferRec
  <2> QED BY <1>3, <2>1, <2>2, <2>3, <2>5, NextStepFields
<1> QED BY <1>2, <1>6, <1>7, <1>8, <1>9 DEF ServerStep

LEMMA ToldServer ==
  ASSUME Inv, Requests, NEW c \in Clients, ServerStep(c)
  PROVE  Told(c)'
<1> USE DEF Inv
<1>1. /\ ult[c].run = "steps" /\ ult[c].pc \in DOMAIN Handler(c).steps
      /\ \/ ult'[c].run = "steps" /\ ult'[c].pc = ult[c].pc + 1
         \/ ult'[c].run = "unwind"
  BY ServerKinds
<1>2. /\ conf' = conf /\ calls' = calls /\ cl' = cl
      /\ CallOf(c)' = CallOf(c) /\ Fn(c)' = Fn(c) /\ Handler(c)' = Handler(c)
  BY DEF ServerStep, clientVars, CallOf, Fn, Handler
<1>3. cl[c].run = "waiting" /\ Told(c)
  BY <1>1 DEF Control, Requests
<1>4. SUFFICES ASSUME ult'[c].run = "steps", Early(c)'
               PROVE  GivenTold(c)' /\ InputTold(c)' /\ PulledTold(c)'
  BY <1>2, <1>3 DEF Told
<1>5. CallAssumption(CallOf(c)) /\ HandlerAssumption(Handler(c))
      /\ Handler(c).steps \in Seq(StepRec)
  BY <1>1, CallKnown DEF CallAssumption, HandlerAssumption, Handler, Fn, StepRec
<1>6. /\ ult[c].pc \in Int /\ ult'[c].pc = ult[c].pc + 1
      /\ \A q \in DOMAIN Handler(c).steps : q \in Int
      /\ \A q \in DOMAIN Handler(c).steps : q < ult[c].pc + 1 <=> q < ult[c].pc \/ q = ult[c].pc
  BY <1>1, <1>4, <1>5
<1>7. Early(c) /\ ~Writes(Now(c))
  BY <1>1, <1>2, <1>4, <1>6 DEF Early, Now
<1>8. GivenTold(c) /\ InputTold(c) /\ PulledTold(c)
  BY <1>1, <1>3, <1>7 DEF Told
<1>9. /\ mem' = mem /\ ult'[c].in = ult[c].in
      /\ \/ buf' = buf /\ ult'[c].buf = ult[c].buf /\ Now(c).do # "pull"
         \/ /\ ult'[c].buf = ult[c].buf /\ Now(c).do = "pull" /\ ult[c].buf \in Buffers
            /\ buf'[ult[c].buf].data = Pulled(c, RegionsOf(c))
         \/ Now(c).do = "buffer"
  BY <1>4, <1>7, ReadingSteps
<1>10. GivenTold(c)' /\ InputTold(c)'
  BY <1>2, <1>8, <1>9 DEF GivenTold, InputTold
<1>11. PulledTold(c)'
  <2> SUFFICES ASSUME NEW r \in Regions \cap Given(Fn(c)), NEW p \in DOMAIN Handler(c).layout,
                      HasPlace(CallOf(c), r), Handler(c).layout[p] = r,
                      HasPulled(c, r, ult[c].pc + 1)
               PROVE  buf'[ult'[c].buf].data[p] = Sent(c, calls[c], r)
    BY <1>2, <1>6 DEF PulledTold, HasPulled
  <2>1. HasPulled(c, r, ult[c].pc)
          \/ (Now(c).do = "pull" /\ r \in Looked(CallOf(c), Now(c)))
    BY <1>6 DEF HasPulled, Now
  <2>2. CASE buf' = buf /\ ult'[c].buf = ult[c].buf /\ Now(c).do # "pull"
    BY <1>8, <2>1, <2>2 DEF PulledTold
  <2>3. CASE /\ ult'[c].buf = ult[c].buf /\ Now(c).do = "pull" /\ ult[c].buf \in Buffers
             /\ buf'[ult[c].buf].data = Pulled(c, RegionsOf(c))
    <3>1. p \in 1 .. MaxRegions /\ p <= Len(Handler(c).layout) /\ p \in DOMAIN Fn(c).layout
      BY <1>5, Layouts DEF MaxRegions
    <3>2. buf'[ult[c].buf].data[p] = IF r \in RegionsOf(c) THEN mem[c][Fn(c).layout[p]]
                                     ELSE buf[ult[c].buf].data[p]
      BY <2>3, <3>1 DEF Pulled
    <3>3. RegionsOf(c) = Looked(CallOf(c), Now(c))
      BY DEF RegionsOf, Looked, Fn
    <3>4. Fn(c).layout[p] = r
      BY DEF HasPlace, Fn, Handler
    <3>5. mem[c][r] = Sent(c, calls[c], r)
      BY <1>8 DEF GivenTold
    <3>6. r \notin RegionsOf(c) => buf[ult[c].buf].data[p] = Sent(c, calls[c], r)
      BY <1>8, <2>1, <3>3 DEF PulledTold
    <3> QED BY <2>3, <3>2, <3>4, <3>5, <3>6
  <2>4. CASE Now(c).do = "buffer"
    <3>1. HasPulled(c, r, ult[c].pc)
      BY <2>1, <2>4
    <3>2. PICK q \in DOMAIN Handler(c).steps :
             q < ult[c].pc /\ Handler(c).steps[q].do = "buffer"
      BY <1>1, <3>1, PullerHolds
    <3>3. q = ult[c].pc
      BY <1>1, <1>5, <2>4, <3>2 DEF HandlerAssumption, Now
    <3> QED BY <1>6, <3>2, <3>3
  <2> QED BY <1>9, <2>2, <2>3, <2>4
<1> QED BY <1>10, <1>11

LEMMA RequestsKept ==
  ASSUME Inv, Launched, Flights, Requests, PushesAndWaits(conf), [Next]_vars
  PROVE  Requests'
<1> USE DEF Inv
<1>1. ASSUME NEW c \in Clients, Begin(c) \/ ClientStep(c) \/ UltStep(c)
      PROVE  Requests'
  <2>1. Told(c)'
    <3>1. CASE ReleaseBuffer(c) \/ FreeRequest(c) \/ Respond(c) \/ EndUlt(c)
      <4>1. PICK what : Unwinding(c, what)
        BY <3>1 DEF ReleaseBuffer, FreeRequest, Respond, EndUlt
      <4>2. /\ Popped(c) \in UltRec /\ Popped(c).run = "unwind"
            /\ ult[c].run \in {"steps", "unwind"}
        BY <4>1, UnwindKnown
      <4>3. ult \in [Clients -> UltRec] /\ cl \in [Clients -> CallRec]
        BY DEF TypeInv
      <4>4. ult'[c].run # "steps"
        <5>1. CASE ReleaseBuffer(c)
          <6>1. PICK u : u = [Popped(c) EXCEPT !.buf = Null]
            OBVIOUS
          <6>2. ult'[c] = u
            BY <4>3, <5>1, <6>1 DEF ReleaseBuffer
          <6>3. u.run = "unwind"
            BY <4>2, <6>1 DEF UltRec
          <6> QED BY <6>2, <6>3
        <5>2. CASE FreeRequest(c) \/ Respond(c)
          BY <4>2, <4>3, <5>2 DEF FreeRequest, Respond
        <5>3. CASE EndUlt(c)
          <6>1. PICK u : u = [Popped(c) EXCEPT !.out = Blank]
            OBVIOUS
          <6>2. ult'[c] = NoUlt \/ ult'[c] = u \/ ult'[c] = Popped(c)
            BY <4>3, <5>3, <6>1 DEF EndUlt
          <6>3. u.run = "unwind" /\ NoUlt.run = "none"
            BY <4>2, <6>1 DEF UltRec, NoUlt
          <6> QED BY <4>2, <6>2, <6>3
        <5> QED BY <3>1, <5>1, <5>2, <5>3
      <4>5. cl[c].run # "steps"
        BY <4>2 DEF Control
      <4>6. cl'[c].run # "steps"
        BY <3>1, <4>3, <4>5 DEF ReleaseBuffer, FreeRequest, Respond, EndUlt, clientVars,
                               ClientReturns, CallRec
      <4> QED BY <4>4, <4>6 DEF Told
    <3> QED BY <1>1, <3>1, ToldClient, ToldServer DEF UltStep
  <2>2. ASSUME NEW d \in Clients, d # c
        PROVE  Told(d)'
    <3>1. /\ conf' = conf /\ calls'[d] = calls[d] /\ cl'[d] = cl[d] /\ ult'[d] = ult[d]
          /\ mem'[d] = mem[d]
      BY <1>1, <2>2, OnlyItsOwn
    <3>2. ASSUME ult[d].buf \in Buffers, ult[d].buf # Null
          PROVE  buf'[ult[d].buf] = buf[ult[d].buf]
      <4>1. CASE Begin(c) \/ ClientStep(c)
        BY <4>1 DEF Begin, ClientStep, ClientLocalStep, GetOutput, Return, cacheVars
      <4>2. CASE UltStep(c)
        <5>1. buf[ult[d].buf].at = "used" /\ ult[d].buf # ult[c].buf
          BY <2>2, <3>2 DEF Held, Holders
        <5> QED BY <3>2, <4>2, <5>1, OtherBuffers
      <4> QED BY <1>1, <4>1, <4>2
    <3> QED BY <3>1, <3>2, ToldKept DEF Requests
  <2> QED BY <2>1, <2>2 DEF Requests
<1>2. CASE \E f \in flying : Complete(f)
  <2>1. PICK f \in flying : Complete(f)
    BY <1>2
  <2>2. /\ UNCHANGED <<conf, calls, cl, ult, buf>> /\ f.to \in Clients /\ InFlight(f.to)
        /\ ult[f.to].run = "steps"
        /\ mem' = [mem EXCEPT ![f.to] = Pushed(f.to, f.from, f.regions)]
    BY <2>1 DEF Complete, clientVars, cacheVars, Flights, TypeInv, Transfer
  <2>3. Told(f.to)'
    <3>1. PICK p \in DOMAIN Handler(f.to).steps :
             Handler(f.to).steps[p].do = "ipush" /\ p < ult[f.to].pc
      BY <2>2 DEF InFlight
    <3>2. Handler(f.to)' = Handler(f.to)
      BY <2>2 DEF Handler, Fn, CallOf
    <3>3. ~Early(f.to)'
      BY <2>2, <3>1, <3>2 DEF Early, Writes
    <3>4. cl'[f.to].run # "steps"
      BY <2>2 DEF Control
    <3> QED BY <3>3, <3>4 DEF Told
  <2>4. ASSUME NEW d \in Clients, d # f.to
        PROVE  Told(d)'
    <3>1. mem'[d] = mem[d]
      BY <2>2, <2>4 DEF TypeInv
    <3> QED BY <2>2, <3>1, ToldKept DEF Requests
  <2> QED BY <2>3, <2>4 DEF Requests
<1>3. CASE FinalizeCache
  <2>1. \A c \in Clients : ult'[c].run = "none" /\ cl'[c].run = "idle"
    BY <1>3 DEF FinalizeCache, Idle, clientVars
  <2> QED BY <2>1 DEF Requests, Told
<1>4. CASE UNCHANGED vars
  <2>1. UNCHANGED <<conf, calls, cl, ult, mem, buf>>
    BY <1>4 DEF vars
  <2> QED BY <2>1, ToldKept DEF Requests
<1> QED BY <1>1, <1>2, <1>3, <1>4 DEF Next

\* When a handler checks its request or calls the database each region it hands
\* over is what this client sent with this call, when handlers pull what they
\* look at from where the client has put it before they write anything
\* (src/src/server/get.cpp and the other handlers).
THEOREM DatabaseSeesRequestHolds ==
  ASSUME \A s \in Setups : PushesAndWaits(s) /\ SendsAll(s)
  PROVE  Spec => []DatabaseSeesRequest
<1>1. Init => Requests
  <2> SUFFICES ASSUME Init, NEW c \in Clients PROVE Told(c)
    BY DEF Requests
  <2>1. cl[c] = NoCall /\ ult[c] = NoUlt
    BY DEF Init
  <2> QED BY <2>1 DEF Told, NoCall, NoUlt
<1>2. Inv /\ Launched /\ Flights /\ Requests /\ [Next]_vars => Requests'
  <2>1. Inv => PushesAndWaits(conf)
    BY DEF Inv, TypeInv
  <2> QED BY <2>1, RequestsKept
<1>3. Inv /\ Requests => DatabaseSeesRequest
  <2> SUFFICES ASSUME Inv, Requests, NEW c \in Clients, NEW what \in {"check", "call"},
                      AtServer(c, what), NEW r \in RegionsOf(c)
               PROVE  Holds(c, r) = Sent(c, calls[c], r)
    BY DEF DatabaseSeesRequest
  <2>1. /\ CallAssumption(CallOf(c)) /\ ult[c].pc \in DOMAIN Handler(c).steps
        /\ Now(c) \in StepRec /\ Now(c).do = what /\ ult[c].run = "steps"
    BY StepKnown DEF Inv, AtServer
  <2>2. GetsRequest(CallOf(c))
    <3>1. calls[c] \in DOMAIN conf.calls[c]
      BY <2>1, CallKnown DEF Inv
    <3> QED BY <3>1 DEF SendsAll, CallOf, Inv, TypeInv
  <2>3. RegionsOf(c) = Looked(CallOf(c), Now(c)) /\ r \in Regions
    BY <2>1 DEF RegionsOf, Looked, Fn, StepRec
  <2>4. Early(c)
    BY <2>1, <2>2 DEF GetsRequest, Early, Reads, Now, Handler, Fn
  <2>5. GivenTold(c) /\ InputTold(c) /\ PulledTold(c)
    BY <2>1, <2>4 DEF Requests, Told
  <2>6. /\ r \in Given(Fn(c))
        /\ IF r \in ToSet(Handler(c).layout)
           THEN HasPlace(CallOf(c), r) /\ HasPulled(c, r, ult[c].pc)
           ELSE r \in Fn(c).sends
    BY <2>1, <2>2, <2>3 DEF GetsRequest, HasPulled, Now, Handler, Fn
  <2>7. CASE InLayout(c, r)
    <3>1. Position(c, r) \in DOMAIN Handler(c).layout /\ Handler(c).layout[Position(c, r)] = r
      BY <2>7 DEF InLayout, ToSet, Position
    <3> QED BY <2>3, <2>5, <2>6, <2>7, <3>1 DEF PulledTold, Holds, InLayout
  <2>8. CASE ~InLayout(c, r)
    BY <2>3, <2>5, <2>6, <2>8 DEF InputTold, Holds, InLayout
  <2> QED BY <2>7, <2>8
<1>4. Inv /\ Launched /\ Flights /\ [Next]_vars => Flights'
  <2>1. Inv => PushesAndWaits(conf)
    BY DEF Inv, TypeInv
  <2>2. CASE UNCHANGED vars
    <3>1. UNCHANGED <<conf, calls, exposed, ult, flying, buf>>
      BY <2>2 DEF vars
    <3>2. Flights => \A f \in flying : Flight(f)'
      BY <3>1, FlightKept DEF Flights, Flight
    <3> QED BY <3>1, <3>2 DEF Flights, Flight
  <2> QED BY <2>1, <2>2, FlightsKept
<1> QED BY <1>1, <1>2, <1>3, <1>4, InitInv, InvHolds, PTL DEF Spec

-----------------------------------------------------------------------------
(* What the caller is told *)

\* The places of the regions are the same for the function and its handler.
SamePlaces(k) ==
    \A p \in DOMAIN k.fn.layout : \A q \in DOMAIN k.fn.rpc.layout :
        k.fn.layout[p] = k.fn.rpc.layout[q] <=> p = q

\* The step s brings region r to the caller.
Brings(k, s, r) ==
    /\ r \in s.regions
    /\ \/ s.do = "output"
       \/ s.do = "push" /\ r \in ToSet(k.fn.layout)
       \/ s.do = "ipush" /\ r \in ToSet(k.fn.layout) /\ ~(k.one /\ k.absent)

OwedBy(k) == IF k.absent THEN k.fn.gets \ {"vals", "docs"} ELSE k.fn.gets

\* A handler calls the database once, has its request by then, returns after
\* that only what the database has filled, and returns all that is owed.
AnswersCall(k) ==
    LET h == k.fn.rpc.steps
    IN  /\ SamePlaces(k)
        /\ \E p \in DOMAIN h :
             /\ \A q \in DOMAIN h : h[q].do = "call" <=> q = p
             /\ \A q \in DOMAIN h : h[q].do \in {"push", "ipush", "output"} =>
                  p < q /\ h[q].regions \subseteq h[p].fills
             /\ \A q \in DOMAIN h : h[q].do \in {"buffer", "pull"} => q < p
        /\ \A r \in OwedBy(k) : \E q \in DOMAIN h : Brings(k, h[q], r)

AnswersAll(s) ==
    \A c \in Clients : \A n \in DOMAIN s.calls[c] : AnswersCall(s.calls[c][n])

\* A call that may move data exposes the memory of the caller for it; only one
\* whose value is not packed pushes a value that is absent (src/src/server/
\* get.cpp:160), which is left out.
Moves(s) == s.do \in {"pull", "push", "ipush"}

MayMove(k, s) ==
    /\ s.do = "pull" => Looked(k, s) = {} \/ k.fn.access \in {"readonly", "readwrite"}
    /\ s.do \in {"push", "ipush"} => k.fn.access = "readwrite" /\ k.fn.rpc.buffer = "readwrite"
    /\ s.do = "ipush" => ~(k.one /\ k.absent /\ ~k.fn.packed /\ "vals" \in s.regions)

Permitted(k) ==
    LET f == k.fn.steps h == k.fn.rpc.steps
    IN  /\ "none" \notin k.fn.args
        /\ \A p \in DOMAIN h : Moves(h[p]) =>
             /\ MayMove(k, h[p])
             /\ \A q \in DOMAIN f : f[q] = "forward" => \E x \in 1 .. q - 1 : f[x] = "expose"

PermittedAll(s) ==
    \A c \in Clients : \A n \in DOMAIN s.calls[c] : Permitted(s.calls[c][n])

\* Region r has come to the caller, or will with the response or a transfer.
Arrived(c, r) ==
    \/ mem[c][r] = Answer(c, calls[c], r)
    \/ ult[c].out[r] = Answer(c, calls[c], r)
    \/ r \in ToSet(Fn(c).layout) /\ \E f \in flying : f.to = c /\ r \in f.regions

\* A response has nothing but answers in it; with the memory it has all.
OnlyAnswers(c, out) == \A r \in Regions : out[r] \in {Junk, Answer(c, calls[c], r)}
AllThere(c, out) ==
    \A r \in Owed(c) : Answer(c, calls[c], r) \in {mem[c][r], out[r]}
HasAnswer(c, out) == served[c] = 1 /\ OnlyAnswers(c, out) /\ AllThere(c, out)

\* The call of the database is behind the step of the ULT.
Behind(c, p) ==
    p \in DOMAIN Handler(c).steps /\ Handler(c).steps[p].do = "call" /\ p < ult[c].pc

Collects(c) ==
    /\ ult[c].ret = "OK" /\ OnlyAnswers(c, ult[c].out)
    /\ served[c] = IF \E p \in DOMAIN Handler(c).steps : Behind(c, p) THEN 1 ELSE 0
    /\ \A p \in DOMAIN Handler(c).steps : Behind(c, p) =>
         \A r \in Handler(c).steps[p].fills : Holds(c, r) = Answer(c, calls[c], r)
    /\ \A q \in DOMAIN Handler(c).steps : \A r \in Regions :
         q < ult[c].pc /\ Brings(CallOf(c), Handler(c).steps[q], r) => Arrived(c, r)
    /\ \A f \in flying : f.to = c => \E p \in DOMAIN Handler(c).steps :
         Behind(c, p) /\ f.regions \subseteq Handler(c).steps[p].fills

\* The response is deferred first but for what it needs.
RespondsOnce(c) ==
    LET s == ult[c].stack
    IN  /\ cl[c].run = "waiting" =>
             /\ Len(s) >= 3 /\ s[1] # "respond" /\ s[2] # "respond" /\ s[3] = "respond"
             /\ \A n \in 4 .. Len(s) : s[n] \in {"free_input", "free_addr", "release"}
        /\ cl[c].run # "waiting" => \A n \in DOMAIN s : s[n] # "respond"

Answering(c) ==
    /\ RespondsOnce(c)
    /\ cl[c].run = "steps" => served[c] = 0
    /\ ult[c].run = "steps" => Collects(c)
    /\ cl[c].run = "waiting" /\ ult[c].run = "unwind" =>
         ult[c].ret # "KeyNotFound" /\ (ult[c].ret = "OK" => HasAnswer(c, ult[c].out))
    /\ cl[c].run = "answered" =>
         cl[c].ret # "KeyNotFound" /\ (cl[c].ret = "OK" => HasAnswer(c, cl[c].out))
    /\ cl[c].run = "back" =>
         (cl[c].ret \in {"OK", "KeyNotFound"} /\ CallOf(c).bad # "nothing"
            => served[c] = 1 /\ Answered(c))

\* Nothing is wrong with a call, and margo has not failed.
Undisturbed(c) ==
    CallOf(c).bad = "none" /\ conf.attached /\ c \notin faulted /\ ~MayFail("call")

Unhindered(c) ==
    /\ cl[c].run = "steps" => \A q \in 1 .. cl[c].pc - 1 :
         q \in DOMAIN Fn(c).steps /\ Fn(c).steps[q] = "expose" => exposed[c] = Fn(c).access
    /\ ult[c].run = "steps" =>
         \A p \in DOMAIN Handler(c).steps :
           Moves(Handler(c).steps[p]) => exposed[c] = Fn(c).access
    /\ cl[c].run # "idle" /\ Undisturbed(c) =>
         /\ ult[c].run = "steps" => ult[c].ret = "OK"
         /\ cl[c].run = "waiting" /\ ult[c].run = "unwind" => ult[c].ret = "OK"
         /\ cl[c].run = "answered" => cl[c].ret = "OK"
         /\ cl[c].run = "back" => cl[c].ret \in {"OK", "KeyNotFound"}

LEMMA NextStepOut ==
  ASSUME TypeInv, NEW c \in Clients, NEW d, NextStep(c, d)
  PROVE  ult'[c].out = ult[c].out
<1>1. ult[c] \in UltRec /\ ult \in [Clients -> UltRec]
  BY DEF TypeInv
<1>2. PICK u : u = [ult[c] EXCEPT !.pc = @ + 1, !.stack = @ \o d]
  OBVIOUS
<1>3. ult' = [ult EXCEPT ![c] = u]
  BY <1>2 DEF NextStep
<1>4. u.out = ult[c].out
  BY <1>1, <1>2 DEF UltRec
<1> QED BY <1>1, <1>3, <1>4

\* The handler of a request in progress, and what is assumed of it.
LEMMA HandlerKnown ==
  ASSUME Inv, NEW c \in Clients, cl[c].run # "idle" \/ ult[c].run # "none"
  PROVE  /\ CallAssumption(CallOf(c)) /\ HandlerAssumption(Handler(c))
         /\ Handler(c).steps \in Seq(StepRec) /\ Fn(c).steps \in Seq(STRING)
         /\ AnswersAll(conf) => AnswersCall(CallOf(c))
         /\ PermittedAll(conf) => Permitted(CallOf(c))
<1>1. CallAssumption(CallOf(c)) /\ calls[c] \in DOMAIN conf.calls[c]
  BY CallKnown DEF Inv
<1>2. /\ AnswersAll(conf) => AnswersCall(CallOf(c))
      /\ PermittedAll(conf) => Permitted(CallOf(c))
  BY <1>1 DEF AnswersAll, PermittedAll, CallOf
<1> QED BY <1>1, <1>2 DEF CallAssumption, HandlerAssumption, Handler, Fn, StepRec

\* What the database has filled in the buffer is in a buffer the ULT has.
LEMMA FillsHeld ==
  ASSUME Inv, NEW c \in Clients, ult[c].run = "steps", NEW p, Behind(c, p),
         NEW r \in Handler(c).steps[p].fills, InLayout(c, r)
  PROVE  ult[c].buf \in Buffers /\ ult[c].buf # Null
<1> USE DEF Inv
<1>1. HandlerAssumption(Handler(c)) /\ Handler(c).steps \in Seq(StepRec)
  BY HandlerKnown
<1>2. UsesBuffer(Handler(c), Handler(c).steps[p])
  BY <1>1 DEF UsesBuffer, InLayout, Behind
<1>3. PICK x \in 1 .. p - 1 : Handler(c).steps[x].do = "buffer"
  BY <1>1, <1>2 DEF HandlerAssumption, Behind
<1>4. ult[c].pc \in Nat /\ ult[c].buf \in Buffers \cup {Null}
  BY DEF TypeInv, UltRec
<1>5. x \in DOMAIN Handler(c).steps /\ x < ult[c].pc
  BY <1>1, <1>3, <1>4 DEF Behind
<1>6. ult[c].buf # Null
  BY <1>3, <1>5 DEF Deferred, OwnBuffer
<1> QED BY <1>4, <1>6

\* With the same places on both sides, a push brings the regions it is for.
LEMMA PushedAnswers ==
  ASSUME Inv, NEW c \in Clients, ult[c].run = "steps", Collects(c), SamePlaces(CallOf(c)),
         NEW p, Behind(c, p), NEW rs, rs \subseteq Handler(c).steps[p].fills,
         NEW r \in Regions
  PROVE  Pushed(c, ult[c].buf, rs)[r] =
           IF r \in rs /\ r \in ToSet(Fn(c).layout) THEN Answer(c, calls[c], r) ELSE mem[c][r]
<1> DEFINE goes(q) == Fn(c).layout[q] = r
<1>1. CallAssumption(CallOf(c))
  BY HandlerKnown
<1>2. /\ Handler(c).layout \in Seq(Regions) /\ Fn(c).layout \in Seq(Regions)
      /\ Len(Fn(c).layout) = Len(Handler(c).layout)
      /\ DOMAIN Fn(c).layout = DOMAIN Handler(c).layout
  <2>1. /\ Handler(c).layout \in Seq(Regions) /\ Fn(c).layout \in Seq(Regions)
        /\ Len(Fn(c).layout) = Len(Handler(c).layout)
    BY <1>1, Layouts
  <2> QED BY <2>1
<1>3. \A x \in DOMAIN Fn(c).layout : \A y \in DOMAIN Handler(c).layout :
        Fn(c).layout[x] = Handler(c).layout[y] <=> x = y
  BY DEF SamePlaces, Fn, Handler
<1>4. Pushed(c, ult[c].buf, rs)[r] =
        IF \E q \in DOMAIN Fn(c).layout : goes(q) /\ Handler(c).layout[q] \in rs
        THEN buf[ult[c].buf].data[CHOOSE q \in DOMAIN Fn(c).layout : goes(q)]
        ELSE mem[c][r]
  BY DEF Pushed
<1>5. (\E q \in DOMAIN Fn(c).layout : goes(q) /\ Handler(c).layout[q] \in rs)
        <=> r \in rs /\ r \in ToSet(Fn(c).layout)
  BY <1>2, <1>3 DEF ToSet
<1>6. ASSUME r \in rs, r \in ToSet(Fn(c).layout)
      PROVE  buf[ult[c].buf].data[CHOOSE q \in DOMAIN Fn(c).layout : goes(q)]
               = Answer(c, calls[c], r)
  <2>1. PICK x \in DOMAIN Fn(c).layout : goes(x)
    BY <1>6 DEF ToSet
  <2>2. PICK q : q = CHOOSE y \in DOMAIN Fn(c).layout : goes(y)
    OBVIOUS
  <2>3. q \in DOMAIN Fn(c).layout /\ goes(q)
    BY <2>1, <2>2
  <2>4. InLayout(c, r)
    BY <1>2, <1>3, <2>3 DEF InLayout, ToSet
  <2>5. Position(c, r) \in DOMAIN Handler(c).layout
          /\ Handler(c).layout[Position(c, r)] = r
    BY <2>4 DEF Position, InLayout, ToSet
  <2>6. Position(c, r) = q
    BY <1>2, <1>3, <2>3, <2>5
  <2>7. Holds(c, r) = Answer(c, calls[c], r)
    BY <1>6 DEF Collects, Behind
  <2> QED BY <2>2, <2>4, <2>6, <2>7 DEF Holds
<1> HIDE DEF goes
<1> QED BY <1>4, <1>5, <1>6

\* The steps of a ULT that neither call the database nor answer.
Answers(s) == s.do \in {"call", "push", "ipush", "output"}

LEMMA OtherSteps ==
  ASSUME Inv, NEW c \in Clients, ServerStep(c), ult'[c].run = "steps", ~Answers(Now(c))
  PROVE  /\ mem' = mem /\ flying' = flying /\ ult'[c].out = ult[c].out
         /\ ult'[c].in = ult[c].in
         /\ Now(c).do \notin {"buffer", "pull"} => buf' = buf /\ ult'[c].buf = ult[c].buf
<1> USE DEF Inv
<1>1. ~Writes(Now(c))
  BY DEF Writes, Answers
<1>2. /\ mem' = mem /\ ult'[c].in = ult[c].in
      /\ Now(c).do \notin {"buffer", "pull"} => buf' = buf /\ ult'[c].buf = ult[c].buf
  BY <1>1, ReadingSteps
<1>3. ~CallDatabase(c) /\ ~StartPush(c) /\ ~PushRegions(c) /\ ~FillOutput(c)
  BY DEF CallDatabase, StartPush, PushRegions, FillOutput, Answers, AtServer
<1>4. \A ret : ~Stop(c, ret)
  BY StopFields
<1>5. flying' = flying
  BY <1>3 DEF ServerStep, GetInput, LookupOrigin, CheckDatabase, CheckModeSupported, GetBuffer,
              PullRegions, CheckRequest, WaitPush
<1>6. ult[c] \in UltRec /\ ult \in [Clients -> UltRec]
  BY DEF TypeInv
<1>7. CASE GetInput(c) \/ LookupOrigin(c) \/ CheckDatabase(c) \/ CheckModeSupported(c)
           \/ CheckRequest(c) \/ WaitPush(c) \/ PullRegions(c)
  <2>1. \E d : NextStep(c, d)
    BY <1>4, <1>7 DEF GetInput, LookupOrigin, CheckDatabase, CheckModeSupported, CheckRequest,
                WaitPush, ServerFails, PullRegions, TransferFails
  <2> QED BY <1>2, <1>5, <2>1, NextStepOut
<1>8. CASE GetBuffer(c)
  <2>1. PICK b \in Buffers \cup {Null} :
          ult' = [ult EXCEPT ![c].pc = @ + 1, ![c].buf = b, ![c].stack = Append(@, "release")]
    BY <1>4, <1>8 DEF GetBuffer
  <2>2. PICK u : u = [ult[c] EXCEPT !.pc = @ + 1, !.buf = b, !.stack = Append(@, "release")]
    OBVIOUS
  <2>3. ult' = [ult EXCEPT ![c] = u]
    BY <2>1, <2>2
  <2>4. u.out = ult[c].out
    BY <1>6, <2>2 DEF UltRec
  <2>5. ult'[c].out = ult[c].out
    BY <1>6, <2>3, <2>4
  <2> QED BY <1>2, <1>5, <2>5
<1> QED BY <1>3, <1>7, <1>8 DEF ServerStep

\* Which action a step of a ULT is.
LEMMA ActionOf ==
  ASSUME NEW c \in Clients, ServerStep(c)
  PROVE  /\ Now(c).do = "call" => CallDatabase(c)
         /\ Now(c).do = "push" => PushRegions(c)
         /\ Now(c).do = "ipush" => StartPush(c)
         /\ Now(c).do = "output" => FillOutput(c)
BY DEF ServerStep, GetInput, LookupOrigin, CheckDatabase, CheckModeSupported, GetBuffer,
       PullRegions, CheckRequest, CallDatabase, StartPush, PushRegions, WaitPush, FillOutput,
       AtServer

\* After the call the handler finds the answers where it looks for them.
LEMMA CallFills ==
  ASSUME Inv, NEW c \in Clients, ServerStep(c), CallDatabase(c), ult'[c].run = "steps"
  PROVE  /\ mem' = mem /\ flying' = flying /\ ult'[c].out = ult[c].out
         /\ \A r \in Now(c).fills : Holds(c, r)' = Answer(c, calls[c], r)
<1> USE DEF Inv
<1>0. AtServer(c, "call") /\ mem' = mem /\ flying' = flying
  BY DEF CallDatabase
<1>1. /\ CallAssumption(CallOf(c)) /\ Now(c) \in StepRec /\ ult[c].pc \in DOMAIN Handler(c).steps
      /\ UsesBuffer(Handler(c), Now(c)) => ult[c].buf \in Buffers
  BY <1>0, StepKnown
<1>2. conf' = conf /\ calls' = calls /\ Handler(c)' = Handler(c)
  BY DEF ServerStep, clientVars, Handler, Fn, CallOf
<1>3. \A ret : ~Stop(c, ret)
  BY StopFields
<1>4. PICK g : g = [r \in Regions |-> IF r \in Now(c).fills /\ ~InLayout(c, r)
                                      THEN Answer(c, calls[c], r) ELSE ult[c].in[r]]
  OBVIOUS
<1>5. ult[c] \in UltRec /\ ult \in [Clients -> UltRec] /\ buf \in [Buffers -> BufferRec]
  BY DEF TypeInv
<1>6. ult[c].in \in Memory
  BY <1>5 DEF UltRec
<1>7. ult' = [ult EXCEPT ![c].pc = @ + 1, ![c].in = g]
  BY <1>3, <1>4, <1>5 DEF CallDatabase
<1>8. PICK u : u = [ult[c] EXCEPT !.pc = @ + 1, !.in = g]
  OBVIOUS
<1>9. ult' = [ult EXCEPT ![c] = u]
  BY <1>7, <1>8
<1>10. u.in = g /\ u.out = ult[c].out /\ u.buf = ult[c].buf
  BY <1>5, <1>8 DEF UltRec
<1>11. ult'[c].in = g /\ ult'[c].out = ult[c].out /\ ult'[c].buf = ult[c].buf
  BY <1>5, <1>9, <1>10
<1>12. ASSUME NEW r \in Now(c).fills
       PROVE  Holds(c, r)' = Answer(c, calls[c], r)
  <2>1. InLayout(c, r)' <=> InLayout(c, r)
    BY <1>2 DEF InLayout
  <2>2. Position(c, r)' = Position(c, r)
    BY <1>2 DEF Position
  <2>3. r \in Regions
    BY <1>1 DEF StepRec
  <2>4. CASE ~InLayout(c, r)
    BY <1>4, <1>11, <2>1, <2>3, <2>4 DEF Holds
  <2>5. CASE InLayout(c, r)
    <3>1. Position(c, r) \in 1 .. MaxRegions /\ Handler(c).layout[Position(c, r)] = r
          /\ Handler(c).layout \in Seq(Regions)
      BY <1>1, <2>3, <2>5, Layouts
    <3>2. Position(c, r) \in DOMAIN Handler(c).layout
      BY <2>5 DEF Position, InLayout, ToSet
    <3>3. ult[c].buf \in Buffers /\ ult[c].buf # Null
      <4>1. UsesBuffer(Handler(c), Now(c))
        BY <2>5 DEF UsesBuffer, InLayout
      <4> QED BY <1>1, <4>1, SetupsAssumption DEF SetupsAssumption
    <3>4. PICK p : p = Position(c, r)
      OBVIOUS
    <3>5. p \in 1 .. MaxRegions /\ p <= Len(Handler(c).layout) /\ Handler(c).layout[p] = r
      BY <3>1, <3>2, <3>4
    <3>6. PICK data : data = [q \in 1 .. MaxRegions |->
             IF q <= Len(Handler(c).layout) /\ Handler(c).layout[q] \in Now(c).fills
             THEN Answer(c, calls[c], Handler(c).layout[q]) ELSE buf[ult[c].buf].data[q]]
      OBVIOUS
    <3>7. buf' = [buf EXCEPT ![ult[c].buf].data = data]
      BY <1>3, <1>5, <3>3, <3>6 DEF CallDatabase
    <3>8. buf'[ult[c].buf].data = data
      BY <1>5, <3>3, <3>7 DEF BufferRec
    <3>9. data[p] = Answer(c, calls[c], r)
      BY <3>5, <3>6
    <3> QED BY <1>11, <2>1, <2>2, <2>5, <3>4, <3>8, <3>9 DEF Holds
  <2> QED BY <2>4, <2>5
<1> QED BY <1>0, <1>11, <1>12

\* The steps that answer.
LEMMA PushBrings ==
  ASSUME Inv, NEW c \in Clients, PushRegions(c), ult'[c].run = "steps"
  PROVE  /\ mem'[c] = Pushed(c, ult[c].buf, Now(c).regions) /\ flying' = flying /\ buf' = buf
         /\ ult'[c].out = ult[c].out /\ ult'[c].in = ult[c].in /\ ult'[c].buf = ult[c].buf
<1>1. \A ret : ~Stop(c, ret)
  BY StopFields DEF Inv
<1>2. NextStep(c, <<>>) /\ mem' = [mem EXCEPT ![c] = Pushed(c, ult[c].buf, Now(c).regions)]
      /\ flying' = flying /\ buf' = buf
  BY <1>1 DEF PushRegions, TransferFails, cacheVars
<1> QED BY <1>2, NextStepFields, NextStepOut DEF Inv, TypeInv

LEMMA StartBrings ==
  ASSUME Inv, NEW c \in Clients, StartPush(c), ult'[c].run = "steps"
  PROVE  /\ mem' = mem /\ buf' = buf
         /\ ult'[c].out = ult[c].out /\ ult'[c].in = ult[c].in /\ ult'[c].buf = ult[c].buf
         /\ \/ flying' = flying /\ CallOf(c).one /\ CallOf(c).absent
            \/ flying' = flying \cup {[to |-> c, from |-> ult[c].buf,
                                       regions |-> Now(c).regions]}
<1>1. \A ret : ~Stop(c, ret)
  BY StopFields DEF Inv
<1>2. PICK one : one = (CallOf(c).one /\ CallOf(c).absent)
  OBVIOUS
<1>3. /\ NextStep(c, <<>>) /\ mem' = mem /\ buf' = buf
      /\ \/ one /\ flying' = flying
         \/ flying' = flying \cup {[to |-> c, from |-> ult[c].buf, regions |-> Now(c).regions]}
  BY <1>1, <1>2 DEF StartPush, TransferFails, cacheVars
<1> QED BY <1>2, <1>3, NextStepFields, NextStepOut DEF Inv

LEMMA OutputBrings ==
  ASSUME Inv, NEW c \in Clients, FillOutput(c)
  PROVE  /\ mem' = mem /\ flying' = flying /\ buf' = buf
         /\ ult'[c].in = ult[c].in /\ ult'[c].buf = ult[c].buf
         /\ ult'[c].out = [r \in Regions |-> IF r \in Now(c).regions THEN Holds(c, r)
                                             ELSE ult[c].out[r]]
<1>1. mem' = mem /\ flying' = flying /\ buf' = buf
  BY DEF FillOutput, cacheVars
<1>2. PICK o : o = [r \in Regions |-> IF r \in Now(c).regions THEN Holds(c, r) ELSE ult[c].out[r]]
  OBVIOUS
<1>3. PICK u : u = [ult[c] EXCEPT !.pc = @ + 1, !.out = o]
  OBVIOUS
<1>4. ult' = [ult EXCEPT ![c] = u]
  BY <1>2, <1>3 DEF FillOutput
<1>5. ult[c] \in UltRec /\ ult \in [Clients -> UltRec]
  BY DEF Inv, TypeInv
<1>6. u.in = ult[c].in /\ u.buf = ult[c].buf /\ u.out = o
  BY <1>3, <1>5 DEF UltRec
<1> QED BY <1>1, <1>2, <1>4, <1>5, <1>6

\* A request of whose answer nothing has changed.
LEMMA CollectsKept ==
  ASSUME Inv, NEW c \in Clients, Collects(c), ult[c].run = "steps", conf' = conf,
         calls'[c] = calls[c], ult'[c] = ult[c], served'[c] = served[c], mem'[c] = mem[c],
         ult[c].buf \in Buffers /\ ult[c].buf # Null => buf'[ult[c].buf] = buf[ult[c].buf],
         \A f \in flying : f.to = c => f \in flying',
         \A f \in flying' : f.to = c => f \in flying
  PROVE  Collects(c)'
<1>1. CallOf(c)' = CallOf(c) /\ Fn(c)' = Fn(c) /\ Handler(c)' = Handler(c)
  BY DEF CallOf, Fn, Handler
<1>2. \A p : Behind(c, p)' <=> Behind(c, p)
  BY <1>1 DEF Behind
<1>3. ASSUME NEW p \in DOMAIN Handler(c).steps, Behind(c, p),
             NEW r \in Handler(c).steps[p].fills
      PROVE  Holds(c, r)' = Answer(c, calls[c], r)
  <2>1. Holds(c, r) = Answer(c, calls[c], r)
    BY <1>3 DEF Collects
  <2>2. InLayout(c, r)' <=> InLayout(c, r)
    BY <1>1 DEF InLayout
  <2>3. Position(c, r)' = Position(c, r)
    BY <1>1 DEF Position
  <2>4. CASE InLayout(c, r)
    <3>1. buf'[ult[c].buf] = buf[ult[c].buf]
      BY <1>3, <2>4, FillsHeld
    <3> QED BY <2>1, <2>2, <2>3, <2>4, <3>1 DEF Holds
  <2>5. CASE ~InLayout(c, r)
    BY <2>1, <2>2, <2>5 DEF Holds
  <2> QED BY <2>4, <2>5
<1>4. \A r : Arrived(c, r) => Arrived(c, r)'
  BY <1>1 DEF Arrived
<1>5. OnlyAnswers(c, ult[c].out)'
  BY DEF Collects, OnlyAnswers
<1> QED BY <1>1, <1>2, <1>3, <1>4, <1>5 DEF Collects

\* A step of a ULT that goes on: what is behind it then.
LEMMA BehindNext ==
  ASSUME Inv, NEW c \in Clients, AnswersCall(CallOf(c)), ServerStep(c), ult'[c].run = "steps"
  PROVE  /\ CallOf(c)' = CallOf(c) /\ Fn(c)' = Fn(c) /\ Handler(c)' = Handler(c)
         /\ calls' = calls
         /\ ult[c].run = "steps" /\ ult[c].pc \in DOMAIN Handler(c).steps
         /\ ult'[c].ret = ult[c].ret
         /\ \A p \in DOMAIN Handler(c).steps :
              p < ult'[c].pc <=> (p < ult[c].pc \/ p = ult[c].pc)
         /\ \A p : Behind(c, p)' <=> Behind(c, p) \/ (p = ult[c].pc /\ Now(c).do = "call")
         /\ Now(c).do \in {"call", "buffer", "pull"} => \A p : ~Behind(c, p)
         /\ Now(c).do \in {"push", "ipush", "output"} => \E p :
              Behind(c, p) /\ Now(c).regions \subseteq Handler(c).steps[p].fills
         /\ IF Now(c).do = "call" THEN served' = [served EXCEPT ![c] = @ + 1]
            ELSE served' = served
<1> USE DEF Inv
<1>1. /\ ult[c].run = "steps" /\ ult[c].pc \in DOMAIN Handler(c).steps
      /\ ult'[c].pc = ult[c].pc + 1 /\ ult'[c].ret = ult[c].ret
      /\ IF Now(c).do = "call" THEN served' = [served EXCEPT ![c] = @ + 1]
         ELSE served' = served
  BY ServerKinds
<1>2. /\ calls' = calls
      /\ CallOf(c)' = CallOf(c) /\ Fn(c)' = Fn(c) /\ Handler(c)' = Handler(c)
  BY DEF ServerStep, clientVars, CallOf, Fn, Handler
<1>3. Handler(c).steps \in Seq(StepRec)
  BY <1>1, HandlerKnown
<1>4. \A p \in DOMAIN Handler(c).steps :
              p < ult'[c].pc <=> (p < ult[c].pc \/ p = ult[c].pc)
  BY <1>1, <1>3
<1>5. \A p : Behind(c, p)' <=> Behind(c, p) \/ (p = ult[c].pc /\ Now(c).do = "call")
  BY <1>1, <1>2, <1>4 DEF Behind, Now
<1>6. PICK p \in DOMAIN Handler(c).steps :
        /\ \A q \in DOMAIN Handler(c).steps : Handler(c).steps[q].do = "call" <=> q = p
        /\ \A q \in DOMAIN Handler(c).steps :
             Handler(c).steps[q].do \in {"push", "ipush", "output"} =>
               p < q /\ Handler(c).steps[q].regions \subseteq Handler(c).steps[p].fills
        /\ \A q \in DOMAIN Handler(c).steps :
             Handler(c).steps[q].do \in {"buffer", "pull"} => q < p
  BY DEF AnswersCall, Handler, Fn
<1>7. \A q : Behind(c, q) => q = p /\ p < ult[c].pc
  BY <1>6 DEF Behind
<1>8. ult[c].pc \in Nat /\ p \in Nat
  BY <1>1, <1>3
<1>9. Now(c).do \in {"call", "buffer", "pull"} => ~(p < ult[c].pc)
  BY <1>1, <1>6, <1>8 DEF Now
<1>10. ASSUME Now(c).do \in {"push", "ipush", "output"}
       PROVE  Behind(c, p) /\ Now(c).regions \subseteq Handler(c).steps[p].fills
  BY <1>1, <1>6, <1>10 DEF Now, Behind
<1> QED BY <1>1, <1>2, <1>4, <1>5, <1>7, <1>9, <1>10

LEMMA HoldsKept ==
  ASSUME NEW c \in Clients, Handler(c)' = Handler(c), buf' = buf, ult'[c].buf = ult[c].buf,
         ult'[c].in = ult[c].in, NEW r
  PROVE  Holds(c, r)' = Holds(c, r)
<1>1. InLayout(c, r)' <=> InLayout(c, r)
  BY DEF InLayout
<1>2. Position(c, r)' = Position(c, r)
  BY DEF Position
<1>3. CASE InLayout(c, r)
  BY <1>1, <1>2, <1>3 DEF Holds
<1>4. CASE ~InLayout(c, r)
  BY <1>1, <1>4 DEF Holds
<1> QED BY <1>3, <1>4

LEMMA CollectsServer ==
  ASSUME Inv, NEW c \in Clients, AnswersCall(CallOf(c)), Collects(c), ServerStep(c),
         ult'[c].run = "steps"
  PROVE  Collects(c)'
<1>1. /\ CallOf(c)' = CallOf(c) /\ Fn(c)' = Fn(c) /\ Handler(c)' = Handler(c)
      /\ calls' = calls
      /\ ult[c].run = "steps" /\ ult[c].pc \in DOMAIN Handler(c).steps
      /\ ult'[c].ret = ult[c].ret
      /\ \A p \in DOMAIN Handler(c).steps :
           p < ult'[c].pc <=> (p < ult[c].pc \/ p = ult[c].pc)
      /\ \A p : Behind(c, p)' <=> Behind(c, p) \/ (p = ult[c].pc /\ Now(c).do = "call")
      /\ Now(c).do \in {"call", "buffer", "pull"} => \A p : ~Behind(c, p)
      /\ Now(c).do \in {"push", "ipush", "output"} => \E p :
           Behind(c, p) /\ Now(c).regions \subseteq Handler(c).steps[p].fills
      /\ IF Now(c).do = "call" THEN served' = [served EXCEPT ![c] = @ + 1]
         ELSE served' = served
  BY BehindNext
<1>2. /\ served \in [Clients -> Nat] /\ mem \in [Clients -> Memory]
      /\ ult[c].out \in Memory
  BY DEF Inv, TypeInv, UltRec
<1>3. served'[c] = IF \E p \in DOMAIN Handler(c).steps : Behind(c, p)' THEN 1 ELSE 0
  <2>1. CASE Now(c).do = "call"
    <3>1. served[c] = 0 /\ served'[c] = 1
      BY <1>1, <1>2, <2>1 DEF Collects
    <3> QED BY <1>1, <2>1, <3>1
  <2>2. CASE Now(c).do # "call"
    BY <1>1, <2>2 DEF Collects
  <2> QED BY <2>1, <2>2
<1>4. OnlyAnswers(c, ult[c].out) /\ SamePlaces(CallOf(c))
  BY DEF Collects, AnswersCall
<1>5. ASSUME Now(c).do \in {"push", "ipush", "output"},
             buf' = buf, ult'[c].buf = ult[c].buf, ult'[c].in = ult[c].in
      PROVE  \A p \in DOMAIN Handler(c).steps : Behind(c, p)' =>
               \A r \in Handler(c).steps[p].fills : Holds(c, r)' = Answer(c, calls[c], r)
  BY <1>1, <1>5, HoldsKept DEF Collects
<1>6. CASE ~Answers(Now(c))
  <2>1. /\ mem' = mem /\ flying' = flying /\ ult'[c].out = ult[c].out
        /\ ult'[c].in = ult[c].in
        /\ Now(c).do \notin {"buffer", "pull"} => buf' = buf /\ ult'[c].buf = ult[c].buf
    BY <1>1, <1>6, OtherSteps
  <2>2. Now(c).do # "call"
        /\ \A r : ~Brings(CallOf(c), Now(c), r)
    BY <1>6 DEF Answers, Brings
  <2>3. \A p \in DOMAIN Handler(c).steps : Behind(c, p)' =>
          \A r \in Handler(c).steps[p].fills : Holds(c, r)' = Answer(c, calls[c], r)
    BY <1>1, <2>1, <2>2, HoldsKept DEF Collects
  <2>4. \A r : Arrived(c, r) => Arrived(c, r)'
    BY <1>1, <2>1 DEF Arrived
  <2>5. \A q \in DOMAIN Handler(c).steps : \A r \in Regions :
          q < ult'[c].pc /\ Brings(CallOf(c), Handler(c).steps[q], r) => Arrived(c, r)'
    BY <1>1, <2>2, <2>4 DEF Collects, Now
  <2>6. OnlyAnswers(c, ult[c].out)'
    BY <1>1, <1>4, <2>1 DEF OnlyAnswers
  <2>7. \A f \in flying' : f.to = c => \E p \in DOMAIN Handler(c).steps :
          Behind(c, p)' /\ f.regions \subseteq Handler(c).steps[p].fills
    BY <1>1, <2>1 DEF Collects
  <2>8. ult'[c].ret = "OK"
    BY <1>1 DEF Collects
  <2> QED BY <1>1, <1>3, <2>3, <2>5, <2>6, <2>7, <2>8 DEF Collects
<1>7. CASE Now(c).do = "call"
  <2>1. CallDatabase(c)
    BY <1>7, ActionOf
  <2>2. /\ mem' = mem /\ flying' = flying /\ ult'[c].out = ult[c].out
        /\ \A r \in Now(c).fills : Holds(c, r)' = Answer(c, calls[c], r)
    BY <2>1, CallFills
  <2>3. \A p \in DOMAIN Handler(c).steps : Behind(c, p)' =>
          \A r \in Handler(c).steps[p].fills : Holds(c, r)' = Answer(c, calls[c], r)
    BY <1>1, <1>7, <2>2 DEF Now
  <2>4. \A r : Arrived(c, r) => Arrived(c, r)'
    BY <1>1, <2>2 DEF Arrived
  <2>5. \A r : ~Brings(CallOf(c), Now(c), r)
    BY <1>7 DEF Brings
  <2>6. \A q \in DOMAIN Handler(c).steps : \A r \in Regions :
          q < ult'[c].pc /\ Brings(CallOf(c), Handler(c).steps[q], r) => Arrived(c, r)'
    BY <1>1, <2>4, <2>5 DEF Collects, Now
  <2>7. OnlyAnswers(c, ult[c].out)'
    BY <1>1, <1>4, <2>2 DEF OnlyAnswers
  <2>8. \A f \in flying' : f.to = c => \E p \in DOMAIN Handler(c).steps :
          Behind(c, p)' /\ f.regions \subseteq Handler(c).steps[p].fills
    BY <1>1, <2>2 DEF Collects
  <2>9. ult'[c].ret = "OK"
    BY <1>1 DEF Collects
  <2> QED BY <1>1, <1>3, <2>3, <2>6, <2>7, <2>8, <2>9 DEF Collects
<1>8. CASE Now(c).do = "push"
  <2>1. PushRegions(c)
    BY <1>8, ActionOf
  <2>2. /\ mem'[c] = Pushed(c, ult[c].buf, Now(c).regions) /\ flying' = flying /\ buf' = buf
        /\ ult'[c].out = ult[c].out /\ ult'[c].in = ult[c].in /\ ult'[c].buf = ult[c].buf
    BY <2>1, PushBrings
  <2>3. PICK x : Behind(c, x) /\ Now(c).regions \subseteq Handler(c).steps[x].fills
    BY <1>1, <1>8
  <2>4. \A r \in Regions : mem'[c][r] =
          IF r \in Now(c).regions /\ r \in ToSet(Fn(c).layout)
          THEN Answer(c, calls[c], r) ELSE mem[c][r]
    BY <1>1, <1>4, <2>2, <2>3, PushedAnswers, SMTT(30)
  <2>5. \A r \in Regions : Arrived(c, r) => Arrived(c, r)'
    BY <1>1, <2>2, <2>4, SMTT(30) DEF Arrived
  <2>6. \A r \in Regions : Brings(CallOf(c), Now(c), r) => Arrived(c, r)'
    BY <1>1, <1>8, <2>4 DEF Brings, Arrived, Fn
  <2>7. \A q \in DOMAIN Handler(c).steps : \A r \in Regions :
          q < ult'[c].pc /\ Brings(CallOf(c), Handler(c).steps[q], r) => Arrived(c, r)'
    BY <1>1, <2>5, <2>6 DEF Collects, Now
  <2>8. OnlyAnswers(c, ult[c].out)'
    BY <1>1, <1>4, <2>2 DEF OnlyAnswers
  <2>9. \A f \in flying' : f.to = c => \E p \in DOMAIN Handler(c).steps :
          Behind(c, p)' /\ f.regions \subseteq Handler(c).steps[p].fills
    BY <1>1, <2>2 DEF Collects
  <2>10. ult'[c].ret = "OK"
    BY <1>1 DEF Collects
  <2> QED BY <1>1, <1>3, <1>5, <1>8, <2>2, <2>7, <2>8, <2>9, <2>10 DEF Collects
<1>9. CASE Now(c).do = "ipush"
  <2>1. StartPush(c)
    BY <1>9, ActionOf
  <2>2. /\ mem' = mem /\ buf' = buf
        /\ ult'[c].out = ult[c].out /\ ult'[c].in = ult[c].in /\ ult'[c].buf = ult[c].buf
        /\ \/ flying' = flying /\ CallOf(c).one /\ CallOf(c).absent
           \/ flying' = flying \cup {[to |-> c, from |-> ult[c].buf,
                                      regions |-> Now(c).regions]}
    BY <2>1, StartBrings
  <2>3. PICK x : Behind(c, x) /\ Now(c).regions \subseteq Handler(c).steps[x].fills
    BY <1>1, <1>9
  <2>4. \A r \in Regions : Arrived(c, r) => Arrived(c, r)'
    BY <1>1, <2>2 DEF Arrived
  <2>5. ASSUME NEW r \in Regions, Brings(CallOf(c), Now(c), r) PROVE Arrived(c, r)'
    <3>1. r \in Now(c).regions /\ ~(CallOf(c).one /\ CallOf(c).absent)
      BY <1>9, <2>5 DEF Brings
    <3>2. PICK f : f = [to |-> c, from |-> ult[c].buf, regions |-> Now(c).regions]
      OBVIOUS
    <3>3. f \in flying' /\ f.to = c /\ r \in f.regions
      BY <2>2, <3>1, <3>2
    <3>4. r \in ToSet(Fn(c).layout)'
      BY <1>1, <1>9, <2>5 DEF Brings, Fn
    <3> QED BY <3>3, <3>4 DEF Arrived
  <2>6. \A q \in DOMAIN Handler(c).steps : \A r \in Regions :
          q < ult'[c].pc /\ Brings(CallOf(c), Handler(c).steps[q], r) => Arrived(c, r)'
    BY <1>1, <2>4, <2>5 DEF Collects, Now
  <2>7. OnlyAnswers(c, ult[c].out)'
    BY <1>1, <1>4, <2>2 DEF OnlyAnswers
  <2>8. ASSUME NEW f \in flying', f.to = c
        PROVE  \E p \in DOMAIN Handler(c).steps :
                 Behind(c, p)' /\ f.regions \subseteq Handler(c).steps[p].fills
    <3>1. CASE f \in flying
      BY <1>1, <2>8, <3>1 DEF Collects
    <3>2. CASE f \notin flying
      <4>1. f.regions = Now(c).regions
        BY <2>2, <2>8, <3>2
      <4> QED BY <1>1, <2>3, <4>1 DEF Behind
    <3> QED BY <3>1, <3>2
  <2>9. ult'[c].ret = "OK"
    BY <1>1 DEF Collects
  <2> QED BY <1>1, <1>3, <1>5, <1>9, <2>2, <2>6, <2>7, <2>8, <2>9 DEF Collects
<1>10. CASE Now(c).do = "output"
  <2>1. FillOutput(c)
    BY <1>10, ActionOf
  <2>2. /\ mem' = mem /\ flying' = flying /\ buf' = buf
        /\ ult'[c].in = ult[c].in /\ ult'[c].buf = ult[c].buf
        /\ ult'[c].out = [r \in Regions |-> IF r \in Now(c).regions THEN Holds(c, r)
                                            ELSE ult[c].out[r]]
    BY <2>1, OutputBrings
  <2>3. PICK x : Behind(c, x) /\ Now(c).regions \subseteq Handler(c).steps[x].fills
    BY <1>1, <1>10
  <2>4. \A r \in Now(c).regions : Holds(c, r) = Answer(c, calls[c], r)
    BY <2>3 DEF Collects, Behind
  <2>5. \A r \in Regions : ult'[c].out[r] = IF r \in Now(c).regions
                                            THEN Answer(c, calls[c], r) ELSE ult[c].out[r]
    BY <2>2, <2>4
  <2>6. \A r \in Regions : Arrived(c, r) => Arrived(c, r)'
    BY <1>1, <2>2, <2>5 DEF Arrived
  <2>7. \A r \in Regions : Brings(CallOf(c), Now(c), r) => Arrived(c, r)'
    BY <1>1, <2>5 DEF Brings, Arrived
  <2>8. \A q \in DOMAIN Handler(c).steps : \A r \in Regions :
          q < ult'[c].pc /\ Brings(CallOf(c), Handler(c).steps[q], r) => Arrived(c, r)'
    BY <1>1, <2>6, <2>7 DEF Collects, Now
  <2>9. OnlyAnswers(c, ult[c].out)'
    BY <1>1, <1>4, <2>5 DEF OnlyAnswers
  <2>10. \A f \in flying' : f.to = c => \E p \in DOMAIN Handler(c).steps :
          Behind(c, p)' /\ f.regions \subseteq Handler(c).steps[p].fills
    BY <1>1, <2>2 DEF Collects
  <2>11. ult'[c].ret = "OK"
    BY <1>1 DEF Collects
  <2> QED BY <1>1, <1>3, <1>5, <1>10, <2>2, <2>8, <2>9, <2>10, <2>11 DEF Collects
<1> QED BY <1>6, <1>7, <1>8, <1>9, <1>10 DEF Answers

-----------------------------------------------------------------------------
(* The stack of what is deferred, and what stops a ULT *)

Freed == {"free_input", "free_addr", "release"}

LEMMA NextStepStack ==
  ASSUME TypeInv, NEW c \in Clients, NEW d, NextStep(c, d)
  PROVE  ult'[c].stack = ult[c].stack \o d
<1>1. ult[c] \in UltRec /\ ult \in [Clients -> UltRec]
  BY DEF TypeInv
<1>2. PICK u : u = [ult[c] EXCEPT !.pc = @ + 1, !.stack = @ \o d]
  OBVIOUS
<1>3. ult' = [ult EXCEPT ![c] = u]
  BY <1>2 DEF NextStep
<1>4. u.stack = ult[c].stack \o d
  BY <1>1, <1>2 DEF UltRec
<1> QED BY <1>1, <1>3, <1>4

LEMMA StopStack ==
  ASSUME TypeInv, NEW c \in Clients, NEW ret, Stop(c, ret)
  PROVE  ult'[c].stack = ult[c].stack
<1>1. ult[c] \in UltRec /\ ult \in [Clients -> UltRec]
  BY DEF TypeInv
<1>2. PICK u : u = [ult[c] EXCEPT !.run = "unwind", !.ret = ret]
  OBVIOUS
<1>3. ult' = [ult EXCEPT ![c] = u]
  BY <1>2 DEF Stop
<1>4. u.stack = ult[c].stack
  BY <1>1, <1>2 DEF UltRec
<1> QED BY <1>1, <1>3, <1>4

\* A step defers at most the release of what it has taken.
LEMMA StackGrows ==
  ASSUME Inv, NEW c \in Clients, ServerStep(c)
  PROVE  \/ ult'[c].stack = ult[c].stack
         \/ \E x \in Freed : ult'[c].stack = Append(ult[c].stack, x)
<1> USE DEF Inv
<1>1. ult[c] \in UltRec /\ ult \in [Clients -> UltRec] /\ ult[c].stack \in Seq(Deferrals)
  BY DEF TypeInv, UltRec
<1>2. ASSUME NEW ret, Stop(c, ret) PROVE ult'[c].stack = ult[c].stack
  BY <1>2, StopStack
<1>3. ASSUME NextStep(c, <<>>) PROVE ult'[c].stack = ult[c].stack
  BY <1>1, <1>3, NextStepStack
<1>4. ASSUME NEW x \in Freed, NextStep(c, <<x>>)
      PROVE  ult'[c].stack = Append(ult[c].stack, x)
  <2>1. PICK s \in Seq(Deferrals) : s = ult[c].stack
    BY <1>1
  <2>2. x \in Deferrals
    BY DEF Freed, Deferrals
  <2>3. s \o <<x>> = Append(s, x)
    BY <2>2
  <2>4. ult'[c].stack = ult[c].stack \o <<x>>
    BY <1>4, NextStepStack
  <2> QED BY <2>1, <2>3, <2>4
<1>5. CASE GetInput(c) \/ LookupOrigin(c)
  <2>1. \/ NextStep(c, <<"free_input">>) \/ NextStep(c, <<"free_addr">>)
        \/ Stop(c, "FromMercury")
    BY <1>5 DEF GetInput, LookupOrigin, ServerFails
  <2> QED BY <1>2, <1>4, <2>1 DEF Freed
<1>6. CASE CheckDatabase(c) \/ CheckModeSupported(c) \/ CheckRequest(c) \/ WaitPush(c)
           \/ PullRegions(c) \/ StartPush(c) \/ PushRegions(c)
  <2>1. NextStep(c, <<>>) \/ \E ret : Stop(c, ret)
    BY <1>6 DEF CheckDatabase, CheckModeSupported, CheckRequest, WaitPush, PullRegions,
                StartPush, PushRegions, TransferFails
  <2> QED BY <1>2, <1>3, <2>1
<1>7. CASE GetBuffer(c)
  <2>1. CASE Stop(c, "Allocation")
    BY <1>2, <2>1
  <2>2. CASE \E b \in Buffers \cup {Null} :
          ult' = [ult EXCEPT ![c].pc = @ + 1, ![c].buf = b, ![c].stack = Append(@, "release")]
    <3>1. PICK b \in Buffers \cup {Null} :
          ult' = [ult EXCEPT ![c].pc = @ + 1, ![c].buf = b, ![c].stack = Append(@, "release")]
      BY <2>2
    <3>2. PICK u : u = [ult[c] EXCEPT !.pc = @ + 1, !.buf = b, !.stack = Append(@, "release")]
      OBVIOUS
    <3>3. ult' = [ult EXCEPT ![c] = u]
      BY <3>1, <3>2
    <3>4. u.stack = Append(ult[c].stack, "release")
      BY <1>1, <3>2 DEF UltRec
    <3>5. ult'[c].stack = Append(ult[c].stack, "release")
      BY <1>1, <3>3, <3>4
    <3> QED BY <3>5 DEF Freed
  <2> QED BY <1>7, <2>1, <2>2 DEF GetBuffer
<1>8. CASE CallDatabase(c)
  <2>1. CASE Stop(c, "DatabaseError")
    BY <1>2, <2>1
  <2>2. CASE ~Stop(c, "DatabaseError")
    <3>1. PICK g : g = [r \in Regions |-> IF r \in Now(c).fills /\ ~InLayout(c, r)
                                          THEN Answer(c, calls[c], r) ELSE ult[c].in[r]]
      OBVIOUS
    <3>2. ult' = [ult EXCEPT ![c].pc = @ + 1, ![c].in = g]
      BY <1>1, <1>8, <2>2, <3>1 DEF CallDatabase
    <3>3. PICK u : u = [ult[c] EXCEPT !.pc = @ + 1, !.in = g]
      OBVIOUS
    <3>4. ult' = [ult EXCEPT ![c] = u]
      BY <3>2, <3>3
    <3>5. u.stack = ult[c].stack
      BY <1>1, <3>3 DEF UltRec
    <3> QED BY <1>1, <3>4, <3>5
  <2> QED BY <2>1, <2>2
<1>9. CASE FillOutput(c)
  <2>1. PICK o : o = [r \in Regions |-> IF r \in Now(c).regions THEN Holds(c, r) ELSE ult[c].out[r]]
    OBVIOUS
  <2>2. PICK u : u = [ult[c] EXCEPT !.pc = @ + 1, !.out = o]
    OBVIOUS
  <2>3. ult' = [ult EXCEPT ![c] = u]
    BY <1>9, <2>1, <2>2 DEF FillOutput
  <2>4. u.stack = ult[c].stack
    BY <1>1, <2>2 DEF UltRec
  <2> QED BY <1>1, <2>3, <2>4
<1> QED BY <1>5, <1>6, <1>7, <1>8, <1>9 DEF ServerStep

\* A ULT that stops says why: never that all is well.
LEMMA StopsWithError ==
  ASSUME Inv, NEW c \in Clients, ServerStep(c), ult'[c].run # "steps"
  PROVE  ult'[c].ret \notin {"OK", "KeyNotFound"}
<1> USE DEF Inv
<1>1. ult[c].run = "steps" /\ ult[c] \in UltRec /\ ult \in [Clients -> UltRec]
  BY ServerKinds DEF TypeInv
<1>2. \A d : ~NextStep(c, d)
  BY <1>1, NextStepFields
<1>3. ASSUME NEW ret, ret \notin {"OK", "KeyNotFound"}, Stop(c, ret)
      PROVE  ult'[c].ret \notin {"OK", "KeyNotFound"}
  BY <1>3, StopFields
<1>4. CASE \/ GetInput(c) \/ LookupOrigin(c) \/ PullRegions(c) \/ StartPush(c)
           \/ PushRegions(c) \/ WaitPush(c)
  <2>1. Stop(c, "FromMercury")
    BY <1>2, <1>4 DEF GetInput, LookupOrigin, PullRegions, StartPush, PushRegions, WaitPush,
                      ServerFails, TransferFails
  <2> QED BY <1>3, <2>1
<1>5. CASE CheckDatabase(c) \/ CheckModeSupported(c)
  <2>1. Stop(c, "InvalidDatabase") \/ Stop(c, "ErrMode")
    BY <1>2, <1>5 DEF CheckDatabase, CheckModeSupported
  <2> QED BY <1>3, <2>1
<1>6. CASE CheckRequest(c)
  <2>1. Stop(c, Found(c)) /\ Found(c) # "OK"
    BY <1>2, <1>6 DEF CheckRequest
  <2>2. Found(c) # "KeyNotFound"
    BY DEF Found
  <2> QED BY <1>3, <2>1, <2>2
<1>7. CASE GetBuffer(c)
  <2>1. CASE Stop(c, "Allocation")
    BY <1>3, <2>1
  <2>2. CASE ~Stop(c, "Allocation")
    <3>1. PICK b \in Buffers \cup {Null} :
          ult' = [ult EXCEPT ![c].pc = @ + 1, ![c].buf = b, ![c].stack = Append(@, "release")]
      BY <1>7, <2>2 DEF GetBuffer
    <3>2. PICK u : u = [ult[c] EXCEPT !.pc = @ + 1, !.buf = b, !.stack = Append(@, "release")]
      OBVIOUS
    <3>3. ult' = [ult EXCEPT ![c] = u]
      BY <3>1, <3>2
    <3>4. u.run = "steps"
      BY <1>1, <3>2 DEF UltRec
    <3> QED BY <1>1, <3>3, <3>4
  <2> QED BY <2>1, <2>2
<1>8. CASE CallDatabase(c)
  <2>1. CASE Stop(c, "DatabaseError")
    BY <1>3, <2>1
  <2>2. CASE ~Stop(c, "DatabaseError")
    <3>1. PICK g : g = [r \in Regions |-> IF r \in Now(c).fills /\ ~InLayout(c, r)
                                          THEN Answer(c, calls[c], r) ELSE ult[c].in[r]]
      OBVIOUS
    <3>2. ult' = [ult EXCEPT ![c].pc = @ + 1, ![c].in = g]
      BY <1>1, <1>8, <2>2, <3>1 DEF CallDatabase
    <3>3. PICK u : u = [ult[c] EXCEPT !.pc = @ + 1, !.in = g]
      OBVIOUS
    <3>4. ult' = [ult EXCEPT ![c] = u]
      BY <3>2, <3>3
    <3>5. u.run = "steps"
      BY <1>1, <3>3 DEF UltRec
    <3> QED BY <1>1, <3>4, <3>5
  <2> QED BY <2>1, <2>2
<1>9. CASE FillOutput(c)
  <2>1. PICK o : o = [r \in Regions |-> IF r \in Now(c).regions THEN Holds(c, r) ELSE ult[c].out[r]]
    OBVIOUS
  <2>2. PICK u : u = [ult[c] EXCEPT !.pc = @ + 1, !.out = o]
    OBVIOUS
  <2>3. ult' = [ult EXCEPT ![c] = u]
    BY <1>9, <2>1, <2>2 DEF FillOutput
  <2>4. u.run = "steps"
    BY <1>1, <2>2 DEF UltRec
  <2> QED BY <1>1, <2>3, <2>4
<1> QED BY <1>4, <1>5, <1>6, <1>7, <1>8, <1>9 DEF ServerStep

-----------------------------------------------------------------------------
(* What the caller is told: every step *)

\* The stack while a request is served: what is below the response, and above.
LEMMA StackKept ==
  ASSUME Inv, NEW c \in Clients, RespondsOnce(c), cl[c].run = "waiting", cl'[c].run = "waiting",
         \/ ult'[c].stack = ult[c].stack
         \/ \E x \in Freed : ult'[c].stack = Append(ult[c].stack, x)
  PROVE  RespondsOnce(c)'
<1>1. PICK s \in Seq(Deferrals) : s = ult[c].stack
  BY DEF Inv, TypeInv, UltRec
<1>2. /\ Len(s) >= 3 /\ s[1] # "respond" /\ s[2] # "respond" /\ s[3] = "respond"
      /\ \A n \in 4 .. Len(s) : s[n] \in Freed
  BY <1>1 DEF RespondsOnce, Freed
<1>3. ASSUME NEW x \in Freed, ult'[c].stack = Append(s, x)
      PROVE  RespondsOnce(c)'
  <2>1. PICK t : t = Append(s, x)
    OBVIOUS
  <2>2. x \in Deferrals
    BY DEF Freed, Deferrals
  <2>3. Len(t) = Len(s) + 1 /\ \A n \in 1 .. Len(s) : t[n] = s[n]
    BY <1>1, <2>1, <2>2
  <2>4. t[Len(s) + 1] = x
    BY <1>1, <2>1, <2>2
  <2>5. Len(s) \in Nat
    BY <1>1
  <2>6. \A n \in 4 .. Len(t) : n = Len(s) + 1 \/ n \in 4 .. Len(s)
    BY <2>3, <2>5
  <2>7. \A n \in 4 .. Len(s) : t[n] = s[n]
    BY <2>3, <2>5
  <2>8. \A n \in 4 .. Len(t) : t[n] \in Freed
    BY <1>2, <2>4, <2>6, <2>7
  <2>9. 1 \in 1 .. Len(s) /\ 2 \in 1 .. Len(s) /\ 3 \in 1 .. Len(s) /\ Len(t) >= 3
    BY <1>2, <2>3, <2>5
  <2>10. t[1] # "respond" /\ t[2] # "respond" /\ t[3] = "respond"
    BY <1>2, <2>3, <2>9
  <2>11. ult'[c].stack = t
    BY <1>3, <2>1
  <2> QED BY <2>8, <2>9, <2>10, <2>11 DEF RespondsOnce, Freed
<1>4. CASE ult'[c].stack = s
  BY <1>1, <1>2, <1>4 DEF RespondsOnce, Freed
<1> QED BY <1>1, <1>3, <1>4

\* A request that nothing of has changed.
LEMMA AnsweringKept ==
  ASSUME Inv, NEW c \in Clients, Answering(c), conf' = conf, calls'[c] = calls[c],
         cl'[c] = cl[c], ult'[c] = ult[c], served'[c] = served[c], mem'[c] = mem[c],
         ult[c].buf \in Buffers /\ ult[c].buf # Null => buf'[ult[c].buf] = buf[ult[c].buf],
         \A f \in flying : f.to = c => f \in flying',
         \A f \in flying' : f.to = c => f \in flying
  PROVE  Answering(c)'
<1>1. CallOf(c)' = CallOf(c) /\ Fn(c)' = Fn(c) /\ Handler(c)' = Handler(c)
  BY DEF CallOf, Fn, Handler
<1>2. Owed(c)' = Owed(c)
  BY <1>1 DEF Owed
<1>3. RespondsOnce(c)'
  BY DEF Answering, RespondsOnce
<1>4. ult[c].run = "steps" => Collects(c)'
  BY CollectsKept DEF Answering
<1>5. HasAnswer(c, ult[c].out) => HasAnswer(c, ult[c].out)'
  BY <1>2 DEF HasAnswer, OnlyAnswers, AllThere
<1>6. HasAnswer(c, cl[c].out) => HasAnswer(c, cl[c].out)'
  BY <1>2 DEF HasAnswer, OnlyAnswers, AllThere
<1>7. Answered(c) => Answered(c)'
  BY <1>2 DEF Answered
<1> QED BY <1>1, <1>3, <1>4, <1>5, <1>6, <1>7 DEF Answering

LEMMA AnsweringServer ==
  ASSUME Inv, NEW c \in Clients, AnswersAll(conf), Answering(c), ServerStep(c)
  PROVE  Answering(c)'
<1>1. ult[c].run = "steps" /\ ult'[c].run \in {"steps", "unwind"}
  BY ServerKinds
<1>2. cl[c].run = "waiting" /\ AnswersCall(CallOf(c))
  BY <1>1, HandlerKnown DEF Inv, Control
<1>3. cl' = cl
  BY DEF ServerStep, clientVars
<1>4. RespondsOnce(c)'
  BY <1>2, <1>3, StackGrows, StackKept DEF Answering
<1>5. ult'[c].run = "steps" => Collects(c)'
  BY <1>1, <1>2, CollectsServer DEF Answering
<1>6. ult'[c].run = "unwind" => ult'[c].ret \notin {"OK", "KeyNotFound"}
  BY StopsWithError
<1> QED BY <1>2, <1>3, <1>4, <1>5, <1>6 DEF Answering

\* A ULT that is through has all that is owed.
LEMMA AllCollected ==
  ASSUME Inv, Flights, NEW c \in Clients, AnswersAll(conf), Collects(c), ult[c].run = "steps",
         ult[c].pc > Len(Handler(c).steps)
  PROVE  HasAnswer(c, ult[c].out)
<1>1. AnswersCall(CallOf(c)) /\ Handler(c).steps \in Seq(StepRec)
  BY HandlerKnown
<1>2. ult[c].pc \in Nat
  BY DEF Inv, TypeInv, UltRec
<1>3. \A q \in DOMAIN Handler(c).steps : q < ult[c].pc
  BY <1>1, <1>2
<1>4. served[c] = 1
  <2>1. PICK p \in DOMAIN Handler(c).steps : Handler(c).steps[p].do = "call"
    BY <1>1 DEF AnswersCall, Handler, Fn
  <2> QED BY <1>3, <2>1 DEF Collects, Behind
<1>5. \A f \in flying : f.to # c
  <2>1. ASSUME NEW f \in flying, f.to = c PROVE FALSE
    <3>1. PICK w \in DOMAIN Handler(c).steps : ult[c].pc <= w
      BY <2>1 DEF Flights, InFlight
    <3>2. w \in Nat /\ w < ult[c].pc
      BY <1>1, <1>3, <3>1
    <3> QED BY <1>2, <3>1, <3>2
  <2> QED BY <2>1
<1>6. ASSUME NEW r \in Owed(c)
      PROVE  Answer(c, calls[c], r) \in {mem[c][r], ult[c].out[r]}
  <2>1. r \in OwedBy(CallOf(c))
    BY DEF Owed, OwedBy, Fn
  <2>2. PICK q \in DOMAIN Handler(c).steps : Brings(CallOf(c), Handler(c).steps[q], r)
    BY <1>1, <2>1 DEF AnswersCall, Handler, Fn
  <2>3. r \in Regions
    <3>1. Handler(c).steps[q] \in StepRec
      BY <1>1
    <3> QED BY <2>2, <3>1 DEF Brings, StepRec
  <2>4. Arrived(c, r)
    BY <1>3, <2>2, <2>3 DEF Collects
  <2> QED BY <1>5, <2>4 DEF Arrived
<1> QED BY <1>4, <1>6 DEF HasAnswer, AllThere, Collects

\* What is deferred runs from the top: the response before what it needs goes.
LEMMA StackPopped ==
  ASSUME Inv, NEW c \in Clients, NEW what, RespondsOnce(c), Unwinding(c, what)
  PROVE  /\ cl[c].run = "waiting" /\ "respond" \notin what =>
              LET s == Front(ult[c].stack)
              IN  /\ what \cap Freed # {}
                  /\ Len(s) >= 3 /\ s[1] # "respond" /\ s[2] # "respond" /\ s[3] = "respond"
                  /\ \A n \in 4 .. Len(s) : s[n] \in Freed
         /\ what = {"respond"} =>
              /\ cl[c].run = "waiting"
              /\ \A n \in DOMAIN Front(ult[c].stack) : Front(ult[c].stack)[n] # "respond"
         /\ cl[c].run # "waiting" =>
              \A n \in DOMAIN Front(ult[c].stack) : Front(ult[c].stack)[n] # "respond"
<1>1. /\ ult[c].stack \in Seq(Deferrals) /\ ult[c].stack # <<>>
      /\ Last(ult[c].stack) \in what
  BY UnwindKnown
<1>2. PICK q \in Seq(Deferrals) : q = ult[c].stack
  BY <1>1
<1>3. PICK s : s = Front(q)
  OBVIOUS
<1>4. /\ DOMAIN s = 1 .. Len(q) - 1 /\ DOMAIN q = 1 .. Len(q) /\ Len(q) \in Nat \ {0}
      /\ q[Len(q)] \in what
      /\ \A n \in DOMAIN s : s[n] = q[n]
  BY <1>1, <1>2, <1>3, LastDeferred
<1>5. s \in Seq(Deferrals) /\ Len(s) = Len(q) - 1
  <2>1. s = SubSeq(q, 1, Len(q) - 1)
    BY <1>3 DEF Front
  <2>2. Len(q) - 1 \in Nat /\ Len(q) - 1 <= Len(q)
    BY <1>4
  <2> QED BY <1>2, <2>1, <2>2
<1>6. CASE cl[c].run = "waiting"
  <2>1. /\ Len(q) >= 3 /\ q[1] # "respond" /\ q[2] # "respond" /\ q[3] = "respond"
        /\ \A n \in 4 .. Len(q) : q[n] \in Freed
    BY <1>2, <1>6 DEF RespondsOnce, Freed
  <2>2. ASSUME "respond" \notin what
        PROVE  /\ what \cap Freed # {}
               /\ Len(s) >= 3 /\ s[1] # "respond" /\ s[2] # "respond" /\ s[3] = "respond"
               /\ \A n \in 4 .. Len(s) : s[n] \in Freed
    <3>1. Len(q) # 3
      BY <1>4, <2>1, <2>2
    <3>2. Len(q) >= 4
      BY <1>4, <2>1, <3>1
    <3>3. Len(q) \in 4 .. Len(q)
      BY <1>4, <3>2
    <3>4. what \cap Freed # {}
      BY <1>4, <2>1, <3>3
    <3>5. Len(s) >= 3 /\ 1 \in DOMAIN s /\ 2 \in DOMAIN s /\ 3 \in DOMAIN s
      BY <1>4, <1>5, <3>2
    <3>6. \A n \in 4 .. Len(s) : n \in DOMAIN s /\ n \in 4 .. Len(q)
      BY <1>4, <1>5
    <3> QED BY <1>4, <2>1, <3>4, <3>5, <3>6
  <2>3. ASSUME what = {"respond"}
        PROVE  \A n \in DOMAIN s : s[n] # "respond"
    <3>1. ~(Len(q) >= 4)
      <4>1. ASSUME Len(q) >= 4 PROVE FALSE
        <5>1. Len(q) \in 4 .. Len(q)
          BY <1>4, <4>1
        <5> QED BY <1>4, <2>1, <2>3, <5>1 DEF Freed
      <4> QED BY <4>1
    <3>2. DOMAIN s = {1, 2}
      BY <1>4, <2>1, <3>1
    <3> QED BY <1>4, <2>1, <3>2
  <2> QED BY <1>2, <1>3, <1>6, <2>2, <2>3
<1>7. CASE cl[c].run # "waiting"
  <2>1. \A n \in DOMAIN q : q[n] # "respond"
    BY <1>2, <1>7 DEF RespondsOnce
  <2>2. what # {"respond"}
    BY <1>4, <2>1
  <2>3. \A n \in DOMAIN s : s[n] # "respond"
    BY <1>4, <2>1
  <2> QED BY <1>2, <1>3, <1>7, <2>2, <2>3
<1> QED BY <1>6, <1>7

LEMMA AnsweringEnd ==
  ASSUME Inv, Flights, NEW c \in Clients, AnswersAll(conf), Answering(c),
         ReleaseBuffer(c) \/ FreeRequest(c) \/ Respond(c) \/ EndUlt(c)
  PROVE  Answering(c)'
<1>1. PICK what : /\ Unwinding(c, what)
                  /\ \/ ReleaseBuffer(c) /\ what = {"release"}
                     \/ FreeRequest(c) /\ what = {"free_input", "free_addr"}
                     \/ Respond(c) /\ what = {"respond"}
                     \/ EndUlt(c) /\ what = {"locals", "destroy"}
  BY DEF ReleaseBuffer, FreeRequest, Respond, EndUlt
<1>2. /\ UNCHANGED <<conf, calls, mem, served>>
      /\ ult \in [Clients -> UltRec] /\ cl \in [Clients -> CallRec]
      /\ ult[c] \in UltRec /\ cl[c] \in CallRec
  BY DEF ReleaseBuffer, FreeRequest, Respond, EndUlt, clientVars, Inv, TypeInv
<1>3. CallOf(c)' = CallOf(c) /\ Fn(c)' = Fn(c) /\ Handler(c)' = Handler(c)
      /\ Owed(c)' = Owed(c)
  BY <1>2 DEF CallOf, Fn, Handler, Owed
<1>4. RespondsOnce(c)
  BY DEF Answering
<1>5. /\ Popped(c) \in UltRec /\ Popped(c).run = "unwind"
      /\ Popped(c).stack = Front(ult[c].stack) /\ ult[c].run \in {"steps", "unwind"}
  BY <1>1, UnwindKnown
<1>6. Popped(c).ret = ult[c].ret /\ Popped(c).out = ult[c].out
  BY <1>2 DEF Popped, UltRec
\* Whether it has just done its last step or not, its answer is complete.
<1>7. cl[c].run = "waiting" =>
        ult[c].ret # "KeyNotFound" /\ (ult[c].ret = "OK" => HasAnswer(c, ult[c].out))
  <2>1. CASE ult[c].run = "steps"
    <3>1. ult[c].pc > Len(Handler(c).steps)
      BY <1>1, <2>1 DEF Unwinding
    <3>2. Collects(c)
      BY <2>1 DEF Answering
    <3> QED BY <2>1, <3>1, <3>2, AllCollected DEF Collects
  <2>2. CASE ult[c].run = "unwind"
    BY <2>2 DEF Answering
  <2> QED BY <1>5, <2>1, <2>2
<1>8. HasAnswer(c, ult[c].out) =>
        served'[c] = 1 /\ (\A r \in Regions : ult[c].out[r] \in {Junk, Answer(c, calls'[c], r)})
        /\ (\A r \in Owed(c)' : Answer(c, calls'[c], r) \in {mem'[c][r], ult[c].out[r]})
  BY <1>2, <1>3 DEF HasAnswer, OnlyAnswers, AllThere
<1>9. CASE ReleaseBuffer(c) \/ FreeRequest(c) \/ EndUlt(c)
  <2>1. cl' = cl /\ "respond" \notin what
    BY <1>1, <1>9 DEF ReleaseBuffer, FreeRequest, Respond, EndUlt, clientVars, Unwinding
  <2>2. PICK u : u = ult'[c]
    OBVIOUS
  <2>3. /\ u.run \in {"none", "unwind"}
        /\ u.stack = Front(ult[c].stack) \/ u.stack = <<>>
        /\ cl[c].run = "waiting" =>
             u.ret = ult[c].ret /\ u.out = ult[c].out /\ u.stack = Front(ult[c].stack)
    <3>1. CASE ReleaseBuffer(c)
      <4>1. PICK v : v = [Popped(c) EXCEPT !.buf = Null]
        OBVIOUS
      <4>2. u = v
        BY <1>2, <2>2, <3>1, <4>1 DEF ReleaseBuffer
      <4>3. v.run = "unwind" /\ v.stack = Popped(c).stack /\ v.ret = Popped(c).ret
            /\ v.out = Popped(c).out
        BY <1>5, <4>1 DEF UltRec
      <4> QED BY <1>5, <1>6, <4>2, <4>3
    <3>2. CASE FreeRequest(c)
      <4>1. u = Popped(c)
        BY <1>2, <2>2, <3>2 DEF FreeRequest
      <4> QED BY <1>5, <1>6, <4>1
    <3>3. CASE EndUlt(c)
      <4>1. cl[c].run # "waiting"
        <5>1. Unwinding(c, {"locals", "destroy"})
          BY <3>3 DEF EndUlt
        <5>2. {"locals", "destroy"} \cap Freed = {} /\ "respond" \notin {"locals", "destroy"}
          BY DEF Freed
        <5> QED BY <1>4, <5>1, <5>2, StackPopped
      <4>2. PICK v : v = [Popped(c) EXCEPT !.out = Blank]
        OBVIOUS
      <4>3. u = NoUlt \/ u = v \/ u = Popped(c)
        BY <1>2, <2>2, <3>3, <4>2 DEF EndUlt
      <4>4. v.run = "unwind" /\ v.stack = Popped(c).stack
        BY <1>5, <4>2 DEF UltRec
      <4>5. NoUlt.run = "none" /\ NoUlt.stack = <<>>
        BY DEF NoUlt
      <4> QED BY <1>5, <4>1, <4>3, <4>4, <4>5
    <3> QED BY <1>9, <3>1, <3>2, <3>3
  <2>4. /\ cl[c].run = "waiting" =>
             /\ Len(u.stack) >= 3 /\ u.stack[1] # "respond" /\ u.stack[2] # "respond"
             /\ u.stack[3] = "respond"
             /\ \A n \in 4 .. Len(u.stack) : u.stack[n] \in Freed
        /\ cl[c].run # "waiting" => \A n \in DOMAIN u.stack : u.stack[n] # "respond"
    <3>1. \A n \in DOMAIN <<>> : <<>>[n] # "respond"
      OBVIOUS
    <3>2. CASE cl[c].run = "waiting"
      <4>1. u.stack = Front(ult[c].stack)
        BY <2>3, <3>2
      <4> QED BY <1>1, <1>4, <2>1, <3>2, <4>1, StackPopped
    <3>3. CASE cl[c].run # "waiting"
      BY <1>1, <1>4, <2>3, <3>1, <3>3, StackPopped
    <3> QED BY <3>2, <3>3
  <2>5. RespondsOnce(c)'
    BY <2>1, <2>2, <2>4 DEF RespondsOnce, Freed
  <2>6. ult'[c].run # "steps"
    BY <2>2, <2>3
  <2>7. cl[c].run = "waiting" => ult'[c].ret # "KeyNotFound"
                          /\ (ult'[c].ret = "OK" => HasAnswer(c, ult[c].out)')
    <3>1. ASSUME cl[c].run = "waiting" PROVE ult'[c].out = ult[c].out /\ ult'[c].ret = ult[c].ret
      BY <2>2, <2>3, <3>1
    <3> QED BY <1>7, <1>8, <3>1 DEF HasAnswer, OnlyAnswers, AllThere
  <2>8. HasAnswer(c, cl[c].out) => HasAnswer(c, cl[c].out)'
    BY <1>2, <1>3, <2>1 DEF HasAnswer, OnlyAnswers, AllThere
  <2>9. Answered(c) => Answered(c)'
    BY <1>2, <1>3 DEF Answered
  <2> QED BY <1>2, <1>3, <2>1, <2>5, <2>6, <2>7, <2>8, <2>9 DEF Answering
<1>10. CASE Respond(c)
  <2>1. Unwinding(c, {"respond"}) /\ ult' = [ult EXCEPT ![c] = Popped(c)]
    BY <1>10 DEF Respond
  <2>2. ult'[c] = Popped(c) /\ cl[c].run = "waiting"
    BY <1>2, <1>4, <2>1, StackPopped
  <2>3. \A n \in DOMAIN Popped(c).stack : Popped(c).stack[n] # "respond"
    BY <1>4, <1>5, <2>1, StackPopped
  <2>4. CASE cl' = [cl EXCEPT ![c].run = "answered", ![c].ret = ult[c].ret, ![c].out = ult[c].out]
    <3>1. PICK k : k = [cl[c] EXCEPT !.run = "answered", !.ret = ult[c].ret, !.out = ult[c].out]
      OBVIOUS
    <3>2. cl' = [cl EXCEPT ![c] = k]
      BY <2>4, <3>1
    <3>3. k.run = "answered" /\ k.ret = ult[c].ret /\ k.out = ult[c].out
      BY <1>2, <3>1 DEF CallRec
    <3>4. cl'[c].run = "answered" /\ cl'[c].ret = ult[c].ret /\ cl'[c].out = ult[c].out
      BY <1>2, <3>2, <3>3
    <3>5. RespondsOnce(c)'
      BY <2>2, <2>3, <3>4 DEF RespondsOnce
    <3>6. ult[c].ret = "OK" => HasAnswer(c, cl[c].out)'
      BY <1>7, <1>8, <2>2, <3>4 DEF HasAnswer, OnlyAnswers, AllThere
    <3>7. ult'[c].run # "steps"
      BY <1>5, <2>2
    <3> QED BY <1>7, <2>2, <3>4, <3>5, <3>6, <3>7 DEF Answering
  <2>5. CASE ClientReturns(c, "FromMercury")
    <3>1. cl'[c].run = "back" /\ cl'[c].ret = "FromMercury"
      BY <1>2, <2>5 DEF ClientReturns, CallRec
    <3>2. RespondsOnce(c)'
      BY <2>2, <2>3, <3>1 DEF RespondsOnce
    <3>3. ult'[c].run # "steps"
      BY <1>5, <2>2
    <3> QED BY <3>1, <3>2, <3>3 DEF Answering
  <2> QED BY <1>10, <2>4, <2>5 DEF Respond
<1> QED BY <1>9, <1>10

LEMMA AnsweringClient ==
  ASSUME Inv, Flights, NEW c \in Clients, AnswersAll(conf), Answering(c),
         Begin(c) \/ ClientStep(c),
         \A r \in Regions : Answer(c, calls[c], r) # Junk
  PROVE  Answering(c)'
<1> USE DEF Inv
<1>1. conf' = conf
  BY DEF Begin, ClientStep, ClientLocalStep, GetOutput, Return
<1>2. /\ calls \in [Clients -> Nat] /\ cl \in [Clients -> CallRec] /\ ult \in [Clients -> UltRec]
      /\ mem \in [Clients -> Memory] /\ served \in [Clients -> Nat] /\ cl[c] \in CallRec
  BY DEF TypeInv
<1>3. RespondsOnce(c) /\ (cl[c].run = "steps" => served[c] = 0 /\ ult[c].run = "none")
  BY DEF Answering, Control
<1>4. ASSUME cl'[c].run = "steps", cl[c].run # "waiting", ult' = ult, served'[c] = 0,
             ult[c].run = "none"
      PROVE  Answering(c)'
  <2>1. RespondsOnce(c)'
    BY <1>3, <1>4 DEF RespondsOnce
  <2> QED BY <1>4, <2>1 DEF Answering
<1>5. ASSUME cl'[c].run = "back", cl[c].run # "waiting", ult' = ult, ult[c].run # "steps",
             cl'[c].ret \in {"OK", "KeyNotFound"} /\ CallOf(c)'.bad # "nothing"
               => served'[c] = 1 /\ Answered(c)'
      PROVE  Answering(c)'
  <2>1. RespondsOnce(c)'
    BY <1>3, <1>5 DEF RespondsOnce
  <2> QED BY <1>5, <2>1 DEF Answering
<1>6. CASE Begin(c)
  <2>1. cl'[c].run = "steps" /\ cl[c].run = "idle" /\ ult[c].run = "none" /\ ult' = ult
        /\ served'[c] = 0
    BY <1>2, <1>6 DEF Begin, NoCall
  <2> QED BY <1>4, <2>1
<1>7. CASE ClientLocalStep(c)
  <2>1. cl[c].run = "steps" /\ UNCHANGED <<mem, calls, served>>
    BY <1>7 DEF ClientLocalStep, CheckArgs, Expose, CheckMode, CreateHandle, Forward,
                AtClient, ClientFails
  <2>2. CallOf(c)' = CallOf(c)
    BY <1>1, <2>1 DEF CallOf
  <2>3. CASE cl' = [cl EXCEPT ![c].run = "waiting"]
    <3>1. Forward(c)
      <4>1. cl'[c].run = "waiting"
        BY <1>2, <2>3 DEF CallRec
      <4>2. ~ClientNext(c) /\ \A ret : ~ClientReturns(c, ret)
        BY <1>2, <2>1, <4>1 DEF ClientNext, ClientReturns, CallRec
      <4> QED BY <1>7, <4>2 DEF ClientLocalStep, CheckArgs, Expose, CheckMode, CreateHandle,
                                ClientFails
    <3>2. cl'[c].run = "waiting"
      BY <1>2, <2>3 DEF CallRec
    <3>3. \A ret : ~ClientReturns(c, ret)
      BY <1>2, <3>2 DEF ClientReturns, CallRec
    <3>4. PICK i : ult' = [ult EXCEPT ![c] =
               [NoUlt EXCEPT !.run = "steps", !.stack = FirstDeferred, !.in = i]]
      BY <3>1, <3>3 DEF Forward, ClientFails
    <3>5. PICK u : u = [NoUlt EXCEPT !.run = "steps", !.stack = FirstDeferred, !.in = i]
      OBVIOUS
    <3>6. u.run = "steps" /\ u.stack = FirstDeferred /\ u.pc = 1 /\ u.ret = "OK" /\ u.out = Blank
      BY <3>5 DEF NoUlt
    <3>7. ult'[c] = u
      BY <1>2, <3>4, <3>5
    <3>8. RespondsOnce(c)'
      <4>1. PICK s : s = <<"locals", "destroy", "respond">>
        OBVIOUS
      <4>2. ult'[c].stack = s
        BY <3>6, <3>7, <4>1 DEF FirstDeferred
      <4>3. Len(s) = 3 /\ s[1] # "respond" /\ s[2] # "respond" /\ s[3] = "respond"
        BY <4>1
      <4> QED BY <3>2, <4>2, <4>3 DEF RespondsOnce
    <3>9. Collects(c)'
      <4>1. CallOf(c)' = CallOf(c) /\ Fn(c)' = Fn(c) /\ Handler(c)' = Handler(c)
        BY <2>2 DEF Fn, Handler
      <4>2. Handler(c).steps \in Seq(StepRec)
        BY <2>1, HandlerKnown
      <4>3. \A p \in DOMAIN Handler(c).steps : ~(p < 1)
        BY <4>2
      <4>4. \A p : ~Behind(c, p)'
        BY <3>6, <3>7, <4>1, <4>3 DEF Behind
      <4>5. \A f \in flying' : f.to = c => FALSE
        <5>1. flying' = flying /\ ult[c].run = "none"
          BY <1>3, <1>7, <2>1 DEF ClientLocalStep
        <5> QED BY <5>1 DEF Flights
      <4>6. OnlyAnswers(c, ult[c].out)'
        BY <3>6, <3>7 DEF OnlyAnswers, Blank
      <4>7. served'[c] = 0
        BY <1>3, <2>1
      <4> QED BY <3>6, <3>7, <4>1, <4>3, <4>4, <4>5, <4>6, <4>7 DEF Collects
    <3> QED BY <3>2, <3>6, <3>7, <3>8, <3>9 DEF Answering
  <2>4. CASE ClientNext(c) /\ ult' = ult
    <3>1. cl'[c].run = "steps"
      BY <1>2, <2>1, <2>4 DEF ClientNext, CallRec
    <3> QED BY <1>3, <1>4, <2>1, <2>4, <3>1
  <2>5. CASE /\ ult' = ult
             /\ \E ret : /\ ClientReturns(c, ret) /\ ret # "KeyNotFound"
                         /\ ret = "OK" => CallOf(c).bad = "nothing"
    <3>1. PICK ret : /\ ClientReturns(c, ret) /\ ret # "KeyNotFound"
                     /\ ret = "OK" => CallOf(c).bad = "nothing"
      BY <2>5
    <3>2. cl'[c].run = "back" /\ cl'[c].ret = ret
      BY <1>2, <3>1 DEF ClientReturns, CallRec
    <3> QED BY <1>3, <1>5, <2>1, <2>2, <2>5, <3>1, <3>2
  <2>6. \/ cl' = [cl EXCEPT ![c].run = "waiting"]
        \/ ClientNext(c) /\ ult' = ult
        \/ /\ ult' = ult
           /\ \/ ClientReturns(c, "FromMercury") \/ ClientReturns(c, "InvalidArgs")
              \/ ClientReturns(c, "ErrMode")
              \/ ClientReturns(c, "OK") /\ CallOf(c).bad = "nothing"
    BY <1>7 DEF ClientLocalStep, CheckArgs, Expose, CheckMode, CreateHandle, Forward, ClientFails
  <2> QED BY <2>3, <2>4, <2>5, <2>6
<1>8. CASE GetOutput(c)
  <2>1. /\ cl[c].run = "answered" /\ ult' = ult /\ UNCHANGED <<calls, served>>
        /\ ult[c].run # "steps"
    BY <1>8 DEF GetOutput, Control
  <2>2. CallOf(c)' = CallOf(c) /\ Owed(c)' = Owed(c)
    BY <1>1, <2>1 DEF CallOf, Owed, Fn
  <2>3. CASE ClientReturns(c, "FromMercury")
    <3>1. cl'[c].run = "back" /\ cl'[c].ret = "FromMercury"
      BY <1>2, <2>3 DEF ClientReturns, CallRec
    <3> QED BY <1>5, <2>1, <3>1
  <2>4. CASE ~ClientReturns(c, "FromMercury")
    <3>1. PICK ret : ret = IF Fn(c).single /\ CallOf(c).absent /\ cl[c].ret = "OK"
                           THEN "KeyNotFound" ELSE cl[c].ret
      OBVIOUS
    <3>2. /\ ClientReturns(c, ret)
          /\ mem' = [mem EXCEPT ![c] = [r \in Regions |-> IF cl[c].out[r] # Junk
                                           THEN cl[c].out[r] ELSE mem[c][r]]]
      BY <1>8, <2>4, <3>1 DEF GetOutput
    <3>3. cl'[c].run = "back" /\ cl'[c].ret = ret
      BY <1>2, <3>2 DEF ClientReturns, CallRec
    <3>4. \A r \in Regions : mem'[c][r] = IF cl[c].out[r] # Junk THEN cl[c].out[r] ELSE mem[c][r]
      BY <1>2, <3>2
    <3>5. ASSUME ret \in {"OK", "KeyNotFound"}
          PROVE  served'[c] = 1 /\ Answered(c)'
      <4>1. cl[c].ret = "OK" /\ HasAnswer(c, cl[c].out)
        BY <2>1, <3>1, <3>5 DEF Answering
      <4>2. /\ served[c] = 1
            /\ \A r \in Regions : cl[c].out[r] \in {Junk, Answer(c, calls[c], r)}
            /\ \A r \in Owed(c) : Answer(c, calls[c], r) \in {mem[c][r], cl[c].out[r]}
        BY <4>1 DEF HasAnswer, OnlyAnswers, AllThere
      <4>3. ASSUME NEW r \in Owed(c) PROVE r \in Regions
        <5>1. r \in OwedBy(CallOf(c)) /\ AnswersCall(CallOf(c))
              /\ Handler(c).steps \in Seq(StepRec)
          BY <2>1, HandlerKnown DEF Owed, OwedBy, Fn
        <5>2. PICK q \in DOMAIN Handler(c).steps : Brings(CallOf(c), Handler(c).steps[q], r)
          BY <5>1 DEF AnswersCall, Handler, Fn
        <5>3. Handler(c).steps[q] \in StepRec
          BY <5>1
        <5> QED BY <5>2, <5>3 DEF Brings, StepRec
      <4>4. \A r \in Owed(c) : mem'[c][r] = Answer(c, calls[c], r)
        BY <3>4, <4>2, <4>3
      <4> QED BY <2>1, <2>2, <4>2, <4>4 DEF Answered
    <3> QED BY <1>5, <2>1, <3>3, <3>5
  <2> QED BY <2>3, <2>4
<1>9. CASE Return(c)
  <2>1. cl'[c].run = "idle" /\ cl[c].run = "back" /\ ult' = ult /\ ult[c].run # "steps"
    BY <1>2, <1>9 DEF Return, CallRec, Control
  <2>2. RespondsOnce(c)'
    BY <1>3, <2>1 DEF RespondsOnce
  <2> QED BY <2>1, <2>2 DEF Answering
<1> QED BY <1>6, <1>7, <1>8, <1>9 DEF ClientStep

-----------------------------------------------------------------------------
(* What stops a call that nothing is wrong with *)

\* Only a new call forgets that margo has failed.
LEMMA FaultsStay ==
  ASSUME Inv, NEW c \in Clients, ClientStep(c) \/ UltStep(c), Undisturbed(c)'
  PROVE  Undisturbed(c)
<1>1. conf' = conf /\ calls' = calls
  BY DEF ClientStep, UltStep, ClientLocalStep, CheckArgs, Expose, CheckMode, CreateHandle,
         Forward, ClientFails, GetOutput, Return, ServerStep, ReleaseBuffer, FreeRequest,
         Respond, EndUlt, clientVars
<1>2. faulted' = faulted \/ faulted' = faulted \cup {c}
  BY DEF ClientStep, UltStep, ClientLocalStep, CheckArgs, Expose, CheckMode, CreateHandle,
         Forward, ClientFails, GetOutput, Return, ServerStep, ReleaseBuffer, FreeRequest,
         Respond, EndUlt, GetInput, LookupOrigin, CheckDatabase, CheckModeSupported, GetBuffer,
         PullRegions, CheckRequest, CallDatabase, StartPush, PushRegions, WaitPush, FillOutput,
         ServerFails, TransferFails
<1> QED BY <1>1, <1>2 DEF Undisturbed, CallOf, MayFail

\* A step of such a call's ULT does not stop it.
LEMMA NothingStops ==
  ASSUME Inv, NEW c \in Clients, PermittedAll(conf), Unhindered(c), ServerStep(c),
         Undisturbed(c)'
  PROVE  ult'[c].run = "steps" /\ ult'[c].ret = "OK"
<1> USE DEF Inv
<1>1. /\ ult[c].run = "steps" /\ ult[c].pc \in DOMAIN Handler(c).steps
      /\ \/ ult'[c].run = "steps" /\ ult'[c].ret = ult[c].ret
         \/ ult'[c].run = "unwind"
  BY ServerKinds
<1>2. Undisturbed(c) /\ cl[c].run = "waiting" /\ conf' = conf /\ calls' = calls
  BY <1>1, FaultsStay DEF UltStep, Control, ServerStep, clientVars
<1>3. ult[c].ret = "OK"
  BY <1>1, <1>2 DEF Unhindered
<1>4. CallOf(c).bad = "none" /\ conf.attached /\ c \notin faulted' /\ ~MayFail("call")
  BY <1>2 DEF Undisturbed, CallOf
<1>5. SUFFICES ASSUME ult'[c].run = "unwind" PROVE FALSE
  BY <1>1, <1>3
<1>6. \A d : ~NextStep(c, d)
  BY <1>1, <1>5, NextStepFields
<1>7. Permitted(CallOf(c)) /\ Handler(c).steps \in Seq(StepRec)
  BY <1>1, HandlerKnown
<1>8. Moves(Now(c)) => MayMove(CallOf(c), Now(c)) /\ exposed[c] = Fn(c).access
  BY <1>1, <1>7 DEF Permitted, Unhindered, Now, Handler, Fn
<1>9. \A what : ~ServerFails(c, what)
  BY <1>4 DEF ServerFails
<1>10. \A what, allowed : TransferFails(c, what, allowed) => ~allowed
  BY <1>4 DEF TransferFails
<1>11. Now(c).do \in {"push", "ipush"} => MayPush(c)
  <2>1. ASSUME Now(c).do \in {"push", "ipush"} PROVE MayPush(c)
    <3>1. exposed[c] = "readwrite" /\ Handler(c).buffer = "readwrite"
      BY <1>8, <2>1 DEF Moves, MayMove, Fn, Handler
    <3>2. ult[c].buf \in Buffers
      <4>1. AtServer(c, "push") \/ AtServer(c, "ipush")
        BY <1>1, <1>7, <2>1 DEF AtServer
      <4>2. UsesBuffer(Handler(c), Now(c))
        BY <2>1 DEF UsesBuffer
      <4> QED BY <4>1, <4>2, StepKnown
    <3>3. c \in Holders
      BY <3>2, SetupsAssumption DEF SetupsAssumption, Holders
    <3> QED BY <3>1, <3>3 DEF Held, MayPush
  <2> QED BY <2>1
<1>12. ~GetInput(c) /\ ~LookupOrigin(c) /\ ~WaitPush(c)
  BY <1>6, <1>9 DEF GetInput, LookupOrigin, WaitPush
<1>13. ~CheckDatabase(c) /\ ~CheckModeSupported(c)
  BY <1>4, <1>6 DEF CheckDatabase, CheckModeSupported
<1>14. ~CheckRequest(c)
  <2>1. Found(c) = "OK"
    BY <1>4 DEF Found
  <2> QED BY <1>6, <2>1 DEF CheckRequest
<1>15. ~PushRegions(c)
  <2>1. PushRegions(c) => Now(c).do = "push" /\ TransferFails(c, "push", MayPush(c))
    BY <1>6 DEF PushRegions, AtServer
  <2> QED BY <1>10, <1>11, <2>1
<1>16. ~StartPush(c)
  <2>1. ASSUME StartPush(c) PROVE FALSE
    <3>1. Now(c).do = "ipush" /\ MayPush(c)
      BY <1>11, <2>1 DEF StartPush, AtServer
    <3>2. ~TransferFails(c, "ipush", MayPush(c))
      BY <1>10, <3>1
    <3>3. ~(CallOf(c).one /\ CallOf(c).absent /\ ~Fn(c).packed /\ "vals" \in Now(c).regions)
      BY <1>8, <3>1 DEF Moves, MayMove, Fn
    <3> QED BY <1>6, <2>1, <3>2, <3>3 DEF StartPush
  <2> QED BY <2>1
<1>17. ~PullRegions(c)
  <2>1. ASSUME PullRegions(c) PROVE FALSE
    <3>1. Now(c).do = "pull" /\ RegionsOf(c) # {} /\ TransferFails(c, "pull", MayPull(c))
      BY <1>6, <2>1 DEF PullRegions, AtServer
    <3>2. RegionsOf(c) = Looked(CallOf(c), Now(c))
      BY DEF RegionsOf, Looked, Fn
    <3>3. exposed[c] \in {"readonly", "readwrite"}
      BY <1>8, <3>1, <3>2 DEF Moves, MayMove, Fn
    <3> QED BY <1>10, <3>1, <3>3 DEF MayPull
  <2> QED BY <2>1
<1>18. ult[c] \in UltRec /\ ult \in [Clients -> UltRec]
  BY DEF TypeInv
<1>19. ~GetBuffer(c)
  <2>1. ASSUME GetBuffer(c) PROVE FALSE
    <3>1. PICK b \in Buffers \cup {Null} :
          ult' = [ult EXCEPT ![c].pc = @ + 1, ![c].buf = b, ![c].stack = Append(@, "release")]
      BY <1>4, <2>1 DEF GetBuffer
    <3>2. PICK u : u = [ult[c] EXCEPT !.pc = @ + 1, !.buf = b, !.stack = Append(@, "release")]
      OBVIOUS
    <3>3. ult' = [ult EXCEPT ![c] = u]
      BY <3>1, <3>2
    <3>4. u.run = "steps"
      BY <1>1, <1>18, <3>2 DEF UltRec
    <3> QED BY <1>5, <1>18, <3>3, <3>4
  <2> QED BY <2>1
<1>20. ~CallDatabase(c)
  <2>1. ASSUME CallDatabase(c) PROVE FALSE
    <3>1. PICK g : g = [r \in Regions |-> IF r \in Now(c).fills /\ ~InLayout(c, r)
                                          THEN Answer(c, calls[c], r) ELSE ult[c].in[r]]
      OBVIOUS
    <3>2. ult' = [ult EXCEPT ![c].pc = @ + 1, ![c].in = g]
      BY <1>4, <1>18, <2>1, <3>1 DEF CallDatabase
    <3>3. PICK u : u = [ult[c] EXCEPT !.pc = @ + 1, !.in = g]
      OBVIOUS
    <3>4. ult' = [ult EXCEPT ![c] = u]
      BY <3>2, <3>3
    <3>5. u.run = "steps"
      BY <1>1, <1>18, <3>3 DEF UltRec
    <3> QED BY <1>5, <1>18, <3>4, <3>5
  <2> QED BY <2>1
<1>21. ~FillOutput(c)
  <2>1. ASSUME FillOutput(c) PROVE FALSE
    <3>1. PICK o : o = [r \in Regions |-> IF r \in Now(c).regions THEN Holds(c, r) ELSE ult[c].out[r]]
      OBVIOUS
    <3>2. PICK u : u = [ult[c] EXCEPT !.pc = @ + 1, !.out = o]
      OBVIOUS
    <3>3. ult' = [ult EXCEPT ![c] = u]
      BY <2>1, <3>1, <3>2 DEF FillOutput
    <3>4. u.run = "steps"
      BY <1>1, <1>18, <3>2 DEF UltRec
    <3> QED BY <1>5, <1>18, <3>3, <3>4
  <2> QED BY <2>1
<1> QED BY <1>12, <1>13, <1>14, <1>15, <1>16, <1>17, <1>19, <1>20, <1>21 DEF ServerStep

LEMMA UnhinderedKept ==
  ASSUME NEW c \in Clients, Unhindered(c), conf' = conf, calls'[c] = calls[c],
         cl'[c] = cl[c], ult'[c] = ult[c], exposed'[c] = exposed[c],
         c \in faulted' <=> c \in faulted
  PROVE  Unhindered(c)'
<1>1. CallOf(c)' = CallOf(c) /\ Fn(c)' = Fn(c) /\ Handler(c)' = Handler(c)
  BY DEF CallOf, Fn, Handler
<1>2. Undisturbed(c)' <=> Undisturbed(c)
  BY <1>1 DEF Undisturbed, MayFail
<1> QED BY <1>1, <1>2 DEF Unhindered

LEMMA UnhinderedUlt ==
  ASSUME Inv, NEW c \in Clients, PermittedAll(conf), RespondsOnce(c), Unhindered(c),
         UltStep(c)
  PROVE  Unhindered(c)'
<1> USE DEF Inv
<1>1. conf' = conf /\ calls' = calls /\ exposed' = exposed
  BY UltFrame
<1>2. CallOf(c)' = CallOf(c) /\ Fn(c)' = Fn(c) /\ Handler(c)' = Handler(c)
  BY <1>1 DEF CallOf, Fn, Handler
<1>3. Undisturbed(c)' => Undisturbed(c)
  BY FaultsStay
<1>4. /\ ult \in [Clients -> UltRec] /\ cl \in [Clients -> CallRec]
      /\ ult[c] \in UltRec /\ cl[c] \in CallRec
  BY DEF TypeInv
<1>5. CASE ServerStep(c)
  <2>1. ult[c].run = "steps" /\ cl' = cl /\ cl[c].run = "waiting"
    BY <1>5, ServerKinds DEF ServerStep, clientVars, Control
  <2>2. Undisturbed(c)' => ult'[c].run = "steps" /\ ult'[c].ret = "OK"
    BY <1>5, NothingStops
  <2> QED BY <1>1, <1>2, <2>1, <2>2 DEF Unhindered
<1>6. CASE ReleaseBuffer(c) \/ FreeRequest(c) \/ Respond(c) \/ EndUlt(c)
  <2>1. PICK what : Unwinding(c, what)
    BY <1>6 DEF ReleaseBuffer, FreeRequest, Respond, EndUlt
  <2>2. /\ Popped(c) \in UltRec /\ Popped(c).run = "unwind" /\ ult[c].run \in {"steps", "unwind"}
    BY <2>1, UnwindKnown
  <2>3. Popped(c).ret = ult[c].ret
    BY <1>4 DEF Popped, UltRec
  <2>4. cl[c].run # "steps"
    BY <2>2 DEF Control
  <2>5. cl[c].run = "waiting" /\ Undisturbed(c) => ult[c].ret = "OK"
    BY <2>2 DEF Unhindered
  <2>6. CASE Respond(c)
    <3>1. ult'[c] = Popped(c)
      BY <1>4, <2>6 DEF Respond
    <3>2. cl[c].run = "waiting"
      <4>1. Unwinding(c, {"respond"})
        BY <2>6 DEF Respond
      <4> QED BY <4>1, StackPopped
    <3>3. CASE cl' = [cl EXCEPT ![c].run = "answered", ![c].ret = ult[c].ret, ![c].out = ult[c].out]
      <4>1. PICK k : k = [cl[c] EXCEPT !.run = "answered", !.ret = ult[c].ret, !.out = ult[c].out]
        OBVIOUS
      <4>2. cl' = [cl EXCEPT ![c] = k]
        BY <3>3, <4>1
      <4>3. k.run = "answered" /\ k.ret = ult[c].ret
        BY <1>4, <4>1 DEF CallRec
      <4>4. cl'[c].run = "answered" /\ cl'[c].ret = ult[c].ret
        BY <1>4, <4>2, <4>3
      <4> QED BY <1>1, <1>2, <1>3, <2>2, <2>5, <3>1, <3>2, <4>4 DEF Unhindered
    <3>4. CASE ClientReturns(c, "FromMercury") /\ faulted' = faulted \cup {c}
      <4>1. cl'[c].run = "back" /\ ~Undisturbed(c)'
        BY <1>4, <3>4 DEF ClientReturns, CallRec, Undisturbed
      <4> QED BY <1>1, <1>2, <2>2, <3>1, <4>1 DEF Unhindered
    <3> QED BY <2>6, <3>3, <3>4 DEF Respond
  <2>7. CASE ReleaseBuffer(c) \/ FreeRequest(c) \/ EndUlt(c)
    <3>1. cl' = cl
      BY <2>7 DEF ReleaseBuffer, FreeRequest, EndUlt, clientVars
    <3>2. ult'[c].run \in {"none", "unwind"}
          /\ (ult'[c].run = "unwind" => ult'[c].ret = ult[c].ret)
      <4>1. CASE ReleaseBuffer(c)
        <5>1. PICK v : v = [Popped(c) EXCEPT !.buf = Null]
          OBVIOUS
        <5>2. ult'[c] = v
          BY <1>4, <4>1, <5>1 DEF ReleaseBuffer
        <5>3. v.run = "unwind" /\ v.ret = ult[c].ret
          BY <2>2, <2>3, <5>1 DEF UltRec
        <5> QED BY <5>2, <5>3
      <4>2. CASE FreeRequest(c)
        <5>1. ult'[c] = Popped(c)
          BY <1>4, <4>2 DEF FreeRequest
        <5> QED BY <2>2, <2>3, <5>1
      <4>3. CASE EndUlt(c)
        <5>1. PICK v : v = [Popped(c) EXCEPT !.out = Blank]
          OBVIOUS
        <5>2. ult'[c] = NoUlt \/ ult'[c] = v \/ ult'[c] = Popped(c)
          BY <1>4, <4>3, <5>1 DEF EndUlt
        <5>3. v.run = "unwind" /\ v.ret = ult[c].ret
          BY <2>2, <2>3, <5>1 DEF UltRec
        <5>4. NoUlt.run = "none"
          BY DEF NoUlt
        <5> QED BY <2>2, <2>3, <5>2, <5>3, <5>4
      <4> QED BY <2>7, <4>1, <4>2, <4>3
    <3>3. /\ cl[c].run = "answered" /\ Undisturbed(c) => cl[c].ret = "OK"
          /\ cl[c].run = "back" /\ Undisturbed(c) => cl[c].ret \in {"OK", "KeyNotFound"}
      BY DEF Unhindered
    <3> QED BY <1>1, <1>2, <1>3, <2>4, <2>5, <3>1, <3>2, <3>3 DEF Unhindered
  <2> QED BY <1>6, <2>6, <2>7
<1> QED BY <1>5, <1>6 DEF UltStep

LEMMA UnhinderedClient ==
  ASSUME Inv, NEW c \in Clients, PermittedAll(conf), Unhindered(c), Begin(c) \/ ClientStep(c)
  PROVE  Unhindered(c)'
<1> USE DEF Inv
<1>1. conf' = conf
  BY DEF Begin, ClientStep, ClientLocalStep, GetOutput, Return
<1>2. /\ calls \in [Clients -> Nat] /\ cl \in [Clients -> CallRec] /\ ult \in [Clients -> UltRec]
      /\ cl[c] \in CallRec /\ exposed \in [Clients -> {"none", "readonly", "readwrite"}]
  BY DEF TypeInv
<1>3. CASE Begin(c)
  <2>1. cl'[c] = [NoCall EXCEPT !.run = "steps"] /\ ult' = ult /\ ult[c].run = "none"
    BY <1>2, <1>3 DEF Begin
  <2>2. cl'[c].run = "steps" /\ cl'[c].pc = 1
    BY <2>1 DEF NoCall
  <2>3. \A q \in 1 .. 1 - 1 : FALSE
    OBVIOUS
  <2> QED BY <2>1, <2>2, <2>3 DEF Unhindered
<1>4. CASE ClientLocalStep(c)
  <2>1. /\ cl[c].run = "steps" /\ ult[c].run = "none" /\ UNCHANGED <<mem, calls>>
        /\ cl[c].pc \in DOMAIN Fn(c).steps
    BY <1>4 DEF ClientLocalStep, CheckArgs, Expose, CheckMode, CreateHandle, Forward,
                AtClient, ClientFails, Control
  <2>2. CallOf(c)' = CallOf(c) /\ Fn(c)' = Fn(c) /\ Handler(c)' = Handler(c)
    BY <1>1, <2>1 DEF CallOf, Fn, Handler
  <2>3. Permitted(CallOf(c)) /\ Fn(c).steps \in Seq(STRING) /\ cl[c].pc \in Nat
    BY <1>2, <2>1, HandlerKnown DEF CallRec
  <2>4. \A q \in 1 .. cl[c].pc - 1 :
          q \in DOMAIN Fn(c).steps /\ Fn(c).steps[q] = "expose" => exposed[c] = Fn(c).access
    BY <2>1 DEF Unhindered
  <2>5. Undisturbed(c)' => Undisturbed(c)
    BY <1>4, FaultsStay DEF ClientStep
  <2>6. ASSUME ClientNext(c), ult' = ult,
               Fn(c).steps[cl[c].pc] = "expose" => exposed'[c] = Fn(c).access,
               Fn(c).steps[cl[c].pc] # "expose" => exposed' = exposed
        PROVE  Unhindered(c)'
    <3>1. cl'[c].run = "steps" /\ cl'[c].pc = cl[c].pc + 1
      BY <1>2, <2>1, <2>6 DEF ClientNext, CallRec
    <3>2. \A q \in 1 .. cl'[c].pc - 1 : q = cl[c].pc \/ q \in 1 .. cl[c].pc - 1
      BY <2>3, <3>1
    <3>3. \A q \in 1 .. cl'[c].pc - 1 :
          q \in DOMAIN Fn(c).steps /\ Fn(c).steps[q] = "expose" => exposed'[c] = Fn(c).access
      BY <2>4, <2>6, <3>2
    <3> QED BY <2>1, <2>2, <2>6, <3>1, <3>3 DEF Unhindered
  <2>7. ASSUME NEW ret, ClientReturns(c, ret), ult' = ult, ~Undisturbed(c)'
        PROVE  Unhindered(c)'
    <3>1. cl'[c].run = "back"
      BY <1>2, <2>7 DEF ClientReturns, CallRec
    <3> QED BY <2>1, <2>7, <3>1 DEF Unhindered
  <2>8. ASSUME NEW what, ClientFails(c, what)
        PROVE  Unhindered(c)'
    <3>1. ~Undisturbed(c)'
      BY <2>8 DEF ClientFails, Undisturbed
    <3> QED BY <2>7, <2>8, <3>1 DEF ClientFails
  <2>9. CASE CheckArgs(c)
    <3>1. exposed' = exposed /\ ult' = ult /\ Fn(c).steps[cl[c].pc] # "expose"
      BY <2>9 DEF CheckArgs, AtClient
    <3>2. CASE CallOf(c).bad \in Fn(c).args
      <4>1. ~Undisturbed(c)'
        BY <2>2, <2>3, <3>2 DEF Permitted, Undisturbed, Fn
      <4> QED BY <2>7, <2>9, <3>1, <3>2, <4>1 DEF CheckArgs
    <3>3. CASE CallOf(c).bad \notin Fn(c).args
      BY <2>6, <2>9, <3>1, <3>3 DEF CheckArgs
    <3> QED BY <3>2, <3>3
  <2>10. CASE Expose(c)
    <3>1. CASE ClientNext(c) /\ exposed' = [exposed EXCEPT ![c] = Fn(c).access] /\ ult' = ult
      <4>1. exposed'[c] = Fn(c).access /\ Fn(c).steps[cl[c].pc] = "expose"
        BY <1>2, <2>10, <3>1 DEF Expose, AtClient
      <4> QED BY <2>6, <3>1, <4>1
    <3> QED BY <2>8, <2>10, <3>1 DEF Expose
  <2>11. CASE CheckMode(c)
    <3>1. exposed' = exposed /\ ult' = ult /\ Fn(c).steps[cl[c].pc] # "expose"
      BY <2>11 DEF CheckMode, AtClient
    <3>2. CASE CallOf(c).bad = "modes"
      <4>1. ~Undisturbed(c)'
        BY <2>2, <3>2 DEF Undisturbed
      <4> QED BY <2>7, <2>11, <3>1, <3>2, <4>1 DEF CheckMode
    <3>3. CASE CallOf(c).bad # "modes"
      BY <2>6, <2>11, <3>1, <3>3 DEF CheckMode
    <3> QED BY <3>2, <3>3
  <2>12. CASE CreateHandle(c)
    <3>1. CASE ClientNext(c) /\ exposed' = exposed /\ ult' = ult
      <4>1. Fn(c).steps[cl[c].pc] # "expose"
        BY <2>12 DEF CreateHandle, AtClient
      <4> QED BY <2>6, <3>1, <4>1
    <3> QED BY <2>8, <2>12, <3>1 DEF CreateHandle
  <2>13. CASE Forward(c)
    <3>1. CASE cl' = [cl EXCEPT ![c].run = "waiting"] /\ exposed' = exposed
      <4>1. cl'[c].run = "waiting"
        BY <1>2, <3>1 DEF CallRec
      <4>2. \A ret : ~ClientReturns(c, ret)
        BY <1>2, <4>1 DEF ClientReturns, CallRec
      <4>3. PICK i : ult' = [ult EXCEPT ![c] =
               [NoUlt EXCEPT !.run = "steps", !.stack = FirstDeferred, !.in = i]]
        BY <2>13, <4>2 DEF Forward, ClientFails
      <4>4. PICK u : u = [NoUlt EXCEPT !.run = "steps", !.stack = FirstDeferred, !.in = i]
        OBVIOUS
      <4>5. u.run = "steps" /\ u.ret = "OK"
        BY <4>4 DEF NoUlt
      <4>6. ult'[c] = u
        BY <1>2, <4>3, <4>4
      <4>7. ASSUME NEW p \in DOMAIN Handler(c).steps, Moves(Handler(c).steps[p])
            PROVE  exposed[c] = Fn(c).access
        <5>1. Fn(c).steps[cl[c].pc] = "forward"
          BY <2>13 DEF Forward, AtClient
        <5>2. PICK x \in 1 .. cl[c].pc - 1 : Fn(c).steps[x] = "expose"
          BY <2>1, <2>3, <4>7, <5>1 DEF Permitted, Fn, Handler
        <5>3. x \in DOMAIN Fn(c).steps
          BY <2>1, <2>3
        <5> QED BY <2>4, <5>2, <5>3
      <4> QED BY <2>2, <3>1, <4>1, <4>5, <4>6, <4>7 DEF Unhindered
    <3> QED BY <2>8, <2>13, <3>1 DEF Forward
  <2> QED BY <1>4, <2>9, <2>10, <2>11, <2>12, <2>13 DEF ClientLocalStep
<1>5. CASE GetOutput(c)
  <2>1. cl[c].run = "answered" /\ ult' = ult /\ ult[c].run # "steps"
    BY <1>5 DEF GetOutput, Control
  <2>2. Undisturbed(c)' => Undisturbed(c)
    BY <1>5, FaultsStay DEF ClientStep
  <2>3. CASE ClientReturns(c, "FromMercury") /\ faulted' = faulted \cup {c}
    <3>1. cl'[c].run = "back" /\ ~Undisturbed(c)'
      BY <1>2, <2>3 DEF ClientReturns, CallRec, Undisturbed
    <3> QED BY <2>1, <3>1 DEF Unhindered
  <2>4. CASE ~(ClientReturns(c, "FromMercury") /\ faulted' = faulted \cup {c})
    <3>1. PICK ret : ret = IF Fn(c).single /\ CallOf(c).absent /\ cl[c].ret = "OK"
                           THEN "KeyNotFound" ELSE cl[c].ret
      OBVIOUS
    <3>2. ClientReturns(c, ret)
      BY <1>5, <2>4, <3>1 DEF GetOutput
    <3>3. cl'[c].run = "back" /\ cl'[c].ret = ret
      BY <1>2, <3>2 DEF ClientReturns, CallRec
    <3>4. Undisturbed(c)' => ret \in {"OK", "KeyNotFound"}
      BY <2>1, <2>2, <3>1 DEF Unhindered
    <3> QED BY <2>1, <3>3, <3>4 DEF Unhindered
  <2> QED BY <2>3, <2>4
<1>6. CASE Return(c)
  <2>1. cl'[c].run = "idle" /\ cl[c].run = "back" /\ ult' = ult /\ ult[c].run # "steps"
    BY <1>2, <1>6 DEF Return, CallRec, Control
  <2> QED BY <2>1 DEF Unhindered
<1> QED BY <1>3, <1>4, <1>5, <1>6 DEF ClientStep

-----------------------------------------------------------------------------
(* Every answer arrives *)

JunkApart == Junk \notin Clients \X Nat \X Regions \X {"sent", "answer"}

AnswersSent == \A c \in Clients : Answering(c) /\ Unhindered(c)

\* A completed transfer brings what the database has filled.
LEMMA AnsweringComplete ==
  ASSUME Inv, Flights, NEW f \in flying, Complete(f), AnswersAll(conf), Answering(f.to)
  PROVE  Answering(f.to)'
<1> USE DEF Inv
<1>1. PICK c \in Clients : c = f.to
  BY DEF TypeInv, Transfer
<1>2. /\ UNCHANGED <<conf, calls, cl, ult, buf, served>> /\ flying' = flying \ {f}
      /\ mem' = [mem EXCEPT ![c] = Pushed(c, f.from, f.regions)]
  BY <1>1 DEF Complete, clientVars, cacheVars
<1>3. ult[c].run = "steps" /\ ult[c].buf = f.from /\ cl[c].run = "waiting"
  BY <1>1 DEF Flights, Control
<1>4. /\ CallOf(c)' = CallOf(c) /\ Fn(c)' = Fn(c) /\ Handler(c)' = Handler(c)
      /\ SamePlaces(CallOf(c))
  BY <1>2, <1>3, HandlerKnown DEF CallOf, Fn, Handler, AnswersCall
<1>5. Collects(c) /\ RespondsOnce(c)
  BY <1>1, <1>3 DEF Answering
<1>6. PICK p : Behind(c, p) /\ f.regions \subseteq Handler(c).steps[p].fills
  BY <1>1, <1>5 DEF Collects
<1>7. \A r \in Regions : mem'[c][r] =
        IF r \in f.regions /\ r \in ToSet(Fn(c).layout) THEN Answer(c, calls[c], r)
        ELSE mem[c][r]
  <2>1. mem'[c] = Pushed(c, ult[c].buf, f.regions)
    BY <1>2, <1>3 DEF TypeInv
  <2> QED BY <1>3, <1>4, <1>5, <1>6, <2>1, PushedAnswers
<1>8. \A q : Behind(c, q)' <=> Behind(c, q)
  BY <1>2, <1>4 DEF Behind
<1>9. \A r : Holds(c, r)' = Holds(c, r)
  BY <1>2, <1>4, HoldsKept
<1>10. ASSUME NEW r \in Regions, Arrived(c, r) PROVE Arrived(c, r)'
  <2>1. CASE r \in f.regions /\ r \in ToSet(Fn(c).layout)
    BY <1>2, <1>7, <2>1 DEF Arrived
  <2>2. CASE ~(r \in f.regions /\ r \in ToSet(Fn(c).layout))
    BY <1>2, <1>4, <1>7, <1>10, <2>2 DEF Arrived
  <2> QED BY <2>1, <2>2
<1>11. OnlyAnswers(c, ult[c].out)'
  BY <1>2, <1>5 DEF Collects, OnlyAnswers
<1>12. Collects(c)'
  BY <1>2, <1>4, <1>5, <1>8, <1>9, <1>10, <1>11 DEF Collects
<1>13. RespondsOnce(c)'
  BY <1>2, <1>5 DEF RespondsOnce
<1> QED BY <1>1, <1>2, <1>3, <1>12, <1>13 DEF Answering

\* What a step of one client or its ULT leaves to the others.
LEMMA AnswersOfOthers ==
  ASSUME Inv, Flights, NEW c \in Clients, Begin(c) \/ ClientStep(c) \/ UltStep(c),
         NEW d \in Clients, d # c, Answering(d), Unhindered(d)
  PROVE  Answering(d)' /\ Unhindered(d)'
<1> USE DEF Inv
<1>1. /\ conf' = conf /\ calls'[d] = calls[d] /\ cl'[d] = cl[d] /\ ult'[d] = ult[d]
      /\ served'[d] = served[d] /\ mem'[d] = mem[d] /\ exposed'[d] = exposed[d]
  BY OnlyItsOwn
<1>2. ASSUME ult[d].buf \in Buffers, ult[d].buf # Null
      PROVE  buf'[ult[d].buf] = buf[ult[d].buf]
  <2>1. CASE Begin(c) \/ ClientStep(c)
    BY <2>1 DEF Begin, ClientStep, ClientLocalStep, GetOutput, Return, cacheVars
  <2>2. CASE UltStep(c)
    <3>1. buf[ult[d].buf].at = "used" /\ ult[d].buf # ult[c].buf
      BY <1>2 DEF Held, Holders
    <3> QED BY <1>2, <2>2, <3>1, OtherBuffers
  <2> QED BY <2>1, <2>2
<1>3. flying' = flying \/ flying' = flying \cup {[to |-> c, from |-> ult[c].buf,
                                                 regions |-> Now(c).regions]}
  BY DEF Begin, ClientStep, UltStep, ClientLocalStep, GetOutput, Return, ServerStep,
         ReleaseBuffer, FreeRequest, Respond, EndUlt, GetInput, LookupOrigin, CheckDatabase,
         CheckModeSupported, GetBuffer, PullRegions, CheckRequest, CallDatabase, StartPush,
         PushRegions, WaitPush, FillOutput
<1>4. \A f \in flying : f.to = d => f \in flying'
  BY <1>3
<1>5. \A f \in flying' : f.to = d => f \in flying
  <2>1. \A x, y : [to |-> c, from |-> x, regions |-> y].to = c
    OBVIOUS
  <2> QED BY <1>3, <2>1
<1>6. faulted' \in {faulted, faulted \cup {c}, faulted \ {c}}
  BY DEF Begin, ClientStep, UltStep, ClientLocalStep, CheckArgs, Expose, CheckMode, CreateHandle,
         Forward, ClientFails, GetOutput, Return, ServerStep, ReleaseBuffer, FreeRequest,
         Respond, EndUlt, GetInput, LookupOrigin, CheckDatabase, CheckModeSupported, GetBuffer,
         PullRegions, CheckRequest, CallDatabase, StartPush, PushRegions, WaitPush, FillOutput,
         ServerFails, TransferFails
<1>7. d \in faulted' <=> d \in faulted
  BY <1>6
<1>8. Answering(d)'
  BY <1>1, <1>2, <1>4, <1>5, AnsweringKept
<1>9. Unhindered(d)'
  BY <1>1, <1>7, UnhinderedKept
<1> QED BY <1>8, <1>9

LEMMA AnswersKept ==
  ASSUME Inv, Flights, AnswersSent, JunkApart, AnswersAll(conf), PermittedAll(conf), [Next]_vars
  PROVE  AnswersSent'
<1> USE DEF Inv
<1>1. ASSUME NEW c \in Clients, Begin(c) \/ ClientStep(c) \/ UltStep(c)
      PROVE  AnswersSent'
  <2>1. Answering(c) /\ Unhindered(c) /\ RespondsOnce(c)
    BY DEF AnswersSent, Answering
  <2>2. \A r \in Regions : Answer(c, calls[c], r) # Junk
    BY DEF JunkApart, Answer, TypeInv
  <2>3. Answering(c)'
    <3>1. CASE Begin(c) \/ ClientStep(c)
      BY <2>1, <2>2, <3>1, AnsweringClient
    <3>2. CASE UltStep(c)
      BY <2>1, <3>2, AnsweringServer, AnsweringEnd DEF UltStep
    <3> QED BY <1>1, <3>1, <3>2
  <2>4. Unhindered(c)'
    BY <1>1, <2>1, UnhinderedClient, UnhinderedUlt
  <2>5. \A d \in Clients : d # c => Answering(d)' /\ Unhindered(d)'
    BY <1>1, AnswersOfOthers DEF AnswersSent
  <2> QED BY <2>3, <2>4, <2>5 DEF AnswersSent
<1>2. CASE \E f \in flying : Complete(f)
  <2>1. PICK f \in flying : Complete(f)
    BY <1>2
  <2>2. /\ UNCHANGED <<conf, calls, cl, ult, buf, served, exposed, faulted>> /\ f.to \in Clients
        /\ flying' = flying \ {f}
        /\ mem' = [mem EXCEPT ![f.to] = Pushed(f.to, f.from, f.regions)]
    BY <2>1 DEF Complete, clientVars, cacheVars, TypeInv, Transfer
  <2>3. Answering(f.to)'
    BY <2>1, <2>2, AnsweringComplete DEF AnswersSent
  <2>4. ASSUME NEW d \in Clients, d # f.to
        PROVE  Answering(d)'
    <3>1. mem'[d] = mem[d]
      BY <2>2, <2>4 DEF TypeInv
    <3>2. \A g \in flying : g.to = d => g \in flying'
      BY <2>2, <2>4
    <3>3. \A g \in flying' : g.to = d => g \in flying
      BY <2>2
    <3> QED BY <2>2, <3>1, <3>2, <3>3, AnsweringKept DEF AnswersSent
  <2>5. \A d \in Clients : Unhindered(d)'
    BY <2>2, UnhinderedKept DEF AnswersSent
  <2> QED BY <2>3, <2>4, <2>5 DEF AnswersSent
<1>3. CASE FinalizeCache
  <2>1. /\ UNCHANGED <<conf, calls, cl, exposed, mem, ult, flying, served, faulted>>
        /\ \A c \in Clients : ult[c].run = "none"
    BY <1>3 DEF FinalizeCache, Idle, clientVars
  <2>2. \A c \in Clients : ult[c].buf = Null
    BY <2>1 DEF Deferred, OwnBuffer
  <2> QED BY <2>1, <2>2, AnsweringKept, UnhinderedKept DEF AnswersSent
<1>4. CASE UNCHANGED vars
  <2>1. UNCHANGED <<conf, calls, cl, exposed, mem, ult, flying, served, faulted, buf>>
    BY <1>4 DEF vars
  <2> QED BY <2>1, AnsweringKept, UnhinderedKept DEF AnswersSent
<1> QED BY <1>1, <1>2, <1>3, <1>4 DEF Next

\* A call that returns success has been served once and its caller has the
\* answer to this very call, all that is owed; and a call with nothing wrong
\* with it, during which margo did not fail, says so.  The handlers bring what
\* they owe after they have called the database, from where the function
\* looks for it, which has exposed its memory for it (src/src/server and
\* src/src/client).
THEOREM AnswersArriveHolds ==
  ASSUME JunkApart,
         \A s \in Setups : PushesAndWaits(s) /\ AnswersAll(s) /\ PermittedAll(s)
  PROVE  Spec => []AnswersArrive
<1>1. Init => AnswersSent
  <2> SUFFICES ASSUME Init, NEW c \in Clients PROVE Answering(c) /\ Unhindered(c)
    BY DEF AnswersSent
  <2>1. cl[c] = NoCall /\ ult[c] = NoUlt
    BY DEF Init
  <2>2. cl[c].run = "idle" /\ ult[c].run = "none" /\ ult[c].stack = <<>>
    BY <2>1 DEF NoCall, NoUlt
  <2>3. RespondsOnce(c)
    BY <2>2 DEF RespondsOnce
  <2> QED BY <2>2, <2>3 DEF Answering, Unhindered
<1>2. Inv /\ Flights /\ AnswersSent /\ [Next]_vars => AnswersSent'
  <2>1. Inv => AnswersAll(conf) /\ PermittedAll(conf)
    BY DEF Inv, TypeInv
  <2> QED BY <2>1, AnswersKept
<1>3. AnswersSent => AnswersArrive
  BY DEF AnswersSent, Answering, Unhindered, Undisturbed, AnswersArrive
<1>4. Inv /\ Launched /\ Flights /\ [Next]_vars => Flights'
  <2>1. Inv => PushesAndWaits(conf)
    BY DEF Inv, TypeInv
  <2>2. CASE UNCHANGED vars
    <3>1. UNCHANGED <<conf, calls, exposed, ult, flying, buf>>
      BY <2>2 DEF vars
    <3>2. Flights => \A f \in flying : Flight(f)'
      BY <3>1, FlightKept DEF Flights, Flight
    <3> QED BY <3>1, <3>2 DEF Flights, Flight
  <2> QED BY <2>1, <2>2, FlightsKept
<1> QED BY <1>1, <1>2, <1>3, <1>4, InitInv, InvHolds, PTL DEF Spec
=============================================================================
