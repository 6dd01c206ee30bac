-------------------------- MODULE CallbacksProofs --------------------------
(***************************************************************************)
(* Proofs about the functions with callbacks, for any number of items, any *)
(* size of the batches, and whatever fails.                                *)
(***************************************************************************)
EXTENDS Callbacks, SequenceTheorems, FiniteSetTheorems, TLAPS

-----------------------------------------------------------------------------
(* Memory: who uses what, and until when *)

SrvFields  == {"pc", "check", "index", "offset", "cur", "count", "sent", "last", "ret"}
BackFields == {"run", "start", "got", "todo", "ret"}

\* The client waits as long as the handler runs.
Waits ==
    /\ srv.pc = "none" => cl.run \in {"start", "done"}
    /\ srv.pc = "over" => cl.run \in {"answered", "done"}
    /\ srv.pc \notin {"none", "over"} => cl.run = "waiting"
    /\ DOMAIN cl = {"run", "ret"}

\* The batch that was sent and, when they are pulled, the one about to be sent
\* are all that is exposed.
Shown ==
    exposed = (IF Rpc.exposes /\ previous # 0 THEN {previous} ELSE {})
              \cup (IF Rpc.exposes /\ srv.pc \in {"wait", "send"} THEN {srv.sent + 1} ELSE {})

MemInv ==
    /\ conf \in Setups
    /\ DOMAIN srv = SrvFields /\ srv.sent \in Nat /\ previous \in 0 .. srv.sent
    /\ DOMAIN back = 1 .. Len(conf.items) + 1
    /\ \A b \in DOMAIN back : DOMAIN back[b] = BackFields
    /\ Waits /\ Shown /\ (srv.pc = "expose" => Rpc.exposes)
    /\ previous # 0 => srv.pc \in {"loop", "flush", "expose", "wait", "finish"}
    /\ \A b \in DOMAIN back : Active(b) => b = previous

LEMMA MemInit == Init => MemInv
BY SetupsAssumption DEF SetupsAssumption, Init, MemInv, Waits, Shown, Active, NoBack, SrvFields, BackFields

\* Steps of the handler that neither send nor wait.
LEMMA MemQuiet ==
    ASSUME MemInv, UNCHANGED <<conf, cl, previous, exposed, back>>,
           DOMAIN srv' = SrvFields, srv'.sent = srv.sent,
           srv.pc \in {"checks", "loop", "flush"},
           srv'.pc \in {"checks", "loop", "flush", "expose", "wait", "finish", "respond"},
           srv'.pc = "wait" => ~Rpc.exposes, srv'.pc = "expose" => Rpc.exposes,
           srv.pc = "checks" \/ srv'.pc \notin {"checks", "respond"}
    PROVE  MemInv'
BY DEF MemInv, Waits, Shown, Active, Rpc

\* Steps of a handler of the client.
LEMMA MemBack ==
    ASSUME MemInv, UNCHANGED <<conf, cl, srv, previous, exposed>>, NEW b \in DOMAIN back, Active(b),
           DOMAIN back' = DOMAIN back, DOMAIN back'[b] = BackFields,
           \A x \in DOMAIN back : x # b => back'[x] = back[x]
    PROVE  MemInv'
BY DEF MemInv, Waits, Shown, Active, Rpc

LEMMA MemNext == MemInv /\ [Next]_vars => MemInv'
<1> SUFFICES ASSUME MemInv, [Next]_vars PROVE MemInv'
  OBVIOUS
<1> USE DEF SrvFields
<1>d. DOMAIN srv = SrvFields
  BY DEF MemInv
<1>r. Rpc.exposes \in BOOLEAN
  BY SetupsAssumption DEF SetupsAssumption, MemInv, Rpc
<1>1. CASE Forward
  <2>1. CASE cl'.run = "done" /\ DOMAIN cl' = {"run", "ret"} /\ srv' = srv /\ srv.pc = "none"
    BY <1>1, <2>1 DEF Forward, MemInv, Waits, Shown, Active, Rpc
  <2>2. CASE cl' = [cl EXCEPT !.run = "waiting"] /\ srv' = [srv EXCEPT !.pc = "checks"]
    BY <1>1, <1>d, <2>2 DEF Forward, MemInv, Waits, Shown, Active, Rpc
  <2>3. srv.pc = "none" /\ DOMAIN cl = {"run", "ret"}
    BY <1>1 DEF Forward, MemInv, Waits
  <2> QED BY <1>1, <2>1, <2>2, <2>3 DEF Forward
<1>2. CASE GetOutput
  BY <1>2 DEF GetOutput, MemInv, Waits, Shown, Active, Rpc
<1>3. CASE Check
  <2>1. srv.pc = "checks" /\ UNCHANGED <<conf, cl, previous, exposed, back>>
    BY <1>3 DEF Check
  <2>2. srv'.pc \in {"checks", "loop", "respond"} /\ DOMAIN srv' = SrvFields /\ srv'.sent = srv.sent
    BY <1>3, <1>d DEF Check
  <2> QED BY <2>1, <2>2, MemQuiet
<1>4. CASE FetchBatch \/ IterItem \/ Flush
  <2>1. srv.pc \in {"loop", "flush"} /\ UNCHANGED <<conf, cl, previous, exposed, back>>
    BY <1>4 DEF FetchBatch, IterItem, Flush
  <2>2. /\ srv'.pc \in {"loop", "flush", "finish", ToSend}
        /\ DOMAIN srv' = SrvFields /\ srv'.sent = srv.sent
    BY <1>4, <1>d DEF FetchBatch, IterItem, Flush
  <2>3. /\ ToSend \in {"expose", "wait"}
        /\ ToSend = "wait" => ~Rpc.exposes
        /\ ToSend = "expose" => Rpc.exposes
    BY <1>r DEF ToSend
  <2> QED BY <2>1, <2>2, <2>3, MemQuiet
<1>n. ASSUME NEW ret, NotSent(ret)
      PROVE  DOMAIN srv' = SrvFields /\ srv'.sent = srv.sent /\ srv'.pc \in {"flush", "finish"}
  BY <1>d, <1>n DEF NotSent
<1>5. CASE ExposeBatch
  <2>1. CASE srv' = [srv EXCEPT !.pc = "wait"] /\ exposed' = exposed \cup {srv.sent + 1}
    BY <1>5, <1>d, <2>1 DEF ExposeBatch, MemInv, Waits, Shown, Active, Rpc
  <2>2. CASE NotSent("FromMercury") /\ exposed' = exposed
    BY <1>5, <1>n, <2>2 DEF ExposeBatch, MemInv, Waits, Shown, Active, Rpc
  <2> QED BY <1>5, <2>1, <2>2 DEF ExposeBatch
<1>6. CASE WaitBeforeSend
  <2>0. srv.pc = "wait" /\ previous' = 0 /\ UNCHANGED <<conf, cl, back>>
    BY <1>6 DEF WaitBeforeSend
  <2>1. \A b \in DOMAIN back : ~Active(b)
    BY <1>6 DEF WaitBeforeSend, MemInv, Active, Answered
  <2>2. CASE srv' = [srv EXCEPT !.pc = "send"] /\ exposed' = exposed \ {previous}
    BY <1>d, <2>0, <2>1, <2>2 DEF MemInv, Waits, Shown, Active, Rpc
  <2>3. CASE NotSent(AnswerOf) /\ exposed' = exposed \ {previous, srv.sent + 1}
    <3>1. DOMAIN srv' = SrvFields /\ srv'.sent = srv.sent /\ srv'.pc \in {"flush", "finish"}
      BY <1>n, <2>3
    <3> QED BY <2>0, <2>1, <2>3, <3>1 DEF MemInv, Waits, Shown, Active, Rpc
  <2> QED BY <1>6, <2>2, <2>3 DEF WaitBeforeSend
<1>7. CASE SendBatch
  <2>0. srv.pc = "send" /\ previous = 0 /\ UNCHANGED <<conf, cl>> /\ srv.sent + 1 \in Nat
    BY <1>7 DEF SendBatch, MemInv
  <2>1. \A b \in DOMAIN back : ~Active(b)
    BY <2>0 DEF MemInv
  <2>2. CASE /\ srv' = Advanced /\ previous' = srv.sent + 1 /\ exposed' = exposed
             /\ back' = [back EXCEPT ![srv.sent + 1] =
                   [NoBack EXCEPT !.run = "input", !.start = srv.count, !.got = srv.cur]]
    <3>1. DOMAIN srv' = SrvFields /\ srv'.sent = srv.sent + 1 /\ srv'.pc \in {"finish", "loop"}
      BY <1>d, <2>2 DEF Advanced, MemInv
    <3>2. /\ DOMAIN back' = DOMAIN back
          /\ \A b \in DOMAIN back : b # srv.sent + 1 => back'[b] = back[b]
          /\ \A b \in DOMAIN back : DOMAIN back'[b] = BackFields
      BY <2>2 DEF NoBack, BackFields, MemInv
    <3>3. \A b \in DOMAIN back : Active(b)' => b = srv.sent + 1
      BY <2>1, <3>2 DEF Active
    <3> QED BY <2>0, <2>2, <3>1, <3>2, <3>3 DEF MemInv, Waits, Shown, Rpc
  <2>3. CASE NotSent("FromMercury") /\ exposed' = exposed \ {srv.sent + 1} /\ UNCHANGED <<previous, back>>
    BY <1>n, <2>0, <2>3 DEF MemInv, Waits, Shown, Active, Rpc
  <2> QED BY <1>7, <2>2, <2>3 DEF SendBatch
<1>8. CASE Finish
  <2>0. /\ srv.pc = "finish" /\ previous' = 0 /\ UNCHANGED <<conf, cl, back>>
        /\ exposed' = exposed \ {previous}
    BY <1>8 DEF Finish
  <2>1. \A b \in DOMAIN back : ~Active(b)
    BY <1>8 DEF Finish, MemInv, Active, Answered
  <2>2. DOMAIN srv' = SrvFields /\ srv'.sent = srv.sent /\ srv'.pc = "respond"
    BY <1>8, <1>d DEF Finish
  <2> QED BY <2>0, <2>1, <2>2 DEF MemInv, Waits, Shown, Active, Rpc
<1>9. CASE Respond
  BY <1>9, <1>d DEF Respond, MemInv, Waits, Shown, Active, Rpc
<1>10. ASSUME NEW b \in DOMAIN back, BackStep(b) PROVE MemInv'
  <2>0. DOMAIN back[b] = BackFields
    BY DEF MemInv
  <2>1. CASE BackInput(b)
    <3>1. Active(b) /\ UNCHANGED <<conf, cl, srv, previous, exposed>>
      BY <2>1 DEF BackInput, Active
    <3>2. /\ DOMAIN back' = DOMAIN back /\ DOMAIN back'[b] = BackFields
          /\ \A x \in DOMAIN back : x # b => back'[x] = back[x]
      BY <2>0, <2>1 DEF BackInput, BackFails
    <3> QED BY <3>1, <3>2, MemBack
  <2>2. CASE BackPull(b)
    <3>1. Active(b) /\ UNCHANGED <<conf, cl, srv, previous, exposed>>
      BY <2>2 DEF BackPull, Active
    <3>2. /\ DOMAIN back' = DOMAIN back /\ DOMAIN back'[b] = BackFields
          /\ \A x \in DOMAIN back : x # b => back'[x] = back[x]
      BY <2>0, <2>2 DEF BackPull, BackFails
    <3> QED BY <3>1, <3>2, MemBack
  <2>3. CASE Callback(b)
    <3>1. Active(b) /\ UNCHANGED <<conf, cl, srv, previous, exposed>>
      BY <2>3 DEF Callback, Active
    <3>2. /\ DOMAIN back' = DOMAIN back /\ DOMAIN back'[b] = BackFields
          /\ \A x \in DOMAIN back : x # b => back'[x] = back[x]
      BY <2>0, <2>3 DEF Callback
    <3> QED BY <3>1, <3>2, MemBack
  <2>4. CASE BulkCallback(b)
    <3>1. Active(b) /\ UNCHANGED <<conf, cl, srv, previous, exposed>>
      BY <2>4 DEF BulkCallback, Active
    <3>2. /\ DOMAIN back' = DOMAIN back /\ DOMAIN back'[b] = BackFields
          /\ \A x \in DOMAIN back : x # b => back'[x] = back[x]
      BY <2>0, <2>4 DEF BulkCallback
    <3> QED BY <3>1, <3>2, MemBack
  <2>5. CASE BackRespond(b)
    <3>1. Active(b) /\ UNCHANGED <<conf, cl, srv, previous, exposed>>
      BY <2>5 DEF BackRespond, Active
    <3>2. /\ DOMAIN back' = DOMAIN back /\ DOMAIN back'[b] = BackFields
          /\ \A x \in DOMAIN back : x # b => back'[x] = back[x]
      BY <2>0, <2>5 DEF BackRespond
    <3> QED BY <3>1, <3>2, MemBack
  <2> QED BY <1>10, <2>1, <2>2, <2>3, <2>4, <2>5 DEF BackStep
<1>11. CASE UNCHANGED vars
  BY <1>11 DEF vars, MemInv, Waits, Shown, Active, Rpc
<1> QED BY <1>1, <1>2, <1>3, <1>4, <1>5, <1>6, <1>7, <1>8, <1>9, <1>10, <1>11 DEF Next, ServerStep

LEMMA MemSafe == MemInv => BatchesDoNotOutliveTheirMemory
<1> SUFFICES ASSUME MemInv PROVE BatchesDoNotOutliveTheirMemory
  OBVIOUS
<1>1. ASSUME NEW b \in DOMAIN back, Active(b)
      PROVE  cl.run = "waiting" /\ previous = b /\ (Rpc.exposes => b \in exposed)
  <2>1. previous = b /\ b # 0
    BY <1>1 DEF MemInv
  <2> QED BY <2>1 DEF MemInv, Waits, Shown
<1>2. srv.pc = "over" => previous = 0 /\ exposed = {}
  BY DEF MemInv, Shown
<1> QED BY <1>1, <1>2 DEF BatchesDoNotOutliveTheirMemory

\* Batches of a call never overlap on the client, none is being worked on when
\* the call returns, and what they are pulled from is exposed as long as the
\* client may pull, and no longer: whatever fails, in every function.
THEOREM BatchesStayInTheirMemory == Spec => []BatchesDoNotOutliveTheirMemory
BY MemSafe, MemInit, MemNext, PTL DEF Spec

-----------------------------------------------------------------------------
(* What is collected and sent: batch after batch, item after item *)

\* Bounds of products and quotients.
LEMMA Quotient ==
  ASSUME NEW x \in Nat, NEW B \in Nat \ {0}
  PROVE  x \div B \in Nat /\ B * (x \div B) <= x /\ x < B * (x \div B) + B
OBVIOUS

LEMMA NextMultiple ==
  ASSUME NEW m \in Nat, NEW B \in Nat PROVE (m + 1) * B = m * B + B /\ m * B \in Nat /\ m * B = B * m
OBVIOUS

LEMMA Monotone ==
  ASSUME NEW m \in Nat, NEW n \in Nat, NEW B \in Nat, m <= n PROVE m * B <= n * B
OBVIOUS

\* The size of the batches of a call, where batch m + 1 begins, the batch of an
\* item, and the item that the database holds at a place.
Size(c)      == IF c.batch = 0 THEN Len(c.items) ELSE c.batch
Base(c, m)   == m * Size(c)
BatchOf(c, n) == n \div Size(c)
ItemAt(c, n) == [key |-> c.items[n],
                 val |-> IF c.items[n] \in c.absent THEN "KEY_NOT_FOUND"
                         ELSE <<"value of", c.items[n]>>]
Found(c)     == {ItemAt(c, n) : n \in 1 .. Len(c.items)}

LEMMA Sizes ==
  ASSUME NEW c \in Setups
  PROVE  Len(c.items) \in Nat /\ Size(c) \in Nat /\ (Len(c.items) > 0 => Size(c) > 0)
<1>1. c.items \in Seq(ToSet(c.items)) /\ c.batch \in Nat
  BY SetupsAssumption DEF SetupsAssumption
<1> QED BY <1>1 DEF Size

LEMMA Bases ==
  ASSUME NEW c \in Setups, NEW m \in Nat
  PROVE  /\ Base(c, m) \in Nat /\ Base(c, 0) = 0
         /\ Base(c, m + 1) = Base(c, m) + Size(c)
         /\ Size(c) > 0 => m <= Base(c, m)
<1>1. Size(c) \in Nat
  BY Sizes
<1> DEFINE B == Size(c)
<1> HIDE DEF B
<1>2. (m + 1) * B = m * B + B /\ m * B \in Nat /\ 0 * B = 0
  BY <1>1, NextMultiple DEF B
<1>3. B > 0 => 1 * m <= B * m
  BY <1>1, Monotone DEF B
<1>4. B * m = m * B
  BY <1>1, NextMultiple DEF B
<1> QED BY <1>2, <1>3, <1>4 DEF Base, B

LEMMA BatchBounds ==
  ASSUME NEW c \in Setups, NEW x \in Nat, NEW m \in Nat, Size(c) > 0
  PROVE  /\ BatchOf(c, x) \in Nat
         /\ x < Base(c, m + 1) => BatchOf(c, x) <= m
         /\ Base(c, m) <= x => m <= BatchOf(c, x)
<1> DEFINE B == Size(c)
           q == x \div B
<1>1. B \in Nat \ {0}
  BY Sizes
<1> HIDE DEF B
<1>2. q \in Nat /\ B * q <= x /\ x < B * q + B
  BY <1>1, Quotient
<1> HIDE DEF q
<1>3. /\ (q + 1) * B = q * B + B /\ q * B = B * q /\ q * B \in Nat /\ (m + 1) * B \in Nat
      /\ m * B \in Nat
  BY <1>1, <1>2, NextMultiple
<1>4. (q + 1 <= m => (q + 1) * B <= m * B) /\ (m + 1 <= q => (m + 1) * B <= q * B)
  BY <1>1, <1>2, Monotone
<1>5. BatchOf(c, x) = q /\ Base(c, m) = m * B /\ Base(c, m + 1) = (m + 1) * B
  BY DEF BatchOf, Base, B, q
<1> QED BY <1>1, <1>2, <1>3, <1>4, <1>5

\* s is what the database has from start on.
Part(c, s, start) ==
    /\ s \in Seq(Found(c)) /\ Len(s) \in Nat /\ start \in Nat
    /\ Len(s) <= Size(c) /\ start + Len(s) <= Len(c.items)
    /\ \A i \in 1 .. Len(s) : s[i] = ItemAt(c, start + i)

\* And there is no more, or no more room for it.
Ends(c, s, start) == Len(s) = Size(c) \/ start + Len(s) = Len(c.items)

Sending == {"expose", "wait", "send"}

\* What is about to be sent is the next batch.
Ready ==
    srv.pc \in Sending =>
        /\ srv.count = Base(conf, srv.sent) /\ Part(conf, srv.cur, srv.count)
        /\ srv.cur # <<>> /\ (Ends(conf, srv.cur, srv.count) \/ srv.last)

Lookup ==
    /\ srv.pc # "flush" /\ ~srv.last
    /\ srv.pc = "loop" =>
         /\ srv.cur = <<>>
         /\ srv.offset = Base(conf, srv.sent) \/ Base(conf, srv.sent) >= Len(conf.items)
    /\ srv.pc \in Sending => srv.offset = srv.count

Walk ==
    /\ srv.pc \in Sending => /\ srv.offset = srv.count + Len(srv.cur)
                             /\ srv.last \/ Len(srv.cur) = Size(conf)
    /\ srv.pc \in {"loop", "flush"} =>
         \/ /\ srv.count = Base(conf, srv.sent) /\ Part(conf, srv.cur, srv.count)
            /\ srv.offset = srv.count + Len(srv.cur)
         \/ srv.offset = Len(conf.items) /\ srv.cur = <<>>
    /\ srv.pc = "loop" => ~srv.last /\ (srv.cur = <<>> \/ Len(srv.cur) < Size(conf))

CollectInv ==
    /\ conf \in Setups /\ DOMAIN srv = SrvFields
    /\ srv.sent \in Nat /\ srv.index = srv.sent /\ srv.offset \in Nat /\ srv.count \in Nat
    /\ srv.last \in BOOLEAN
    /\ srv.pc \in {"none", "checks"} =>
         srv.sent = 0 /\ srv.offset = 0 /\ srv.count = 0 /\ srv.cur = <<>> /\ srv.last = FALSE
    /\ Rpc.visits = "keys" => Lookup
    /\ Rpc.visits = "items" => Walk
    /\ Ready

LEMMA PartEmpty ==
  ASSUME NEW c \in Setups, NEW start \in Nat, start <= Len(c.items)
  PROVE  Part(c, <<>>, start)
BY Sizes DEF Part

LEMMA PartAppend ==
  ASSUME NEW c \in Setups, NEW s, NEW start, Part(c, s, start),
         start + Len(s) < Len(c.items), Len(s) < Size(c)
  PROVE  LET t == Append(s, ItemAt(c, start + Len(s) + 1))
         IN  Part(c, t, start) /\ Len(t) = Len(s) + 1 /\ t # <<>>
<1> DEFINE e == ItemAt(c, start + Len(s) + 1)
           t == Append(s, e)
<1>0. /\ s \in Seq(Found(c)) /\ Len(s) \in Nat /\ start \in Nat
      /\ Len(c.items) \in Nat /\ Size(c) \in Nat
      /\ \A i \in 1 .. Len(s) : s[i] = ItemAt(c, start + i)
  BY Sizes DEF Part
<1>1. start + Len(s) + 1 \in 1 .. Len(c.items)
  BY <1>0
<1>2. e \in Found(c)
  BY <1>1 DEF Found
<1>3. e = ItemAt(c, start + (Len(s) + 1))
  BY <1>0
<1> HIDE DEF e
<1>4. /\ t \in Seq(Found(c)) /\ Len(t) = Len(s) + 1 /\ t[Len(s) + 1] = e
      /\ \A i \in 1 .. Len(s) : t[i] = s[i]
  BY <1>0, <1>2
<1> HIDE DEF t
<1>5. ASSUME NEW i \in 1 .. Len(t) PROVE t[i] = ItemAt(c, start + i)
  <2>1. CASE i = Len(s) + 1
    BY <1>3, <1>4, <2>1
  <2>2. CASE i \in 1 .. Len(s)
    BY <1>0, <1>4, <2>2
  <2> QED BY <1>0, <1>4, <2>1, <2>2
<1>6. t # <<>>
  BY <1>0, <1>4
<1>7. Part(c, t, start)
  BY <1>0, <1>4, <1>5 DEF Part
<1> QED BY <1>4, <1>6, <1>7 DEF t, e

\* A batch of keys that is looked up is the next one.
LEMMA PartFetched ==
  ASSUME NEW c \in Setups, NEW start \in Nat, start < Len(c.items), conf = c
  PROVE  LET size == Min({Size(c), Len(c.items) - start})
             keys == SubSeq(c.items, start + 1, start + size)
             cur == [i \in DOMAIN keys |-> [key |-> keys[i], val |-> ValueOf(keys[i])]]
         IN  Part(c, cur, start) /\ cur # <<>> /\ Ends(c, cur, start)
<1> DEFINE L == Len(c.items)
           size == Min({Size(c), L - start})
           keys == SubSeq(c.items, start + 1, start + size)
           cur == [i \in DOMAIN keys |-> [key |-> keys[i], val |-> ValueOf(keys[i])]]
<1>0. L \in Nat /\ Size(c) \in Nat /\ Size(c) > 0 /\ c.items \in Seq(ToSet(c.items))
  BY Sizes, SetupsAssumption DEF SetupsAssumption
<1>1. /\ size \in {Size(c), L - start} /\ size <= Size(c) /\ size <= L - start
  <2> DEFINE S == {Size(c), L - start}
  <2>1. \E x \in S : \A y \in S : x <= y
    BY <1>0
  <2>2. Min(S) \in S /\ \A y \in S : Min(S) <= y
    BY <2>1 DEF Min
  <2> QED BY <2>2
<1> HIDE DEF size, L
<1>2. size \in Nat /\ size >= 1 /\ start + size <= L /\ start + 1 \in 1 .. L
  BY <1>0, <1>1 DEF L
<1>3. /\ Len(keys) = size /\ DOMAIN keys = 1 .. size
      /\ \A i \in 1 .. size : keys[i] = c.items[start + i]
  BY <1>0, <1>2, Z3 DEF L
<1> HIDE DEF keys
<1>4. ASSUME NEW i \in 1 .. size
      PROVE  cur[i] = ItemAt(c, start + i) /\ start + i \in 1 .. L
  <2>1. start + i \in 1 .. L
    BY <1>0, <1>2 DEF L
  <2>2. cur[i] = [key |-> keys[i], val |-> ValueOf(keys[i])]
    BY <1>3
  <2>3. keys[i] = c.items[start + i]
    BY <1>3
  <2> QED BY <2>1, <2>2, <2>3 DEF ItemAt, ValueOf
<1>5. DOMAIN cur = 1 .. size
  BY <1>3
<1>f. cur = [i \in 1 .. size |-> cur[i]]
  BY <1>3
<1> HIDE DEF cur
<1>6. \A i \in 1 .. size : cur[i] \in Found(c)
  BY <1>4 DEF Found, L
<1>7. cur \in [1 .. size -> Found(c)]
  BY <1>5, <1>6, <1>f
<1>8. cur \in Seq(Found(c))
  BY <1>2, <1>7
<1>9. Len(cur) = size
  BY <1>2, <1>5, <1>8
<1>10. Part(c, cur, start)
  BY <1>0, <1>1, <1>2, <1>4, <1>8, <1>9 DEF Part, L
<1>11. cur # <<>> /\ Ends(c, cur, start)
  BY <1>0, <1>1, <1>2, <1>8, <1>9 DEF Ends, L
<1> QED BY <1>10, <1>11 DEF cur, keys, size, L

LEMMA BatchesLeft ==
  ASSUME NEW c \in Setups, NEW i \in Nat, conf = c, Len(c.items) > 0,
         i < NumBatches
  PROVE  Base(c, i) < Len(c.items)
<1> DEFINE L == Len(c.items)
           B == Size(c)
           q == (L + B - 1) \div B
<1>0. L \in Nat /\ B \in Nat \ {0}
  BY Sizes
<1>1. i < q
  BY DEF NumBatches, BatchSize, Size
<1> HIDE DEF L, B
<1>2. q \in Nat /\ B * q <= L + B - 1
  BY <1>0, Quotient
<1> HIDE DEF q
<1>3. (i + 1) * B <= q * B
  BY <1>0, <1>1, <1>2, Monotone
<1>4. q * B = B * q /\ (i + 1) * B = i * B + B /\ i * B \in Nat
  BY <1>0, <1>2, NextMultiple
<1>5. i * B < L
  BY <1>0, <1>2, <1>3, <1>4
<1> QED BY <1>5 DEF Base, B, L

\* The numbers that doc_iter_direct adds up are bytes (doc_iter.cpp:247).
CountsItems(c) ==
  c.fn.rpc.counts = "bytes" => c.bytes = 1 \/ Len(c.items) <= Size(c)

LEMMA CollectInit == Init => CollectInv
<1> SUFFICES ASSUME Init PROVE CollectInv
  OBVIOUS
<1>1. conf \in Setups
  BY DEF Init
<1>2. DOMAIN srv = SrvFields /\ srv.pc = "none" /\ srv.sent = 0 /\ srv.index = 0 /\ srv.offset = 0
      /\ srv.count = 0 /\ srv.cur = <<>> /\ srv.last = FALSE
  BY DEF Init, SrvFields
<1>3. Lookup /\ Walk /\ Ready
  BY <1>2 DEF Lookup, Walk, Ready, Sending
<1>4. srv.last \in BOOLEAN /\ srv.sent \in Nat /\ srv.offset \in Nat /\ srv.count \in Nat
  BY DEF Init
<1> QED BY <1>1, <1>2, <1>3, <1>4 DEF CollectInv

\* Steps that leave what is collected alone.
LEMMA CollectFrame ==
  ASSUME CollectInv, conf' = conf,
         \/ srv' = srv
         \/ /\ DOMAIN srv' = SrvFields /\ srv.pc \in {"none", "checks"}
            /\ srv'.pc \in {"checks", "respond", "loop"}
            /\ srv'.sent = srv.sent /\ srv'.index = srv.index /\ srv'.offset = srv.offset
            /\ srv'.count = srv.count /\ srv'.cur = srv.cur /\ srv'.last = srv.last
         \/ /\ DOMAIN srv' = SrvFields
            /\ srv'.pc \in {"finish", "respond", "over"}
            /\ srv'.sent \in Nat /\ srv'.index = srv'.sent /\ srv'.offset \in Nat
            /\ srv'.count \in Nat /\ srv'.last \in BOOLEAN
            /\ Rpc.visits = "keys" => ~srv'.last
         \/ /\ DOMAIN srv' = SrvFields /\ srv.pc \in Sending /\ srv'.pc \in Sending
            /\ srv'.sent = srv.sent /\ srv'.index = srv.index /\ srv'.offset = srv.offset
            /\ srv'.count = srv.count /\ srv'.cur = srv.cur /\ srv'.last = srv.last
  PROVE  CollectInv'
<1>1. CASE srv' = srv
  BY <1>1 DEF CollectInv, Lookup, Walk, Ready, Rpc
<1>2. CASE /\ DOMAIN srv' = SrvFields /\ srv.pc \in {"none", "checks"}
           /\ srv'.pc \in {"checks", "respond", "loop"}
           /\ srv'.sent = srv.sent /\ srv'.index = srv.index /\ srv'.offset = srv.offset
           /\ srv'.count = srv.count /\ srv'.cur = srv.cur /\ srv'.last = srv.last
  <2>1. Base(conf, 0) = 0 /\ Part(conf, <<>>, 0) /\ Len(<<>>) = 0
    BY Bases, PartEmpty, Sizes DEF CollectInv
  <2>2. /\ srv.sent = 0 /\ srv.offset = 0 /\ srv.count = 0 /\ srv.cur = <<>> /\ srv.last = FALSE
        /\ srv.index = 0 /\ conf \in Setups
    BY <1>2 DEF CollectInv
  <2>3. /\ srv'.sent = 0 /\ srv'.offset = 0 /\ srv'.count = 0 /\ srv'.cur = <<>>
        /\ srv'.last = FALSE /\ srv'.index = 0
    BY <1>2, <2>2
  <2>4. Part(conf', srv'.cur, srv'.count) /\ Base(conf', srv'.sent) = 0 /\ Len(srv'.cur) = 0
    BY <2>1, <2>3
  <2>5. Walk' /\ Lookup' /\ Ready'
    BY <1>2, <2>3, <2>4 DEF Lookup, Walk, Ready, Sending
  <2> QED BY <1>2, <2>2, <2>3, <2>5 DEF CollectInv
<1>3. CASE /\ DOMAIN srv' = SrvFields
           /\ srv'.pc \in {"finish", "respond", "over"}
           /\ srv'.sent \in Nat /\ srv'.index = srv'.sent /\ srv'.offset \in Nat
           /\ srv'.count \in Nat /\ srv'.last \in BOOLEAN
           /\ Rpc.visits = "keys" => ~srv'.last
  BY <1>3 DEF CollectInv, Lookup, Walk, Ready, Rpc, Sending
<1>4. CASE /\ DOMAIN srv' = SrvFields /\ srv.pc \in Sending /\ srv'.pc \in Sending
           /\ srv'.sent = srv.sent /\ srv'.index = srv.index /\ srv'.offset = srv.offset
           /\ srv'.count = srv.count /\ srv'.cur = srv.cur /\ srv'.last = srv.last
  BY <1>4 DEF CollectInv, Lookup, Walk, Ready, Rpc, Sending
<1> QED BY <1>1, <1>2, <1>3, <1>4

LEMMA CollectFetch == CollectInv /\ FetchBatch => CollectInv'
<1> SUFFICES ASSUME CollectInv, FetchBatch PROVE CollectInv'
  OBVIOUS
<1>0. /\ Rpc.visits = "keys" /\ srv.pc = "loop" /\ conf' = conf /\ conf \in Setups /\ Lookup
      /\ srv.sent \in Nat /\ srv.index = srv.sent /\ srv.offset \in Nat /\ srv.count \in Nat
      /\ DOMAIN srv = SrvFields /\ ~srv.last /\ srv.last \in BOOLEAN
  BY DEF FetchBatch, CollectInv, Lookup
<1>1. CASE srv'.pc = "finish" /\ \E r \in {srv.ret, "DatabaseError"} :
                                    srv' = [srv EXCEPT !.pc = "finish", !.ret = r]
  BY <1>0, <1>1, CollectFrame DEF SrvFields
<1> DEFINE size == Min({BatchSize, Len(conf.items) - srv.index * BatchSize})
           keys == SubSeq(conf.items, srv.offset + 1, srv.offset + size)
           cur == [i \in DOMAIN keys |-> [key |-> keys[i], val |-> ValueOf(keys[i])]]
<1>2. CASE /\ srv.index < NumBatches
           /\ srv' = [srv EXCEPT !.pc = ToSend, !.count = srv.index * BatchSize, !.cur = cur]
  <2> DEFINE start == Base(conf, srv.sent)
  <2>1. Len(conf.items) > 0 /\ Len(conf.items) \in Nat
    <3>1. conf.items # <<>> /\ conf.items \in Seq(ToSet(conf.items))
      BY <1>0, SetupsAssumption DEF SetupsAssumption, Rpc
    <3> QED BY <3>1, EmptySeq
  <2>2. start < Len(conf.items) /\ start \in Nat
    BY <1>0, <1>2, <2>1, BatchesLeft, Bases
  <2>3. srv.offset = start /\ srv.index * BatchSize = start
    BY <1>0, <2>1, <2>2 DEF Lookup, Base, BatchSize, Size
  <2>4. Part(conf, cur, start) /\ cur # <<>> /\ Ends(conf, cur, start)
    <3> HIDE DEF start
    <3>1. BatchSize = Size(conf)
      BY DEF BatchSize, Size
    <3>2. LET size_ == Min({Size(conf), Len(conf.items) - start})
              keys_ == SubSeq(conf.items, start + 1, start + size_)
              cur_ == [i \in DOMAIN keys_ |-> [key |-> keys_[i], val |-> ValueOf(keys_[i])]]
          IN  Part(conf, cur_, start) /\ cur_ # <<>> /\ Ends(conf, cur_, start)
      BY <1>0, <2>2, PartFetched
    <3> QED BY <2>3, <3>1, <3>2
  <2> HIDE DEF cur, start
  <2>5. /\ DOMAIN srv' = SrvFields /\ srv'.pc \in {"expose", "wait"} /\ srv'.sent = srv.sent
        /\ srv'.index = srv.index /\ srv'.offset = start /\ srv'.count = start /\ srv'.cur = cur
        /\ srv'.last = srv.last
    BY <1>0, <1>2, <2>3 DEF ToSend, SrvFields
  <2> QED BY <1>0, <2>2, <2>4, <2>5 DEF CollectInv, Lookup, Walk, Ready, Rpc, Sending, start
<1> QED BY <1>0, <1>1, <1>2 DEF FetchBatch, SrvFields

LEMMA CollectItem == CollectInv /\ (IterItem \/ Flush) /\ MemInv => CollectInv'
<1> SUFFICES ASSUME CollectInv, IterItem \/ Flush, MemInv PROVE CollectInv'
  OBVIOUS
<1> USE DEF SrvFields
<1>0. /\ srv.pc \in {"loop", "flush"} /\ conf' = conf /\ conf \in Setups
      /\ srv.sent \in Nat /\ srv.index = srv.sent /\ srv.offset \in Nat /\ srv.count \in Nat
      /\ DOMAIN srv = SrvFields /\ srv.last \in BOOLEAN
      /\ Rpc.visits = "items" /\ Walk /\ ToSend \in {"expose", "wait"}
      /\ Len(conf.items) \in Nat /\ Size(conf) \in Nat
      /\ (Len(conf.items) > 0 => Size(conf) > 0)
  <2>1. conf \in Setups /\ Rpc.visits \in {"keys", "items"}
    BY SetupsAssumption DEF SetupsAssumption, Rpc, CollectInv
  <2> QED BY <2>1, Sizes DEF IterItem, Flush, CollectInv, Lookup, ToSend
<1>1. CASE IterItem /\ srv'.pc = "flush"
  <2>1. \E r \in {srv.ret, "DatabaseError"} : srv' = [srv EXCEPT !.pc = "flush", !.ret = r]
    BY <1>0, <1>1 DEF IterItem, ToSend
  <2>2. /\ srv.pc = "loop" /\ DOMAIN srv' = SrvFields /\ srv'.sent = srv.sent
        /\ srv'.index = srv.index /\ srv'.offset = srv.offset
        /\ srv'.count = srv.count /\ srv'.cur = srv.cur /\ srv'.last = srv.last
    BY <1>0, <1>1, <2>1 DEF IterItem
  <2> QED BY <1>0, <1>1, <2>2 DEF CollectInv, Walk, Ready, Rpc, Sending
<1>2. CASE IterItem /\ srv'.pc # "flush"
  <2> DEFINE key == conf.items[srv.offset + 1]
             item == [key |-> key, val |-> ValueOf(key)]
             cur == Append(srv.cur, item)
  <2>1. /\ srv.pc = "loop" /\ srv.offset < Len(conf.items)
        /\ srv' = [srv EXCEPT !.offset = @ + 1, !.cur = cur,
                              !.pc = IF Len(cur) = BatchSize THEN ToSend ELSE "loop"]
    BY <1>2, <1>0 DEF IterItem
  <2>2. /\ srv.count = Base(conf, srv.sent) /\ Part(conf, srv.cur, srv.count)
        /\ srv.offset = srv.count + Len(srv.cur) /\ ~srv.last
    BY <1>0, <2>1 DEF Walk
  <2>3. Len(srv.cur) \in Nat
    BY <2>2 DEF Part
  <2>4. Len(srv.cur) < Size(conf)
    <3>1. CASE srv.cur = <<>>
      BY <1>0, <2>1, <3>1
    <3> QED BY <1>0, <2>1, <3>1 DEF Walk
  <2>5. item = ItemAt(conf, srv.count + Len(srv.cur) + 1)
    BY <2>2 DEF ItemAt, ValueOf
  <2>6. Part(conf, cur, srv.count) /\ Len(cur) = Len(srv.cur) + 1 /\ cur # <<>>
    BY <1>0, <2>1, <2>2, <2>4, <2>5, PartAppend
  <2> HIDE DEF cur
  <2>7. /\ DOMAIN srv' = SrvFields /\ srv'.sent = srv.sent
        /\ srv'.index = srv.index /\ srv'.offset = srv.offset + 1
        /\ srv'.count = srv.count /\ srv'.cur = cur /\ srv'.last = srv.last
        /\ srv'.pc = IF Len(cur) = Size(conf) THEN ToSend ELSE "loop"
    BY <1>0, <2>1 DEF BatchSize, Size
  <2>8. Len(cur) <= Size(conf) /\ Len(cur) \in Nat
    BY <2>6 DEF Part
  <2>9. Base(conf, srv.sent) = Base(conf', srv'.sent)
    BY <1>0, <2>7
  <2>10. CASE Len(cur) = Size(conf)
    <3>1. Walk'
      BY <1>0, <2>2, <2>3, <2>6, <2>7, <2>10 DEF Walk, Sending
    <3>2. Ready'
      BY <1>0, <2>2, <2>6, <2>7, <2>9, <2>10 DEF Ready, Sending, Ends
    <3> QED BY <1>0, <2>7, <2>10, <3>1, <3>2 DEF CollectInv, Rpc
  <2>11. CASE Len(cur) # Size(conf)
    <3>1. Walk'
      BY <1>0, <2>2, <2>3, <2>6, <2>7, <2>8, <2>9, <2>11 DEF Walk, Sending
    <3>2. Ready'
      BY <1>0, <2>7, <2>11 DEF Ready, Sending
    <3> QED BY <1>0, <2>7, <2>11, <3>1, <3>2 DEF CollectInv, Rpc
  <2> QED BY <2>10, <2>11
<1>3. CASE Flush /\ srv.cur = <<>>
  <2>1. srv' = [srv EXCEPT !.last = TRUE, !.pc = "finish"]
    BY <1>3 DEF Flush
  <2> QED BY <1>0, <2>1, CollectFrame
<1>4. CASE Flush /\ srv.cur # <<>>
  <2>1. srv' = [srv EXCEPT !.last = TRUE, !.pc = ToSend] /\ srv.pc = "flush"
    BY <1>4 DEF Flush
  <2>2. /\ srv.count = Base(conf, srv.sent) /\ Part(conf, srv.cur, srv.count)
        /\ srv.offset = srv.count + Len(srv.cur)
    BY <1>0, <1>4, <2>1 DEF Walk
  <2>3. /\ DOMAIN srv' = SrvFields /\ srv'.sent = srv.sent
        /\ srv'.index = srv.index /\ srv'.offset = srv.offset
        /\ srv'.count = srv.count /\ srv'.cur = srv.cur /\ srv'.last = TRUE /\ srv'.pc = ToSend
    BY <1>0, <2>1
  <2> QED BY <1>0, <1>4, <2>2, <2>3 DEF CollectInv, Walk, Ready, Rpc, Sending
<1> QED BY <1>1, <1>2, <1>3, <1>4

LEMMA CollectNotSent ==
  ASSUME CollectInv, srv.pc \in Sending, NEW ret, NotSent(ret), conf' = conf
  PROVE  CollectInv'
<1> USE DEF SrvFields
<1>0. /\ DOMAIN srv = SrvFields /\ srv.sent \in Nat /\ srv.index = srv.sent
      /\ srv.offset \in Nat /\ srv.count \in Nat /\ srv.last \in BOOLEAN
      /\ conf \in Setups /\ Ready
  BY DEF CollectInv
<1>1. /\ DOMAIN srv' = SrvFields /\ srv'.sent = srv.sent /\ srv'.index = srv.index
      /\ srv'.offset = srv.offset /\ srv'.count = srv.count /\ srv'.cur = srv.cur
      /\ srv'.last = srv.last
      /\ srv'.pc = "finish"
         \/ (srv'.pc = "flush" /\ Rpc.visits # "keys" /\ ~srv.last)
  BY <1>0 DEF NotSent
<1>2. CASE srv'.pc = "finish"
  <2>1. Rpc.visits = "keys" => ~srv'.last
    BY <1>1 DEF CollectInv, Lookup
  <2> QED BY <1>0, <1>1, <1>2, <2>1, CollectFrame
<1>3. CASE srv'.pc = "flush" /\ Rpc.visits # "keys"
  <2>1. Rpc.visits = "items" /\ Walk
    BY <1>0, <1>3, SetupsAssumption DEF CollectInv, SetupsAssumption, Rpc
  <2>2. Walk'
    BY <1>0, <1>1, <1>3, <2>1 DEF Walk, Ready, Sending
  <2>3. Ready'
    BY <1>3 DEF Ready, Sending
  <2> QED BY <1>0, <1>1, <1>3, <2>1, <2>2, <2>3 DEF CollectInv, Rpc
<1> QED BY <1>1, <1>2, <1>3

LEMMA CollectAdvanced ==
  ASSUME CollectInv, srv.pc = "send", CountsItems(conf), srv' = Advanced, conf' = conf
  PROVE  CollectInv'
<1> USE DEF SrvFields
<1>0. /\ DOMAIN srv = SrvFields /\ srv.sent \in Nat /\ srv.index = srv.sent
      /\ srv.offset \in Nat /\ srv.count \in Nat /\ srv.last \in BOOLEAN
      /\ conf \in Setups /\ Rpc.visits \in {"keys", "items"} /\ Rpc.counts \in {"items", "bytes"}
      /\ Len(conf.items) \in Nat /\ Size(conf) \in Nat /\ conf.bytes \in Nat
  BY SetupsAssumption, Sizes DEF CollectInv, SetupsAssumption, Rpc
<1>1. /\ srv.count = Base(conf, srv.sent) /\ Part(conf, srv.cur, srv.count)
      /\ srv.cur # <<>> /\ (Ends(conf, srv.cur, srv.count) \/ srv.last)
  BY DEF CollectInv, Ready, Sending
<1>2. /\ Len(srv.cur) \in Nat /\ Len(srv.cur) <= Size(conf)
      /\ srv.count + Len(srv.cur) <= Len(conf.items)
  BY <1>1 DEF Part
<1>3. Base(conf, srv.sent + 1) = srv.count + Size(conf)
  BY <1>0, <1>1, Bases
<1>4. Numbered \in Nat /\ (Rpc.counts = "items" \/ conf.bytes = 1 => Numbered = Len(srv.cur))
  <2>1. Len(srv.cur) * conf.bytes \in Nat
    BY <1>0, <1>2, NextMultiple
  <2> QED BY <1>2, <2>1 DEF Numbered
<1>5. /\ DOMAIN srv' = SrvFields /\ srv'.sent = srv.sent + 1 /\ srv'.index = srv.sent + 1
      /\ srv'.cur = <<>> /\ srv'.last = srv.last
      /\ srv'.pc = IF srv.last THEN "finish" ELSE "loop"
      /\ srv'.count = srv.count + Numbered
      /\ srv'.offset = IF Rpc.visits = "keys" THEN srv.offset + Len(srv.cur) ELSE srv.offset
  <2> HIDE DEF Numbered
  <2> QED BY <1>0 DEF Advanced
<1>6. CASE srv.last
  <2>1. Rpc.visits # "keys"
    BY <1>6 DEF CollectInv, Lookup
  <2> QED BY <1>0, <1>2, <1>4, <1>5, <1>6, <2>1, CollectFrame
<1>7. CASE ~srv.last /\ Rpc.visits = "keys"
  <2>1. srv.offset = srv.count
    BY <1>7 DEF CollectInv, Lookup, Sending
  <2>2. srv'.offset = srv.count + Len(srv.cur) /\ srv'.offset \in Nat
    BY <1>0, <1>2, <1>5, <1>7, <2>1
  <2>3. srv'.offset = Base(conf, srv.sent + 1) \/ Base(conf, srv.sent + 1) >= Len(conf.items)
    BY <1>0, <1>1, <1>2, <1>3, <1>7, <2>2 DEF Ends
  <2>4. Lookup'
    BY <1>5, <1>7, <2>3 DEF Lookup, Sending
  <2>5. Ready'
    BY <1>5, <1>7 DEF Ready, Sending
  <2>6. /\ srv'.sent \in Nat /\ srv'.index = srv'.sent /\ srv'.count \in Nat /\ srv'.last \in BOOLEAN
        /\ srv'.pc = "loop" /\ DOMAIN srv' = SrvFields
    BY <1>0, <1>4, <1>5, <1>7
  <2> QED BY <1>0, <1>7, <2>2, <2>4, <2>5, <2>6 DEF CollectInv, Rpc
<1>8. CASE ~srv.last /\ Rpc.visits = "items"
  <2>1. srv.offset = srv.count + Len(srv.cur) /\ Len(srv.cur) = Size(conf)
    BY <1>8 DEF CollectInv, Walk, Sending
  <2>2. srv'.offset = srv.count + Size(conf) /\ srv'.pc = "loop" /\ Len(srv'.cur) = 0
    BY <1>5, <1>8, <2>1
  <2>3. CASE Rpc.counts = "items" \/ conf.bytes = 1
    <3>1. srv'.count = Base(conf, srv.sent + 1) /\ srv'.offset = srv'.count + Len(srv'.cur)
      BY <1>0, <1>3, <1>4, <1>5, <2>1, <2>2, <2>3
    <3>2. Part(conf, srv'.cur, srv'.count)
      <4>1. srv'.count \in Nat /\ srv'.count <= Len(conf.items)
        BY <1>0, <1>2, <1>3, <2>1, <3>1
      <4> QED BY <1>0, <1>5, <4>1, PartEmpty
    <3>3. srv'.count = Base(conf', srv'.sent) /\ Part(conf', srv'.cur, srv'.count)
      BY <1>5, <3>1, <3>2
    <3>4. Walk' /\ Ready'
      BY <1>5, <1>8, <2>2, <3>1, <3>3 DEF Walk, Ready, Sending
    <3> QED BY <1>0, <1>4, <1>5, <1>8, <2>2, <3>4 DEF CollectInv, Rpc
  <2>4. CASE ~(Rpc.counts = "items" \/ conf.bytes = 1)
    <3>1. Len(conf.items) <= Size(conf)
      BY <1>0, <2>4 DEF CountsItems, Rpc
    <3>2. srv'.offset = Len(conf.items)
      BY <1>0, <1>2, <2>1, <2>2, <3>1
    <3> QED BY <1>0, <1>4, <1>5, <1>8, <2>2, <3>2 DEF CollectInv, Walk, Ready, Rpc, Sending
  <2> QED BY <2>3, <2>4
<1> QED BY <1>0, <1>6, <1>7, <1>8

LEMMA CollectNext ==
  MemInv /\ CollectInv /\ CountsItems(conf) /\ [Next]_vars => CollectInv'
<1> SUFFICES ASSUME MemInv, CollectInv, CountsItems(conf), [Next]_vars PROVE CollectInv'
  OBVIOUS
<1> USE DEF SrvFields
<1>0. DOMAIN srv = SrvFields /\ srv.sent \in Nat /\ srv.index = srv.sent /\ srv.offset \in Nat
      /\ srv.count \in Nat /\ srv.last \in BOOLEAN
  BY DEF CollectInv
<1>1. CASE Forward
  <2>1. conf' = conf /\ srv.pc = "none"
    BY <1>1 DEF Forward, MemInv, Waits
  <2>2. srv' = srv \/ srv' = [srv EXCEPT !.pc = "checks"]
    BY <1>1 DEF Forward
  <2> QED BY <1>0, <2>1, <2>2, CollectFrame
<1>2. CASE Check
  <2>1. conf' = conf /\ srv.pc = "checks"
    BY <1>2 DEF Check
  <2>2. \/ srv' = [srv EXCEPT !.pc = "loop"] \/ srv' = [srv EXCEPT !.check = @ + 1]
        \/ \E r : srv' = [srv EXCEPT !.pc = "respond", !.ret = r]
    BY <1>2 DEF Check
  <2> QED BY <1>0, <2>1, <2>2, CollectFrame
<1>3. CASE ExposeBatch
  <2>1. conf' = conf /\ srv.pc \in Sending
    BY <1>3 DEF ExposeBatch, Sending
  <2>2. CASE srv' = [srv EXCEPT !.pc = "wait"]
    BY <1>0, <2>1, <2>2, CollectFrame DEF Sending
  <2> QED BY <1>3, <2>1, <2>2, CollectNotSent DEF ExposeBatch
<1>4. CASE WaitBeforeSend
  <2>1. conf' = conf /\ srv.pc \in Sending
    BY <1>4 DEF WaitBeforeSend, Sending
  <2>2. CASE srv' = [srv EXCEPT !.pc = "send"]
    BY <1>0, <2>1, <2>2, CollectFrame DEF Sending
  <2> QED BY <1>4, <2>1, <2>2, CollectNotSent DEF WaitBeforeSend
<1>5. CASE SendBatch
  <2>1. conf' = conf /\ srv.pc = "send" /\ srv.pc \in Sending
    BY <1>5 DEF SendBatch, Sending
  <2> QED BY <1>5, <2>1, CollectAdvanced, CollectNotSent DEF SendBatch
<1>6. CASE Finish \/ Respond
  <2>1. conf' = conf /\ srv.pc \in {"finish", "respond"} /\ (Rpc.visits = "keys" => ~srv.last)
    BY <1>6 DEF Finish, Respond, CollectInv, Lookup
  <2>2. \/ \E r : srv' = [srv EXCEPT !.pc = "respond", !.ret = r]
        \/ srv' = [srv EXCEPT !.pc = "over"]
    BY <1>6 DEF Finish, Respond
  <2> QED BY <1>0, <2>1, <2>2, CollectFrame
<1>7. CASE GetOutput \/ (\E b \in DOMAIN back : BackStep(b)) \/ UNCHANGED vars
  <2>1. conf' = conf /\ srv' = srv
    BY <1>7 DEF GetOutput, BackStep, BackInput, BackPull, Callback, BulkCallback, BackRespond, vars
  <2> QED BY <2>1, CollectFrame
<1> QED BY <1>1, <1>2, <1>3, <1>4, <1>5, <1>6, <1>7, CollectFetch, CollectItem DEF Next, ServerStep

-----------------------------------------------------------------------------
(* What the client works on *)

\* The last batch that was sent is the only one that can be at work.
LastSent(k) ==
    /\ Part(conf, k.got, k.start) /\ k.start = Base(conf, srv.sent - 1) /\ k.got # <<>>
    /\ Ends(conf, k.got, k.start) \/ srv.pc \in {"finish", "respond", "over"}
    /\ k.run \in {"input", "pull", "calls", "respond", "answered"}
    /\ k.run = "pull" => Back.pulls
    /\ k.run \in {"pull", "calls"} =>
         /\ k.todo \subseteq 1 .. Len(k.got)
         /\ Back.whole => k.todo = 1 .. Len(k.got)
         /\ ~conf.pool => \E j \in 1 .. Len(k.got) + 1 : k.todo = j .. Len(k.got)

SentInv ==
    /\ srv.sent \in 0 .. Len(conf.items) /\ previous \in {0, srv.sent}
    /\ srv.sent > 0 => LastSent(back[srv.sent])

LEMMA SentInit == Init => SentInv
<1> SUFFICES ASSUME Init PROVE SentInv
  OBVIOUS
<1>1. srv.sent = 0 /\ previous = 0 /\ Len(conf.items) \in Nat
  BY Sizes DEF Init
<1> QED BY <1>1 DEF SentInv

LEMMA WorksOnLast ==
  ASSUME MemInv, SentInv, NEW b \in DOMAIN back, Active(b)
  PROVE  b = srv.sent /\ srv.sent > 0 /\ srv.sent \in Nat /\ LastSent(back[srv.sent])
<1>1. b = previous /\ b \in 1 .. Len(conf.items) + 1 /\ Len(conf.items) \in Nat
  BY Sizes DEF MemInv
<1> QED BY <1>1 DEF SentInv

\* The batch that goes.
LEMMA SentSend ==
  ASSUME MemInv, CollectInv, SentInv, srv.pc = "send", conf' = conf,
         srv' = Advanced, previous' = srv.sent + 1,
         back' = [back EXCEPT ![srv.sent + 1] =
                   [NoBack EXCEPT !.run = "input", !.start = srv.count, !.got = srv.cur]]
  PROVE  /\ SentInv' /\ srv'.sent = srv.sent + 1 /\ srv'.sent > 0
         /\ back'[srv'.sent] =
              [NoBack EXCEPT !.run = "input", !.start = srv.count, !.got = srv.cur]
<1>k. PICK k : k = [NoBack EXCEPT !.run = "input", !.start = srv.count, !.got = srv.cur]
  OBVIOUS
<1>0. /\ srv.sent \in Nat /\ DOMAIN srv = SrvFields /\ conf \in Setups
      /\ srv.count = Base(conf, srv.sent) /\ Part(conf, srv.cur, srv.count)
      /\ srv.cur # <<>> /\ (Ends(conf, srv.cur, srv.count) \/ srv.last)
      /\ DOMAIN back = 1 .. Len(conf.items) + 1
      /\ Len(conf.items) \in Nat /\ Size(conf) \in Nat /\ srv.last \in BOOLEAN
  BY Sizes DEF CollectInv, MemInv, Ready, Sending
<1>1. /\ srv'.sent = srv.sent + 1
      /\ srv'.pc = IF srv.last THEN "finish" ELSE "loop"
  BY <1>0 DEF Advanced, SrvFields
<1>2. srv.sent + 1 \in 1 .. Len(conf.items)
  <2>1. srv.cur \in Seq(Found(conf)) /\ Len(srv.cur) \in Nat /\ srv.count \in Nat
        /\ Len(srv.cur) <= Size(conf) /\ srv.count + Len(srv.cur) <= Len(conf.items)
    BY <1>0 DEF Part
  <2>2. Len(srv.cur) > 0
    BY <1>0, <2>1, EmptySeq
  <2>3. srv.sent <= srv.count
    BY <1>0, <2>1, <2>2, Bases
  <2> QED BY <1>0, <2>1, <2>2, <2>3
<1>3. back'[srv.sent + 1] = k
  BY <1>0, <1>2, <1>k
<1>4. /\ k.run = "input" /\ k.start = srv.count /\ k.got = srv.cur
  BY <1>k DEF NoBack
<1>5. srv'.sent - 1 = srv.sent
  BY <1>0, <1>1
<1>6. LastSent(k)'
  <2>1. Part(conf', k.got, k.start) /\ k.start = Base(conf', srv'.sent - 1) /\ k.got # <<>>
    BY <1>0, <1>4, <1>5
  <2>2. Ends(conf', k.got, k.start) \/ srv'.pc \in {"finish", "respond", "over"}
    BY <1>0, <1>1, <1>4
  <2> QED BY <1>4, <2>1, <2>2 DEF LastSent
<1>7. SentInv'
  <2>1. LastSent(back[srv.sent])'
    BY <1>1, <1>3, <1>6
  <2> QED BY <1>0, <1>1, <1>2, <2>1 DEF SentInv
<1> QED BY <1>0, <1>1, <1>3, <1>7, <1>k

\* The rest of the handler leaves the batch alone.
LEMMA SentFrame ==
  ASSUME MemInv, SentInv, conf' = conf, srv'.sent = srv.sent, back' = back,
         previous' \in {0, previous},
         \/ srv.pc \notin {"finish", "respond", "over"}
         \/ srv'.pc \in {"finish", "respond", "over"}
  PROVE  SentInv'
<1>1. srv.sent > 0 => LastSent(back[srv.sent])
  BY DEF SentInv
<1>2. srv.sent > 0 => LastSent(back[srv.sent])'
  BY <1>1 DEF LastSent, Back
<1> QED BY <1>2 DEF SentInv

\* What a handler of the client does to its batch, k before and n after.
Quietly == delivered' = delivered

Takes(k, n) == /\ k.run = "input" /\ n.todo = 1 .. Len(k.got)
               /\ n.run = "calls" \/ (n.run = "pull" /\ Back.pulls /\ ~Back.whole)
               /\ n.ret = k.ret /\ Quietly
Pulls(k, n) == /\ k.run = "pull" /\ n.run = "calls" /\ n.todo = k.todo /\ n.ret = k.ret /\ Quietly
Fails(k, n) == /\ n.run \in {"respond", "answered"} /\ n.ret = "FromMercury" /\ Quietly
               /\ \/ conf.faults # {} \/ (Back.pulls /\ srv.sent \notin exposed)
CallsOne(k, n, i) ==
    /\ k.run = "calls" /\ ~Back.whole /\ i \in k.todo /\ (conf.pool \/ i = Min(k.todo))
    /\ delivered' = Append(delivered, Argument(srv.sent, i))
    /\ \/ ~conf.pool /\ n.run = "respond" /\ n.ret = Says(srv.sent, i) /\ n.ret # "OK"
       \/ /\ n.run = "calls" /\ n.todo = k.todo \ {i} /\ n.ret = k.ret
          /\ conf.pool \/ Says(srv.sent, i) = "OK"
CallsAll(k, n) ==
    /\ k.run = "calls" /\ Back.whole /\ n.run = "respond"
    /\ delivered' = delivered \o [i \in 1 .. Len(k.got) |-> Argument(srv.sent, i)]
    /\ \/ n.ret = "OK"
       \/ n.ret = conf.says /\ \E i \in 1 .. Len(k.got) : Says(srv.sent, i) # "OK"
RepliesTo(k, n) ==
    /\ k.run = "respond" \/ (k.run = "calls" /\ k.todo = {} /\ ~Back.whole)
    /\ n.run = "answered" /\ n.ret = k.ret /\ Quietly

Works(k, n) == \/ Takes(k, n) \/ Pulls(k, n) \/ Fails(k, n) \/ CallsAll(k, n) \/ RepliesTo(k, n)
               \/ \E i \in k.todo : CallsOne(k, n, i)

\* And it keeps its items.
LEMMA BackCases ==
  ASSUME MemInv, SentInv, NEW b \in DOMAIN back, BackStep(b)
  PROVE  /\ b = srv.sent /\ srv.sent > 0 /\ srv.sent \in Nat /\ LastSent(back[b])
         /\ Active(b) /\ UNCHANGED <<conf, srv, previous>>
         /\ back'[b].start = back[b].start /\ back'[b].got = back[b].got
         /\ Works(back[b], back'[b])
         /\ DOMAIN back[b].got = 1 .. Len(back[b].got) /\ Len(back[b].got) \in Nat \ {0}
<1> USE DEF BackFields
<1>1. Active(b) /\ UNCHANGED <<conf, cl, srv, previous, exposed>>
  BY DEF BackStep, BackInput, BackPull, Callback, BulkCallback, BackRespond, Active
<1>2. b = srv.sent /\ srv.sent > 0 /\ srv.sent \in Nat /\ LastSent(back[b])
  BY <1>1, WorksOnLast
<1>3. PICK k : k = back[b]
  OBVIOUS
<1>4. PICK n : n = back'[b]
  OBVIOUS
<1>5. DOMAIN k = BackFields
  BY <1>3 DEF MemInv
<1>7. Len(k.got) \in Nat \ {0} /\ DOMAIN k.got = 1 .. Len(k.got)
  <2>1. k.got \in Seq(Found(conf)) /\ k.got # <<>>
    BY <1>2, <1>3 DEF LastSent, Part
  <2> QED BY <2>1, EmptySeq
<1>8. n.start = k.start /\ n.got = k.got /\ Works(k, n)
  <2>f. ASSUME NEW what, BackFails(b, what), delivered' = delivered
        PROVE  n.start = k.start /\ n.got = k.got /\ Works(k, n)
    <3>1. n = [k EXCEPT !.run = "respond", !.ret = "FromMercury"] /\ conf.faults # {}
      BY <1>3, <1>4, <1>5, <2>f DEF BackFails, MayFail
    <3>2. n.start = k.start /\ n.got = k.got /\ n.run = "respond" /\ n.ret = "FromMercury"
      BY <1>5, <3>1
    <3> QED BY <2>f, <3>1, <3>2 DEF Works, Fails, Quietly
  <2>1. CASE BackInput(b)
    <3>1. CASE back' = [back EXCEPT ![b].run = IF Back.pulls /\ ~Back.whole THEN "pull"
                                               ELSE "calls",
                                    ![b].todo = DOMAIN back[b].got]
      <4>0. PICK r \in {"pull", "calls"} :
              r = IF Back.pulls /\ ~Back.whole THEN "pull" ELSE "calls"
        OBVIOUS
      <4>1. n = [k EXCEPT !.run = r, !.todo = DOMAIN k.got]
        BY <1>3, <1>4, <1>5, <3>1, <4>0
      <4>2. /\ n.start = k.start /\ n.got = k.got
            /\ n.run = "calls" \/ (n.run = "pull" /\ Back.pulls /\ ~Back.whole)
            /\ n.todo = 1 .. Len(k.got) /\ n.ret = k.ret
        BY <1>5, <1>7, <4>0, <4>1
      <4>3. k.run = "input" /\ delivered' = delivered
        BY <1>3, <2>1 DEF BackInput
      <4> QED BY <4>2, <4>3 DEF Works, Takes, Quietly
    <3> QED BY <2>1, <2>f, <3>1 DEF BackInput
  <2>2. CASE BackPull(b)
    <3>0. k.run = "pull" /\ delivered' = delivered
      BY <1>3, <2>2 DEF BackPull
    <3>1. CASE b \in exposed /\ back' = [back EXCEPT ![b].run = "calls"]
      <4>1. n = [k EXCEPT !.run = "calls"]
        BY <1>3, <1>4, <1>5, <3>1
      <4>2. /\ n.start = k.start /\ n.got = k.got /\ n.run = "calls"
            /\ n.todo = k.todo /\ n.ret = k.ret
        BY <1>5, <4>1
      <4> QED BY <3>0, <4>2 DEF Works, Pulls, Quietly
    <3>p. Back.pulls
      BY <1>2, <1>3, <3>0 DEF LastSent
    <3>2. CASE /\ b \notin exposed
               /\ back' = [back EXCEPT ![b].run = "respond", ![b].ret = "FromMercury"]
      <4>1. n = [k EXCEPT !.run = "respond", !.ret = "FromMercury"]
        BY <1>3, <1>4, <1>5, <3>2
      <4>2. n.start = k.start /\ n.got = k.got /\ n.run = "respond" /\ n.ret = "FromMercury"
        BY <1>5, <4>1
      <4> QED BY <1>2, <3>0, <3>2, <3>p, <4>2 DEF Works, Fails, Quietly
    <3> QED BY <2>2, <2>f, <3>0, <3>1, <3>2 DEF BackPull
  <2>3. CASE Callback(b)
    <3>1. PICK i \in k.todo :
            /\ conf.pool \/ i = Min(k.todo)
            /\ delivered' = Append(delivered, Argument(b, i))
            /\ back' = IF ~conf.pool /\ Says(b, i) # "OK"
                       THEN [back EXCEPT ![b].run = "respond", ![b].ret = Says(b, i)]
                       ELSE [back EXCEPT ![b].todo = @ \ {i}]
      BY <1>3, <2>3 DEF Callback
    <3>2. k.run = "calls" /\ ~Back.whole
      BY <1>3, <2>3 DEF Callback
    <3>3. n = IF ~conf.pool /\ Says(b, i) # "OK"
              THEN [k EXCEPT !.run = "respond", !.ret = Says(b, i)]
              ELSE [k EXCEPT !.todo = @ \ {i}]
      BY <1>3, <1>4, <3>1
    <3>4. n.start = k.start /\ n.got = k.got
      BY <1>5, <3>3
    <3>5. CASE ~conf.pool /\ Says(b, i) # "OK"
      <4>1. n.run = "respond" /\ n.ret = Says(b, i)
        BY <1>5, <3>3, <3>5
      <4>2. CallsOne(k, n, i)
        BY <1>2, <3>1, <3>2, <3>5, <4>1 DEF CallsOne
      <4> QED BY <3>4, <4>2 DEF Works
    <3>6. CASE conf.pool \/ Says(b, i) = "OK"
      <4>1. n.run = "calls" /\ n.todo = k.todo \ {i} /\ n.ret = k.ret
        BY <1>5, <3>2, <3>3, <3>6
      <4>2. CallsOne(k, n, i)
        BY <1>2, <3>1, <3>2, <3>6, <4>1 DEF CallsOne
      <4> QED BY <3>4, <4>2 DEF Works
    <3> QED BY <3>5, <3>6
  <2>4. CASE BulkCallback(b)
    <3>1. /\ k.run = "calls" /\ Back.whole
          /\ delivered' = delivered \o [i \in 1 .. Len(k.got) |-> Argument(b, i)]
      BY <1>3, <1>7, <2>4 DEF BulkCallback
    <3>2. \E r : /\ n = [k EXCEPT !.run = "respond", !.ret = r]
                 /\ r = "OK" \/ (r = conf.says /\ \E i \in 1 .. Len(k.got) : Says(b, i) # "OK")
      BY <1>3, <1>4, <1>5, <1>7, <2>4 DEF BulkCallback
    <3>3. /\ n.start = k.start /\ n.got = k.got /\ n.run = "respond"
          /\ \/ n.ret = "OK"
             \/ n.ret = conf.says /\ \E i \in 1 .. Len(k.got) : Says(b, i) # "OK"
      BY <1>5, <3>2
    <3> QED BY <1>2, <3>1, <3>3 DEF Works, CallsAll
  <2>5. CASE BackRespond(b)
    <3>0. /\ k.run = "respond" \/ (k.run = "calls" /\ k.todo = {} /\ ~Back.whole)
          /\ delivered' = delivered
      BY <1>3, <2>5 DEF BackRespond
    <3>1. CASE back' = [back EXCEPT ![b].run = "answered"]
      <4>1. n = [k EXCEPT !.run = "answered"]
        BY <1>3, <1>4, <3>1
      <4>2. n.start = k.start /\ n.got = k.got /\ n.run = "answered" /\ n.ret = k.ret
        BY <1>5, <4>1
      <4> QED BY <3>0, <4>2 DEF Works, RepliesTo, Quietly
    <3>2. CASE /\ MayFail("back_respond")
               /\ back' = [back EXCEPT ![b].run = "answered", ![b].ret = "FromMercury"]
      <4>1. n = [k EXCEPT !.run = "answered", !.ret = "FromMercury"] /\ conf.faults # {}
        BY <1>3, <1>4, <3>2 DEF MayFail
      <4>2. n.start = k.start /\ n.got = k.got /\ n.run = "answered" /\ n.ret = "FromMercury"
        BY <1>5, <4>1
      <4> QED BY <3>0, <4>1, <4>2 DEF Works, Fails, Quietly
    <3> QED BY <2>5, <3>1, <3>2 DEF BackRespond
  <2> QED BY <2>1, <2>2, <2>3, <2>4, <2>5 DEF BackStep
<1> QED BY <1>1, <1>2, <1>3, <1>4, <1>7, <1>8

LEMMA FirstOf ==
  ASSUME NEW j \in Nat, NEW m \in Nat, j <= m
  PROVE  Min(j .. m) = j /\ (j .. m) \ {j} = j + 1 .. m
<1>1. \E x \in j .. m : \A y \in j .. m : x <= y
  OBVIOUS
<1>2. Min(j .. m) \in j .. m /\ \A y \in j .. m : Min(j .. m) <= y
  BY <1>1 DEF Min
<1> QED BY <1>2

\* Without a pool the callbacks go on from the first that is left.
LEMMA InTurn ==
  ASSUME NEW k, ~conf.pool, Len(k.got) \in Nat,
         NEW j \in 1 .. Len(k.got) + 1, k.todo = j .. Len(k.got), NEW i \in k.todo, i = Min(k.todo)
  PROVE  i = j /\ j <= Len(k.got) /\ k.todo \ {i} = j + 1 .. Len(k.got)
         /\ j + 1 \in 1 .. Len(k.got) + 1
<1>1. j \in Nat /\ j <= Len(k.got)
  OBVIOUS
<1> QED BY <1>1, FirstOf

LEMMA SentBack ==
  ASSUME MemInv, SentInv, NEW b \in DOMAIN back, BackStep(b)
  PROVE  SentInv'
<1>1. PICK k : k = back[b]
  OBVIOUS
<1>2. PICK n : n = back'[b]
  OBVIOUS
<1>3. /\ b = srv.sent /\ LastSent(k) /\ UNCHANGED <<conf, srv, previous>>
      /\ n.start = k.start /\ n.got = k.got /\ Works(k, n) /\ Len(k.got) \in Nat \ {0}
  BY <1>1, <1>2, BackCases
<1>4. n.run = "pull" => Back.pulls
  BY <1>3 DEF Works, Takes, Pulls, Fails, CallsOne, CallsAll, RepliesTo
<1>5. n.run \in {"pull", "calls", "respond", "answered"}
  BY <1>3 DEF Works, Takes, Pulls, Fails, CallsOne, CallsAll, RepliesTo
<1>6. ASSUME n.run \in {"pull", "calls"}
      PROVE  /\ n.todo \subseteq 1 .. Len(k.got)
             /\ Back.whole => n.todo = 1 .. Len(k.got)
             /\ ~conf.pool => \E j \in 1 .. Len(k.got) + 1 : n.todo = j .. Len(k.got)
  <2>1. CASE Takes(k, n)
    <3>1. 1 \in 1 .. Len(k.got) + 1
      BY <1>3
    <3> QED BY <2>1, <3>1 DEF Takes
  <2>2. CASE Pulls(k, n)
    BY <1>3, <2>2 DEF Pulls, LastSent
  <2>3. ASSUME NEW i \in k.todo, CallsOne(k, n, i)
        PROVE  /\ n.todo \subseteq 1 .. Len(k.got) /\ ~Back.whole
               /\ ~conf.pool => \E j \in 1 .. Len(k.got) + 1 : n.todo = j .. Len(k.got)
    <3>1. n.todo = k.todo \ {i} /\ k.run = "calls" /\ ~Back.whole
      BY <1>6, <2>3 DEF CallsOne
    <3>2. ASSUME ~conf.pool PROVE \E j \in 1 .. Len(k.got) + 1 : n.todo = j .. Len(k.got)
      <4>1. PICK j \in 1 .. Len(k.got) + 1 : k.todo = j .. Len(k.got)
        BY <1>3, <3>1, <3>2 DEF LastSent
      <4>2. i = Min(k.todo) /\ Len(k.got) \in Nat
        BY <1>3, <2>3, <3>2 DEF CallsOne
      <4>3. k.todo \ {i} = j + 1 .. Len(k.got) /\ j + 1 \in 1 .. Len(k.got) + 1
        BY <3>2, <4>1, <4>2, InTurn
      <4> QED BY <1>3, <3>1, <4>3
    <3> QED BY <1>3, <3>1, <3>2 DEF LastSent
  <2>4. Takes(k, n) \/ Pulls(k, n) \/ \E i \in k.todo : CallsOne(k, n, i)
    BY <1>3, <1>6 DEF Works, Fails, CallsAll, RepliesTo
  <2> QED BY <2>1, <2>2, <2>3, <2>4
<1>7. LastSent(n)'
  <2>1. Part(conf', n.got, n.start) /\ n.start = Base(conf', srv'.sent - 1) /\ n.got # <<>>
    BY <1>3 DEF LastSent
  <2>2. Ends(conf', n.got, n.start) \/ srv'.pc \in {"finish", "respond", "over"}
    BY <1>3 DEF LastSent
  <2> QED BY <1>3, <1>4, <1>5, <1>6, <2>1, <2>2 DEF LastSent, Back
<1>8. LastSent(back[srv.sent])'
  BY <1>2, <1>3, <1>7
<1> QED BY <1>3, <1>8 DEF SentInv

LEMMA SentNext == MemInv /\ CollectInv /\ SentInv /\ [Next]_vars => SentInv'
<1> SUFFICES ASSUME MemInv, CollectInv, SentInv, [Next]_vars PROVE SentInv'
  OBVIOUS
<1> USE DEF SrvFields
<1>d. DOMAIN srv = SrvFields
  BY DEF CollectInv
<1>n. ASSUME NEW ret, NotSent(ret) PROVE srv'.sent = srv.sent
  BY <1>d, <1>n DEF NotSent
<1>1. CASE SendBatch
  <2>1. srv.pc = "send" /\ conf' = conf
    BY <1>1 DEF SendBatch
  <2>2. CASE /\ srv' = Advanced /\ previous' = srv.sent + 1
             /\ back' = [back EXCEPT ![srv.sent + 1] =
                   [NoBack EXCEPT !.run = "input", !.start = srv.count, !.got = srv.cur]]
    BY <2>1, <2>2, SentSend
  <2>3. CASE NotSent("FromMercury") /\ UNCHANGED <<previous, back>>
    BY <1>n, <2>1, <2>3, SentFrame
  <2> QED BY <1>1, <2>2, <2>3 DEF SendBatch
<1>2. CASE \/ Forward \/ GetOutput \/ Check \/ FetchBatch \/ IterItem \/ Flush
           \/ ExposeBatch \/ WaitBeforeSend \/ UNCHANGED vars
  <2>1. conf' = conf /\ back' = back /\ previous' \in {0, previous}
    BY <1>2 DEF Forward, GetOutput, Check, FetchBatch, IterItem, Flush, ExposeBatch,
                WaitBeforeSend, vars
  <2>2. srv'.sent = srv.sent
    BY <1>2, <1>d, <1>n DEF Forward, GetOutput, Check, FetchBatch, IterItem, Flush, ExposeBatch,
                WaitBeforeSend, vars
  <2>3. srv' = srv \/ srv.pc \notin {"finish", "respond", "over"}
    BY <1>2 DEF Forward, GetOutput, Check, FetchBatch, IterItem, Flush, ExposeBatch,
                WaitBeforeSend, vars, MemInv, Waits
  <2> QED BY <2>1, <2>2, <2>3, SentFrame
<1>3. CASE Finish \/ Respond
  <2>1. conf' = conf /\ back' = back /\ previous' \in {0, previous}
    BY <1>3 DEF Finish, Respond
  <2>2. srv'.sent = srv.sent /\ srv'.pc \in {"respond", "over"}
    BY <1>3, <1>d DEF Finish, Respond
  <2> QED BY <2>1, <2>2, SentFrame
<1> QED BY <1>1, <1>2, <1>3, SentBack DEF Next, ServerStep

-----------------------------------------------------------------------------
(* What the callback is given *)

\* fetch takes the keys of every batch from the beginning of the context
\* (client/fetch.cpp:389).
KeysRight(c) ==
  c.fn.back.keys = "context" =>
    \/ Len(c.items) <= Size(c)
    \/ \A i, j \in DOMAIN c.items : c.items[i] = c.items[j]

DeliveredAt(c, n) == [index |-> n - 1, key |-> ItemAt(c, n).key, val |-> ItemAt(c, n).val]
Deliveries(c) == {DeliveredAt(c, n) : n \in 1 .. Len(c.items)}

\* n may come after m.
Apart(c, m, n) == IF c.pool THEN m # n ELSE m < n
Before(c, m, n) == Apart(c, m, n) /\ (c.pool => BatchOf(c, m) <= BatchOf(c, n))
InOrder(c, d) == \A p, q \in 1 .. Len(d) : q < p => Before(c, d[q].index, d[p].index)

LEMMA DeliveryAt ==
  ASSUME NEW c, NEW n \in 1 .. Len(c.items)
  PROVE  DeliveredAt(c, n) \in Deliveries(c) /\ DeliveredAt(c, n).index = n - 1
BY DEF Deliveries, DeliveredAt

LEMMA DeliveryFacts ==
  ASSUME NEW c \in Setups, NEW d \in Deliveries(c), conf = c
  PROVE  /\ d.index \in Nat /\ d.index + 1 \in DOMAIN c.items /\ d.key = c.items[d.index + 1]
         /\ d.val = ValueOf(d.key)
<1>1. c.items \in Seq(ToSet(c.items)) /\ Len(c.items) \in Nat
  BY Sizes, SetupsAssumption DEF SetupsAssumption
<1>2. PICK n \in 1 .. Len(c.items) : d = DeliveredAt(c, n)
  BY DEF Deliveries
<1>3. /\ d.index = n - 1 /\ d.key = c.items[n]
      /\ d.val = IF c.items[n] \in c.absent THEN "KEY_NOT_FOUND" ELSE <<"value of", c.items[n]>>
  BY <1>2 DEF DeliveredAt, ItemAt
<1>4. (n - 1) + 1 = n /\ n - 1 \in Nat /\ n \in DOMAIN c.items
  BY <1>1
<1> QED BY <1>3, <1>4 DEF ValueOf

LEMMA OrderExtends ==
  ASSUME NEW c \in Setups, NEW d \in Seq(Deliveries(c)), NEW e \in Seq(Deliveries(c)),
         InOrder(c, d), InOrder(c, e),
         \A p \in 1 .. Len(d), q \in 1 .. Len(e) : Before(c, d[p].index, e[q].index)
  PROVE  InOrder(c, d \o e) /\ d \o e \in Seq(Deliveries(c))
<1>1. /\ d \o e \in Seq(Deliveries(c)) /\ Len(d \o e) = Len(d) + Len(e)
      /\ Len(d) \in Nat /\ Len(e) \in Nat
      /\ \A i \in 1 .. Len(d) + Len(e) :
           (d \o e)[i] = IF i <= Len(d) THEN d[i] ELSE e[i - Len(d)]
  BY ConcatProperties
<1>2. ASSUME NEW p \in 1 .. Len(d \o e), NEW q \in 1 .. Len(d \o e), q < p
      PROVE  Before(c, (d \o e)[q].index, (d \o e)[p].index)
  <2>1. CASE p <= Len(d)
    <3>1. p \in 1 .. Len(d) /\ q \in 1 .. Len(d)
      BY <1>1, <1>2, <2>1
    <3>2. (d \o e)[p] = d[p] /\ (d \o e)[q] = d[q]
      BY <1>1, <1>2, <2>1
    <3> QED BY <1>2, <3>1, <3>2 DEF InOrder
  <2>2. CASE q > Len(d)
    <3>1. p - Len(d) \in 1 .. Len(e) /\ q - Len(d) \in 1 .. Len(e) /\ q - Len(d) < p - Len(d)
      BY <1>1, <1>2, <2>2
    <3>2. (d \o e)[p] = e[p - Len(d)] /\ (d \o e)[q] = e[q - Len(d)]
      BY <1>1, <1>2, <2>2
    <3> QED BY <3>1, <3>2 DEF InOrder
  <2>3. CASE p > Len(d) /\ q <= Len(d)
    <3>1. p - Len(d) \in 1 .. Len(e) /\ q \in 1 .. Len(d)
      BY <1>1, <1>2, <2>3
    <3>2. (d \o e)[p] = e[p - Len(d)] /\ (d \o e)[q] = d[q]
      BY <1>1, <1>2, <2>3
    <3> QED BY <3>1, <3>2
  <2> QED BY <1>1, <1>2, <2>1, <2>2, <2>3
<1> QED BY <1>1, <1>2 DEF InOrder

\* The items of the batch that the callback has not been given.
Undelivered(k) == IF k.run = "input" THEN 1 .. Len(k.got)
                  ELSE IF k.run \in {"pull", "calls"} THEN k.todo ELSE {}

DelInv ==
    /\ delivered \in Seq(Deliveries(conf)) /\ InOrder(conf, delivered)
    /\ srv.sent = 0 => delivered = <<>>
    /\ srv.sent > 0 =>
         /\ \A p \in 1 .. Len(delivered) : delivered[p].index < Base(conf, srv.sent)
         /\ \A p \in 1 .. Len(delivered) : \A i \in Undelivered(back[srv.sent]) :
              Apart(conf, delivered[p].index, back[srv.sent].start + i - 1)

LEMMA ArgumentIs ==
  ASSUME MemInv, SentInv, KeysRight(conf), srv.sent > 0, srv.sent \in Nat,
         LastSent(back[srv.sent]), NEW i \in 1 .. Len(back[srv.sent].got)
  PROVE  /\ Argument(srv.sent, i) = DeliveredAt(conf, back[srv.sent].start + i)
         /\ back[srv.sent].start + i \in 1 .. Len(conf.items)
<1>1. PICK k : k = back[srv.sent]
  OBVIOUS
<1>2. /\ conf \in Setups /\ k.start \in Nat /\ Len(k.got) \in Nat /\ k.start = Base(conf, srv.sent - 1)
      /\ k.start + Len(k.got) <= Len(conf.items) /\ k.got[i] = ItemAt(conf, k.start + i)
      /\ Len(conf.items) \in Nat /\ Size(conf) \in Nat /\ i \in Nat /\ i >= 1 /\ i <= Len(k.got)
      /\ (Len(conf.items) > 0 => Size(conf) > 0)
  <2>1. conf \in Setups
    BY DEF MemInv
  <2>2. Part(conf, k.got, k.start) /\ k.start = Base(conf, srv.sent - 1)
    BY <1>1 DEF LastSent
  <2>3. /\ k.start \in Nat /\ Len(k.got) \in Nat /\ k.start + Len(k.got) <= Len(conf.items)
        /\ k.got[i] = ItemAt(conf, k.start + i)
    BY <1>1, <2>2 DEF Part
  <2>4. i \in Nat /\ i >= 1 /\ i <= Len(k.got)
    BY <1>1, <2>3
  <2> QED BY <2>1, <2>2, <2>3, <2>4, Sizes
<1>3. k.start + i \in 1 .. Len(conf.items) /\ i \in 1 .. Len(conf.items)
  BY <1>2
<1>4. DOMAIN conf.items = 1 .. Len(conf.items)
  BY <1>2, SetupsAssumption DEF SetupsAssumption
<1>5. ASSUME Back.keys = "context" PROVE conf.items[i] = conf.items[k.start + i]
  <2>1. CASE Len(conf.items) <= Size(conf)
    <3>1. CASE srv.sent = 1
      <4>1. k.start = 0
        BY <1>2, <3>1, Bases
      <4> QED BY <1>2, <4>1
    <3>2. CASE srv.sent # 1
      <4>1. PICK m \in Nat : srv.sent - 1 = m + 1
        <5>1. srv.sent - 2 \in Nat /\ srv.sent - 1 = (srv.sent - 2) + 1
          BY <3>2
        <5> QED BY <5>1
      <4>2. k.start = Base(conf, m) + Size(conf) /\ Base(conf, m) \in Nat
        BY <1>2, <4>1, Bases
      <4> QED BY <1>2, <2>1, <4>2
    <3> QED BY <3>1, <3>2
  <2>2. CASE \A x, y \in DOMAIN conf.items : conf.items[x] = conf.items[y]
    BY <1>3, <1>4, <2>2
  <2> QED BY <1>5, <2>1, <2>2 DEF KeysRight, Back
<1>6. ItemAt(conf, k.start + i).key = conf.items[k.start + i]
  BY DEF ItemAt
<1>7. Argument(srv.sent, i).key = ItemAt(conf, k.start + i).key
  BY <1>1, <1>2, <1>5, <1>6 DEF Argument
<1>8. Argument(srv.sent, i) = [index |-> (k.start + i) - 1, key |-> Argument(srv.sent, i).key,
                               val |-> ItemAt(conf, k.start + i).val]
  <2>1. k.start + i - 1 = (k.start + i) - 1
    BY <1>2
  <2> QED BY <1>1, <1>2, <2>1 DEF Argument
<1> QED BY <1>1, <1>3, <1>7, <1>8 DEF DeliveredAt

\* Where the items of the last batch are.
LEMMA Places ==
  ASSUME MemInv, SentInv, srv.sent > 0, srv.sent \in Nat, NEW k, k = back[srv.sent], LastSent(k),
         NEW i \in 1 .. Len(k.got)
  PROVE  /\ k.start + i - 1 \in Nat /\ k.start \in Nat /\ Len(k.got) \in Nat
         /\ BatchOf(conf, k.start + i - 1) = srv.sent - 1
         /\ k.start + i - 1 < Base(conf, srv.sent)
<1> DEFINE m == srv.sent - 1
<1>1. /\ conf \in Setups /\ k.start \in Nat /\ Len(k.got) \in Nat /\ k.start = Base(conf, m)
      /\ Len(k.got) <= Size(conf) /\ Size(conf) \in Nat
  BY Sizes DEF MemInv, LastSent, Part
<1>2. m \in Nat /\ m + 1 = srv.sent
  OBVIOUS
<1> HIDE DEF m
<1>3. Base(conf, m + 1) = k.start + Size(conf)
  BY <1>1, <1>2, Bases
<1> DEFINE x == k.start + i - 1
<1>4. x \in Nat /\ x < Base(conf, m + 1) /\ Base(conf, m) <= x /\ Size(conf) > 0
  BY <1>1, <1>3
<1> HIDE DEF x
<1>5. BatchOf(conf, x) = m
  BY <1>1, <1>2, <1>4, BatchBounds
<1> QED BY <1>1, <1>2, <1>4, <1>5 DEF x, m

\* The callback is given what is left of the last batch.
LEMMA Deliver ==
  ASSUME MemInv, SentInv, DelInv, srv.sent > 0, srv.sent \in Nat,
         NEW k, k = back[srv.sent], LastSent(k), Undelivered(k) \subseteq 1 .. Len(k.got),
         NEW e \in Seq(Deliveries(conf)), InOrder(conf, e),
         \A q \in 1 .. Len(e) : \E i \in Undelivered(k) : e[q].index = k.start + i - 1
  PROVE  /\ delivered \o e \in Seq(Deliveries(conf)) /\ InOrder(conf, delivered \o e)
         /\ \A p \in 1 .. Len(delivered \o e) : (delivered \o e)[p].index < Base(conf, srv.sent)
<1>0. conf \in Setups /\ delivered \in Seq(Deliveries(conf)) /\ InOrder(conf, delivered)
  BY DEF MemInv, DelInv
<1>1. ASSUME NEW p \in 1 .. Len(delivered), NEW q \in 1 .. Len(e)
      PROVE  Before(conf, delivered[p].index, e[q].index)
  <2>1. PICK i \in Undelivered(k) : e[q].index = k.start + i - 1
    OBVIOUS
  <2>2. i \in 1 .. Len(k.got)
    BY <2>1
  <2>3. PICK x : x = delivered[p].index
    OBVIOUS
  <2>4. x \in Nat /\ x < Base(conf, srv.sent) /\ Apart(conf, x, k.start + i - 1)
    <3>1. delivered[p] \in Deliveries(conf)
      BY <1>0
    <3> QED BY <1>0, <2>1, <2>3, <3>1, DeliveryFacts DEF DelInv
  <2>5. BatchOf(conf, x) <= srv.sent - 1
    <3>1. srv.sent - 1 \in Nat /\ (srv.sent - 1) + 1 = srv.sent
      OBVIOUS
    <3>2. Size(conf) > 0
      <4>1. k.got # <<>> /\ k.got \in Seq(Found(conf)) /\ Len(k.got) <= Size(conf)
            /\ Size(conf) \in Nat
        BY <1>0, Sizes DEF LastSent, Part
      <4> QED BY <4>1, EmptySeq
    <3> QED BY <1>0, <2>4, <3>1, <3>2, BatchBounds
  <2>6. BatchOf(conf, k.start + i - 1) = srv.sent - 1
    BY <2>2, Places
  <2> QED BY <2>1, <2>3, <2>4, <2>5, <2>6 DEF Before
<1>2. delivered \o e \in Seq(Deliveries(conf)) /\ InOrder(conf, delivered \o e)
  BY <1>0, <1>1, OrderExtends
<1>3. /\ Len(delivered \o e) = Len(delivered) + Len(e)
      /\ Len(delivered) \in Nat /\ Len(e) \in Nat
      /\ \A i \in 1 .. Len(delivered) + Len(e) :
           (delivered \o e)[i] = IF i <= Len(delivered) THEN delivered[i] ELSE e[i - Len(delivered)]
  BY <1>0, ConcatProperties
<1>4. ASSUME NEW p \in 1 .. Len(delivered \o e)
      PROVE  (delivered \o e)[p].index < Base(conf, srv.sent)
  <2>1. CASE p <= Len(delivered)
    BY <1>3, <2>1 DEF DelInv
  <2>2. CASE p > Len(delivered)
    <3>1. p - Len(delivered) \in 1 .. Len(e) /\ (delivered \o e)[p] = e[p - Len(delivered)]
      BY <1>3, <2>2
    <3>2. PICK i \in Undelivered(k) : e[p - Len(delivered)].index = k.start + i - 1
      BY <3>1
    <3>3. i \in 1 .. Len(k.got)
      BY <3>2
    <3>4. k.start + i - 1 < Base(conf, srv.sent)
      BY <3>3, Places
    <3> QED BY <3>1, <3>2, <3>4
  <2> QED BY <1>3, <2>1, <2>2
<1> QED BY <1>2, <1>4

LEMMA DelBack ==
  ASSUME MemInv, SentInv, DelInv, KeysRight(conf), NEW b \in DOMAIN back, BackStep(b)
  PROVE  DelInv'
<1>1. PICK k : k = back[b]
  OBVIOUS
<1>2. PICK n : n = back'[b]
  OBVIOUS
<1>3. /\ b = srv.sent /\ srv.sent > 0 /\ srv.sent \in Nat /\ LastSent(k)
      /\ UNCHANGED <<conf, srv, previous>> /\ k = back[srv.sent] /\ n = back'[srv'.sent]
      /\ n.start = k.start /\ n.got = k.got /\ Works(k, n) /\ Len(k.got) \in Nat \ {0}
  BY <1>1, <1>2, BackCases
<1>4. conf \in Setups
  BY DEF MemInv
<1>5. Undelivered(k) \subseteq 1 .. Len(k.got)
  BY <1>3 DEF Undelivered, LastSent
<1>6. CASE Takes(k, n) \/ Pulls(k, n) \/ Fails(k, n) \/ RepliesTo(k, n)
  <2>1. delivered' = delivered /\ Undelivered(n) \subseteq Undelivered(k)
    BY <1>3, <1>6 DEF Takes, Pulls, Fails, RepliesTo, Quietly, Undelivered
  <2>2. Undelivered(back[srv.sent])' = Undelivered(n) /\ (back[srv.sent].start)' = k.start
    BY <1>3 DEF Undelivered
  <2> QED BY <1>3, <2>1, <2>2 DEF DelInv
<1>7. ASSUME NEW i \in k.todo, CallsOne(k, n, i) PROVE DelInv'
  <2>1. /\ k.run = "calls" /\ i \in 1 .. Len(k.got) /\ Undelivered(k) = k.todo
        /\ delivered' = Append(delivered, Argument(srv.sent, i))
    BY <1>5, <1>7 DEF CallsOne, Undelivered
  <2>2. PICK d : d = DeliveredAt(conf, k.start + i)
    OBVIOUS
  <2>3. Argument(srv.sent, i) = d /\ d \in Deliveries(conf) /\ d.index = (k.start + i) - 1
    BY <1>3, <2>1, <2>2, ArgumentIs DEF Deliveries, DeliveredAt
  <2>e. PICK e : e = <<d>>
    OBVIOUS
  <2>4. /\ e \in Seq(Deliveries(conf)) /\ Len(e) = 1 /\ e[1] = d
        /\ delivered' = delivered \o e
    BY <2>1, <2>3, <2>e, AppendIsConcat DEF DelInv
  <2>5. InOrder(conf, e)
    BY <2>4 DEF InOrder
  <2>6. k.start \in Nat /\ i \in Nat /\ k.start + i - 1 = (k.start + i) - 1
    BY <1>3, <2>1, Places
  <2>7. ASSUME NEW q \in 1 .. Len(e) PROVE \E j \in Undelivered(k) : e[q].index = k.start + j - 1
    <3>1. q = 1
      BY <2>4
    <3> QED BY <1>7, <2>1, <2>3, <2>4, <2>6, <3>1
  <2>8. /\ delivered' \in Seq(Deliveries(conf)) /\ InOrder(conf, delivered')
        /\ \A p \in 1 .. Len(delivered') : delivered'[p].index < Base(conf, srv.sent)
    <3>1. /\ Undelivered(k) \subseteq 1 .. Len(k.got) /\ e \in Seq(Deliveries(conf))
          /\ \A q \in 1 .. Len(e) : \E j \in Undelivered(k) : e[q].index = k.start + j - 1
      BY <1>5, <2>4, <2>7
    <3>2. /\ delivered \o e \in Seq(Deliveries(conf)) /\ InOrder(conf, delivered \o e)
          /\ \A p \in 1 .. Len(delivered \o e) : (delivered \o e)[p].index < Base(conf, srv.sent)
      BY <1>3, <2>5, <3>1, Deliver
    <3> QED BY <2>4, <3>2
  <2>9. ASSUME NEW j \in Undelivered(n)
        PROVE  j \in Undelivered(k) /\ Apart(conf, d.index, k.start + j - 1)
    <3>1. n.run = "calls" /\ n.todo = k.todo \ {i} /\ j \in k.todo \ {i}
      BY <1>7, <2>9 DEF CallsOne, Undelivered
    <3>2. j \in 1 .. Len(k.got) /\ j # i
      BY <1>5, <2>1, <3>1
    <3>i. j \in Int /\ i \in Int /\ k.start \in Int /\ d.index = k.start + i - 1
      BY <1>3, <2>3, <2>6, <3>2
    <3>3. CASE conf.pool
      <4>1. d.index # k.start + j - 1
        BY <3>i, <3>2
      <4> QED BY <2>1, <3>1, <3>3, <4>1 DEF Apart
    <3>4. CASE ~conf.pool
      <4>1. PICK f \in 1 .. Len(k.got) + 1 : k.todo = f .. Len(k.got)
        BY <1>3, <2>1, <3>4 DEF LastSent
      <4>2. i = f /\ k.todo \ {i} = f + 1 .. Len(k.got)
        BY <1>3, <1>7, <3>4, <4>1, InTurn DEF CallsOne
      <4>3. i < j
        BY <3>1, <3>2, <4>1, <4>2
      <4>4. d.index < k.start + j - 1
        BY <3>i, <4>3
      <4> QED BY <2>1, <3>1, <3>4, <4>4 DEF Apart
    <3> QED BY <2>1, <3>1, <3>3, <3>4
  <2>10. ASSUME NEW p \in 1 .. Len(delivered'), NEW j \in Undelivered(n)
         PROVE  Apart(conf, delivered'[p].index, k.start + j - 1)
    <3>1. /\ Len(delivered') = Len(delivered) + 1 /\ Len(delivered) \in Nat
          /\ delivered'[Len(delivered) + 1] = d
          /\ \A q \in 1 .. Len(delivered) : delivered'[q] = delivered[q]
      BY <2>1, <2>3, AppendProperties DEF DelInv
    <3>2. CASE p = Len(delivered) + 1
      BY <2>9, <3>1, <3>2
    <3>3. CASE p \in 1 .. Len(delivered)
      BY <1>3, <2>9, <3>1, <3>3 DEF DelInv
    <3> QED BY <3>1, <3>2, <3>3
  <2>11. Undelivered(back[srv.sent])' = Undelivered(n) /\ (back[srv.sent].start)' = k.start
    BY <1>3 DEF Undelivered
  <2> QED BY <1>3, <2>8, <2>10, <2>11 DEF DelInv
<1>8. CASE CallsAll(k, n)
  <2>1. PICK e : e = [i \in 1 .. Len(k.got) |-> Argument(srv.sent, i)]
    OBVIOUS
  <2>2. k.run = "calls" /\ Back.whole /\ delivered' = delivered \o e /\ n.run = "respond"
    BY <1>8, <2>1 DEF CallsAll
  <2>3. Undelivered(k) = 1 .. Len(k.got) /\ Undelivered(n) = {}
    BY <1>3, <2>2 DEF LastSent, Undelivered
  <2>4. ASSUME NEW i \in 1 .. Len(k.got)
        PROVE  e[i] \in Deliveries(conf) /\ e[i].index = k.start + i - 1
    <3>1. e[i] = DeliveredAt(conf, k.start + i) /\ k.start + i \in 1 .. Len(conf.items)
      BY <1>3, <2>1, ArgumentIs
    <3>2. k.start \in Nat /\ k.start + i - 1 = (k.start + i) - 1
      <4>1. k.start \in Nat /\ i \in Nat
        BY <1>3 DEF LastSent, Part
      <4> QED BY <4>1
    <3>3. PICK m \in 1 .. Len(conf.items) : m = k.start + i
      BY <3>1
    <3>4. DeliveredAt(conf, m) \in Deliveries(conf) /\ DeliveredAt(conf, m).index = m - 1
      BY DeliveryAt
    <3> QED BY <3>1, <3>2, <3>3, <3>4
  <2>5. e \in Seq(Deliveries(conf)) /\ Len(e) = Len(k.got)
    <3>1. e \in [1 .. Len(k.got) -> Deliveries(conf)]
      BY <2>1, <2>4
    <3> QED BY <1>3, <3>1
  <2>6. InOrder(conf, e)
    <3>1. ASSUME NEW p \in 1 .. Len(e), NEW q \in 1 .. Len(e), q < p
          PROVE  Before(conf, e[q].index, e[p].index)
      <4>1. p \in 1 .. Len(k.got) /\ q \in 1 .. Len(k.got)
        BY <2>5
      <4>2. e[p].index = k.start + p - 1 /\ e[q].index = k.start + q - 1
        BY <2>4, <4>1
      <4>3. /\ k.start \in Nat
            /\ BatchOf(conf, k.start + p - 1) = srv.sent - 1
            /\ BatchOf(conf, k.start + q - 1) = srv.sent - 1
        BY <1>3, <4>1, Places
      <4> QED BY <1>3, <3>1, <4>1, <4>2, <4>3 DEF Before, Apart
    <3> QED BY <3>1 DEF InOrder
  <2>7. \A q \in 1 .. Len(e) : \E j \in Undelivered(k) : e[q].index = k.start + j - 1
    BY <2>3, <2>4, <2>5
  <2>8. /\ delivered' \in Seq(Deliveries(conf)) /\ InOrder(conf, delivered')
        /\ \A p \in 1 .. Len(delivered') : delivered'[p].index < Base(conf, srv.sent)
    BY <1>3, <1>5, <2>2, <2>5, <2>6, <2>7, Deliver
  <2>9. Undelivered(back[srv.sent])' = {}
    BY <1>3, <2>3 DEF Undelivered
  <2> QED BY <1>3, <2>8, <2>9 DEF DelInv
<1> QED BY <1>3, <1>6, <1>7, <1>8 DEF Works

LEMMA DelSend ==
  ASSUME MemInv, CollectInv, SentInv, DelInv, srv.pc = "send", conf' = conf, delivered' = delivered,
         srv' = Advanced, previous' = srv.sent + 1,
         back' = [back EXCEPT ![srv.sent + 1] =
                   [NoBack EXCEPT !.run = "input", !.start = srv.count, !.got = srv.cur]]
  PROVE  DelInv'
<1>1. PICK n : n = [NoBack EXCEPT !.run = "input", !.start = srv.count, !.got = srv.cur]
  OBVIOUS
<1>2. /\ srv.sent \in Nat /\ conf \in Setups /\ srv.count = Base(conf, srv.sent)
      /\ Part(conf, srv.cur, srv.count)
  BY DEF CollectInv, Ready, Sending
<1>3. srv'.sent = srv.sent + 1 /\ srv'.sent > 0 /\ n = back'[srv'.sent]
  BY <1>1, SentSend
<1>4. n.start = srv.count /\ n.got = srv.cur /\ n.run = "input"
  BY <1>1 DEF NoBack
<1>5. /\ Base(conf, srv.sent) \in Nat /\ Base(conf, srv.sent + 1) = Base(conf, srv.sent) + Size(conf)
      /\ Size(conf) \in Nat /\ Len(srv.cur) \in Nat
  BY <1>2, Bases, Sizes DEF Part
<1>6. ASSUME NEW p \in 1 .. Len(delivered)
      PROVE  delivered[p].index \in Nat /\ delivered[p].index < srv.count
  <2>1. delivered \in Seq(Deliveries(conf))
    BY DEF DelInv
  <2>2. delivered[p] \in Deliveries(conf)
    BY <2>1
  <2>3. delivered[p].index \in Nat
    BY <1>2, <2>2, DeliveryFacts
  <2>4. srv.sent # 0
    <3>1. CASE srv.sent = 0
      BY <3>1 DEF DelInv
    <3> QED BY <3>1
  <2> QED BY <1>2, <2>3, <2>4 DEF DelInv
<1>7. ASSUME NEW p \in 1 .. Len(delivered), NEW i \in 1 .. Len(n.got)
      PROVE  Apart(conf, delivered[p].index, n.start + i - 1)
  <2>1. delivered[p].index < n.start + i - 1 /\ delivered[p].index # n.start + i - 1
    BY <1>2, <1>4, <1>5, <1>6
  <2> QED BY <2>1 DEF Apart
<1>8. \A p \in 1 .. Len(delivered) : delivered[p].index < Base(conf, srv.sent + 1)
  BY <1>2, <1>5, <1>6
<1>9. Undelivered(back[srv.sent])' = 1 .. Len(n.got) /\ (back[srv.sent].start)' = n.start
  BY <1>3, <1>4 DEF Undelivered
<1>10. /\ delivered' \in Seq(Deliveries(conf')) /\ InOrder(conf', delivered')
       /\ \A p \in 1 .. Len(delivered') : delivered'[p].index < Base(conf', srv'.sent)
  BY <1>3, <1>8 DEF DelInv
<1>11. \A p \in 1 .. Len(delivered') : \A i \in Undelivered(back'[srv'.sent]) :
         Apart(conf', delivered'[p].index, back'[srv'.sent].start + i - 1)
  BY <1>7, <1>9
<1> QED BY <1>3, <1>10, <1>11 DEF DelInv

LEMMA DelNext ==
  MemInv /\ CollectInv /\ SentInv /\ KeysRight(conf) /\ DelInv /\ [Next]_vars => DelInv'
<1> SUFFICES ASSUME MemInv, CollectInv, SentInv, KeysRight(conf), DelInv, [Next]_vars PROVE DelInv'
  OBVIOUS
<1> USE DEF SrvFields
<1>d. DOMAIN srv = SrvFields
  BY DEF CollectInv
<1>f. ASSUME UNCHANGED <<conf, back, delivered>>, srv'.sent = srv.sent PROVE DelInv'
  BY <1>f DEF DelInv, Undelivered
<1>n. ASSUME NEW ret, NotSent(ret) PROVE srv'.sent = srv.sent
  BY <1>d, <1>n DEF NotSent
<1>1. CASE SendBatch
  <2>1. srv.pc = "send" /\ conf' = conf /\ delivered' = delivered
    BY <1>1 DEF SendBatch
  <2>2. CASE /\ srv' = Advanced /\ previous' = srv.sent + 1
             /\ back' = [back EXCEPT ![srv.sent + 1] =
                   [NoBack EXCEPT !.run = "input", !.start = srv.count, !.got = srv.cur]]
    BY <2>1, <2>2, DelSend
  <2>3. CASE NotSent("FromMercury") /\ UNCHANGED <<previous, back>>
    BY <1>f, <1>n, <2>1, <2>3
  <2> QED BY <1>1, <2>2, <2>3 DEF SendBatch
<1>2. CASE \/ Forward \/ GetOutput \/ Check \/ FetchBatch \/ IterItem \/ Flush
           \/ ExposeBatch \/ WaitBeforeSend \/ Finish \/ Respond \/ UNCHANGED vars
  <2>1. UNCHANGED <<conf, back, delivered>>
    BY <1>2 DEF Forward, GetOutput, Check, FetchBatch, IterItem, Flush, ExposeBatch,
                WaitBeforeSend, Finish, Respond, vars
  <2>2. srv'.sent = srv.sent
    BY <1>2, <1>d, <1>n DEF Forward, GetOutput, Check, FetchBatch, IterItem, Flush, ExposeBatch,
                WaitBeforeSend, Finish, Respond, vars
  <2> QED BY <1>f, <2>1, <2>2
<1> QED BY <1>1, <1>2, DelBack DEF Next, ServerStep

-----------------------------------------------------------------------------
(* No item is skipped *)

\* A full batch that iter cannot send is sent again at the end (NotSent), also
\* when it was not sent because the callback had stopped the iteration: the batch
\* after the one where it stops is then not full.
StopsLate(c) ==
  c.fn.rpc.visits = "items" => \A n \in c.stops : Len(c.items) < Base(c, BatchOf(c, n - 1) + 2)

Sound == conf.faults = {} /\ ~conf.pool

\* Everything before the place where the client is has been delivered, or the
\* callback said no and nothing more is sent.
SkipInv ==
    Sound =>
      /\ \A p \in 1 .. Len(delivered) : delivered[p].index = p - 1
      /\ srv.sent > 0 =>
           LET k == back[srv.sent] IN
             /\ k.run \in {"input", "pull", "calls"} => k.ret = "OK"
             /\ k.run = "input" => Len(delivered) = k.start
             /\ k.run \in {"pull", "calls"} =>
                  \E j \in 1 .. Len(k.got) + 1 :
                    k.todo = j .. Len(k.got) /\ Len(delivered) = k.start + j - 1
             /\ k.run \in {"respond", "answered"} =>
                  \/ k.ret = "OK" /\ Len(delivered) = k.start + Len(k.got)
                  \/ k.ret # "OK" /\ \E i \in 1 .. Len(k.got) : k.start + i \in conf.stops
      /\ srv.pc \in {"loop", "flush", "expose", "wait", "send"} /\ previous = 0 /\ srv.sent > 0 =>
           back[srv.sent].run = "answered" /\ back[srv.sent].ret = "OK"

LEMMA SkipFrame ==
  ASSUME SkipInv, UNCHANGED <<conf, back, delivered>>, srv'.sent = srv.sent,
         \/ srv'.pc \in {"none", "checks", "finish", "respond", "over"}
         \/ previous' # 0 
         \/ /\ previous' = previous
            /\ srv.pc \in {"loop", "flush", "expose", "wait", "send"}
         \/ srv.sent = 0
         \/ back[srv.sent].run = "answered" /\ back[srv.sent].ret = "OK"
  PROVE  SkipInv'
BY DEF SkipInv, Sound

LEMMA SkipBack ==
  ASSUME MemInv, SentInv, DelInv, KeysRight(conf), SkipInv, NEW b \in DOMAIN back, BackStep(b)
  PROVE  SkipInv'
<1>1. PICK k : k = back[b]
  OBVIOUS
<1>2. PICK n : n = back'[b]
  OBVIOUS
<1>3. /\ b = srv.sent /\ srv.sent > 0 /\ srv.sent \in Nat /\ LastSent(k) /\ Active(b)
      /\ conf' = conf /\ srv' = srv /\ previous' = previous
      /\ k = back[srv.sent] /\ n = back'[srv'.sent]
      /\ n.start = k.start /\ n.got = k.got /\ Works(k, n) /\ Len(k.got) \in Nat \ {0}
  BY <1>1, <1>2, BackCases
<1>4. previous' # 0
  BY <1>3 DEF MemInv
<1>5. SUFFICES ASSUME Sound
               PROVE  /\ \A p \in 1 .. Len(delivered') : delivered'[p].index = p - 1
                      /\ n.run \in {"input", "pull", "calls"} => n.ret = "OK"
                      /\ n.run = "input" => Len(delivered') = n.start
                      /\ n.run \in {"pull", "calls"} =>
                           \E j \in 1 .. Len(n.got) + 1 :
                             n.todo = j .. Len(n.got) /\ Len(delivered') = n.start + j - 1
                      /\ n.run \in {"respond", "answered"} =>
                           \/ n.ret = "OK" /\ Len(delivered') = n.start + Len(n.got)
                           \/ n.ret # "OK" /\ \E i \in 1 .. Len(n.got) : n.start + i \in conf.stops
  BY <1>3, <1>4 DEF SkipInv, Sound
<1>6. /\ \A p \in 1 .. Len(delivered) : delivered[p].index = p - 1
      /\ k.run \in {"input", "pull", "calls"} => k.ret = "OK"
      /\ k.run = "input" => Len(delivered) = k.start
      /\ k.run \in {"pull", "calls"} =>
           \E j \in 1 .. Len(k.got) + 1 :
             k.todo = j .. Len(k.got) /\ Len(delivered) = k.start + j - 1
      /\ k.run \in {"respond", "answered"} =>
           \/ k.ret = "OK" /\ Len(delivered) = k.start + Len(k.got)
           \/ k.ret # "OK" /\ \E i \in 1 .. Len(k.got) : k.start + i \in conf.stops
  BY <1>3, <1>5 DEF SkipInv
<1>7. /\ k.start \in Nat /\ delivered \in Seq(Deliveries(conf)) /\ Len(delivered) \in Nat
      /\ conf \in Setups
  BY <1>3 DEF LastSent, Part, DelInv, MemInv
<1>8. CASE Takes(k, n)
  <2>1. k.run = "input" /\ n.run \in {"pull", "calls"} /\ n.todo = 1 .. Len(k.got)
        /\ n.ret = k.ret /\ delivered' = delivered
    BY <1>8 DEF Takes, Quietly
  <2>2. 1 \in 1 .. Len(k.got) + 1 /\ k.start + 1 - 1 = k.start
    BY <1>3, <1>7
  <2> QED BY <1>3, <1>6, <2>1, <2>2
<1>9. CASE Pulls(k, n)
  BY <1>3, <1>6, <1>9 DEF Pulls, Quietly
<1>10. CASE Fails(k, n)
  <2>1. Back.pulls /\ b \notin exposed
    BY <1>3, <1>5, <1>10 DEF Fails, Sound
  <2>2. Rpc.exposes => b \in exposed
    BY <1>3, MemSafe DEF BatchesDoNotOutliveTheirMemory
  <2>3. Back.pulls => Rpc.exposes
    BY <1>7, SetupsAssumption DEF SetupsAssumption, Back, Rpc
  <2> QED BY <2>1, <2>2, <2>3
<1>11. ASSUME NEW i \in k.todo, CallsOne(k, n, i)
       PROVE  /\ \A p \in 1 .. Len(delivered') : delivered'[p].index = p - 1
              /\ n.run \in {"input", "pull", "calls"} => n.ret = "OK"
              /\ n.run = "input" => Len(delivered') = n.start
              /\ n.run \in {"pull", "calls"} =>
                   \E j \in 1 .. Len(n.got) + 1 :
                     n.todo = j .. Len(n.got) /\ Len(delivered') = n.start + j - 1
              /\ n.run \in {"respond", "answered"} =>
                   \/ n.ret = "OK" /\ Len(delivered') = n.start + Len(n.got)
                   \/ n.ret # "OK" /\ \E x \in 1 .. Len(n.got) : n.start + x \in conf.stops
  <2>1. k.run = "calls" /\ i = Min(k.todo) /\ delivered' = Append(delivered, Argument(srv.sent, i))
    BY <1>5, <1>11 DEF CallsOne, Sound
  <2>2. PICK j \in 1 .. Len(k.got) + 1 : k.todo = j .. Len(k.got) /\ Len(delivered) = k.start + j - 1
    BY <1>6, <2>1
  <2>3. /\ i = j /\ j <= Len(k.got) /\ k.todo \ {i} = j + 1 .. Len(k.got)
        /\ j + 1 \in 1 .. Len(k.got) + 1 /\ j \in Nat /\ i \in 1 .. Len(k.got)
    <3>1. ~conf.pool /\ Len(k.got) \in Nat /\ i \in k.todo
      BY <1>3, <1>5 DEF Sound
    <3>2. /\ i = j /\ j <= Len(k.got) /\ k.todo \ {i} = j + 1 .. Len(k.got)
          /\ j + 1 \in 1 .. Len(k.got) + 1
      BY <2>1, <2>2, <3>1, InTurn
    <3> QED BY <3>2
  <2>4. /\ Argument(srv.sent, i) = DeliveredAt(conf, k.start + i)
        /\ k.start + i \in 1 .. Len(conf.items)
    BY <1>3, <2>3, ArgumentIs
  <2>5. Argument(srv.sent, i) \in Deliveries(conf) /\ Argument(srv.sent, i).index = (k.start + i) - 1
    <3>1. PICK m : m = k.start + i
      OBVIOUS
    <3>2. PICK d : d = DeliveredAt(conf, m)
      OBVIOUS
    <3>3. d \in Deliveries(conf) /\ d.index = m - 1
      BY <2>4, <3>1, <3>2 DEF Deliveries, DeliveredAt
    <3> QED BY <2>4, <3>1, <3>2, <3>3
  <2>6. /\ Len(delivered') = Len(delivered) + 1
        /\ delivered'[Len(delivered) + 1] = Argument(srv.sent, i)
        /\ \A q \in 1 .. Len(delivered) : delivered'[q] = delivered[q]
    BY <1>7, <2>1, <2>5, AppendProperties
  <2>7. Argument(srv.sent, i).index = (Len(delivered) + 1) - 1
    BY <1>7, <2>2, <2>3, <2>5
  <2>8. ASSUME NEW p \in 1 .. Len(delivered') PROVE delivered'[p].index = p - 1
    <3>1. CASE p = Len(delivered) + 1
      BY <2>6, <2>7, <3>1
    <3>2. CASE p \in 1 .. Len(delivered)
      BY <1>6, <2>6, <3>2
    <3> QED BY <1>7, <2>6, <3>1, <3>2
  <2>9. CASE n.run = "respond" /\ n.ret = Says(srv.sent, i) /\ n.ret # "OK"
    <3>1. k.start + i \in conf.stops
      BY <1>3, <2>9 DEF Says
    <3> QED BY <1>3, <2>3, <2>8, <2>9, <3>1
  <2>10. CASE n.run = "calls" /\ n.todo = k.todo \ {i} /\ n.ret = k.ret
    <3>1. n.todo = j + 1 .. Len(k.got) /\ Len(delivered') = k.start + (j + 1) - 1
      BY <1>7, <2>2, <2>3, <2>6, <2>10
    <3>2. n.ret = "OK"
      BY <1>6, <2>1, <2>10
    <3> QED BY <1>3, <2>3, <2>8, <2>10, <3>1, <3>2
  <2> QED BY <1>11, <2>9, <2>10 DEF CallsOne
<1>12. CASE CallsAll(k, n)
  <2>1. PICK e : e = [i \in 1 .. Len(k.got) |-> Argument(srv.sent, i)]
    OBVIOUS
  <2>2. k.run = "calls" /\ Back.whole /\ delivered' = delivered \o e /\ n.run = "respond"
    BY <1>12, <2>1 DEF CallsAll
  <2>3. Len(delivered) = k.start
    <3>1. PICK j \in 1 .. Len(k.got) + 1 : k.todo = j .. Len(k.got) /\ Len(delivered) = k.start + j - 1
      BY <1>6, <2>2
    <3>2. k.todo = 1 .. Len(k.got)
      BY <1>3, <2>2 DEF LastSent
    <3>3. 1 \in j .. Len(k.got)
      BY <1>3, <3>1, <3>2
    <3>4. j = 1
      BY <1>3, <3>3
    <3> QED BY <1>7, <3>1, <3>4
  <2>4. ASSUME NEW i \in 1 .. Len(k.got)
        PROVE  e[i] \in Deliveries(conf) /\ e[i].index = k.start + i - 1
    <3>1. e[i] = DeliveredAt(conf, k.start + i) /\ k.start + i \in 1 .. Len(conf.items)
      BY <1>3, <2>1, ArgumentIs
    <3>2. k.start \in Nat /\ k.start + i - 1 = (k.start + i) - 1
      BY <1>3, <1>7
    <3>3. PICK m : m = k.start + i
      OBVIOUS
    <3>4. PICK d : d = DeliveredAt(conf, m)
      OBVIOUS
    <3>5. d \in Deliveries(conf) /\ d.index = m - 1
      BY <3>1, <3>3, <3>4 DEF Deliveries, DeliveredAt
    <3> QED BY <3>1, <3>2, <3>3, <3>4, <3>5
  <2>5. e \in Seq(Deliveries(conf)) /\ Len(e) = Len(k.got)
    <3>1. e \in [1 .. Len(k.got) -> Deliveries(conf)]
      BY <2>1, <2>4
    <3> QED BY <1>3, <3>1
  <2>6. /\ Len(delivered') = Len(delivered) + Len(k.got)
        /\ \A i \in 1 .. Len(delivered) + Len(k.got) :
             delivered'[i] = IF i <= Len(delivered) THEN delivered[i] ELSE e[i - Len(delivered)]
    <3>1. /\ Len(delivered \o e) = Len(delivered) + Len(e)
          /\ \A i \in 1 .. Len(delivered) + Len(e) :
               (delivered \o e)[i] = IF i <= Len(delivered) THEN delivered[i] ELSE e[i - Len(delivered)]
      BY <1>7, <2>5, ConcatProperties
    <3> QED BY <2>2, <2>5, <3>1
  <2>7. ASSUME NEW p \in 1 .. Len(delivered') PROVE delivered'[p].index = p - 1
    <3>1. CASE p <= Len(delivered)
      <4>1. p \in 1 .. Len(delivered) /\ delivered'[p] = delivered[p]
        BY <1>3, <1>7, <2>6, <3>1
      <4> QED BY <1>6, <4>1
    <3>2. CASE p > Len(delivered)
      <4>1. p - Len(delivered) \in 1 .. Len(k.got) /\ delivered'[p] = e[p - Len(delivered)]
        BY <1>3, <1>7, <2>6, <3>2
      <4>2. delivered'[p].index = k.start + (p - Len(delivered)) - 1
        BY <2>4, <4>1
      <4> QED BY <1>7, <2>3, <2>6, <4>2
    <3> QED BY <1>3, <1>7, <2>6, <3>1, <3>2
  <2>8. \/ n.ret = "OK" \/ (n.ret # "OK" /\ \E i \in 1 .. Len(k.got) : k.start + i \in conf.stops)
    BY <1>3, <1>12 DEF CallsAll, Says
  <2> QED BY <1>3, <2>2, <2>3, <2>6, <2>7, <2>8
<1>13. CASE RepliesTo(k, n)
  <2>1. /\ k.run = "respond" \/ (k.run = "calls" /\ k.todo = {})
        /\ n.run = "answered" /\ n.ret = k.ret /\ delivered' = delivered
    BY <1>13 DEF RepliesTo, Quietly
  <2>2. CASE k.run = "respond"
    BY <1>3, <1>6, <2>1, <2>2
  <2>3. CASE k.run = "calls" /\ k.todo = {}
    <3>1. PICK j \in 1 .. Len(k.got) + 1 : k.todo = j .. Len(k.got) /\ Len(delivered) = k.start + j - 1
      BY <1>6, <2>3
    <3>2. j = Len(k.got) + 1
      <4>1. j \in Int /\ Len(k.got) \in Int /\ j <= Len(k.got) + 1
        BY <1>3
      <4>2. j .. Len(k.got) = {}
        BY <2>3, <3>1
      <4>3. ~(j <= Len(k.got))
        BY <4>1, <4>2
      <4> QED BY <4>1, <4>3
    <3>3. Len(delivered) = k.start + Len(k.got)
      BY <1>3, <1>7, <3>1, <3>2
    <3> QED BY <1>3, <1>6, <2>1, <2>3, <3>3
  <2> QED BY <2>1, <2>2, <2>3
<1> QED BY <1>3, <1>8, <1>9, <1>10, <1>11, <1>12, <1>13 DEF Works

LEMMA SkipSend ==
  ASSUME MemInv, CollectInv, SentInv, DelInv, SkipInv, srv.pc = "send",
         conf' = conf, delivered' = delivered, srv' = Advanced, previous' = srv.sent + 1,
         back' = [back EXCEPT ![srv.sent + 1] =
                   [NoBack EXCEPT !.run = "input", !.start = srv.count, !.got = srv.cur]]
  PROVE  SkipInv'
<1>1. PICK n : n = [NoBack EXCEPT !.run = "input", !.start = srv.count, !.got = srv.cur]
  OBVIOUS
<1>2. n.start = srv.count /\ n.got = srv.cur /\ n.run = "input" /\ n.ret = "OK"
  BY <1>1 DEF NoBack
<1>3. srv'.sent = srv.sent + 1 /\ srv'.sent > 0 /\ n = back'[srv'.sent] /\ previous' # 0
  <2>1. srv.sent + 1 # 0
    BY DEF MemInv
  <2> QED BY <1>1, <2>1, SentSend
<1>4. /\ srv.sent \in Nat /\ conf \in Setups /\ srv.count = Base(conf, srv.sent)
      /\ srv.count \in Nat /\ Len(srv.cur) \in Nat /\ srv.cur \in Seq(Found(conf)) /\ srv.cur # <<>>
      /\ srv.count + Len(srv.cur) <= Len(conf.items) /\ Size(conf) \in Nat
      /\ Len(conf.items) \in Nat /\ previous = 0
  BY Sizes DEF CollectInv, Ready, Sending, Part, MemInv
<1>5. Len(srv.cur) > 0
  BY <1>4, EmptySeq
<1>6. ASSUME Sound PROVE Len(delivered) = srv.count
  <2>1. CASE srv.sent = 0
    <3>1. delivered = <<>> /\ srv.count = 0
      BY <1>4, <2>1, Bases DEF DelInv
    <3> QED BY <3>1
  <2>2. CASE srv.sent > 0
    <3>1. PICK k : k = back[srv.sent]
      OBVIOUS
    <3>2. k.run = "answered" /\ k.ret = "OK"
      BY <1>4, <1>6, <2>2, <3>1 DEF SkipInv
    <3>3. Len(delivered) = k.start + Len(k.got)
      BY <1>6, <2>2, <3>1, <3>2 DEF SkipInv
    <3>4. /\ k.start = Base(conf, srv.sent - 1) /\ Len(k.got) \in Nat /\ k.start \in Nat
          /\ Len(k.got) <= Size(conf)
          /\ Len(k.got) = Size(conf) \/ k.start + Len(k.got) = Len(conf.items)
      BY <2>2, <3>1 DEF SentInv, LastSent, Part, Ends
    <3>5. PICK m \in Nat : m = srv.sent - 1 /\ srv.sent = m + 1
      <4>1. srv.sent - 1 \in Nat /\ srv.sent = (srv.sent - 1) + 1
        BY <1>4, <2>2
      <4> QED BY <4>1
    <3>6. srv.count = k.start + Size(conf)
      <4>1. Base(conf, m + 1) = Base(conf, m) + Size(conf)
        BY <1>4, Bases
      <4>2. srv.count = Base(conf, m + 1) /\ k.start = Base(conf, m)
        BY <1>4, <3>4, <3>5
      <4> QED BY <4>1, <4>2
    <3>7. CASE Len(k.got) = Size(conf)
      BY <3>3, <3>6, <3>7
    <3>8. CASE k.start + Len(k.got) = Len(conf.items)
      <4>1. k.start + Size(conf) + Len(srv.cur) <= k.start + Len(k.got)
        BY <1>4, <3>6, <3>8
      <4> QED BY <1>4, <1>5, <3>4, <4>1
    <3> QED BY <3>4, <3>7, <3>8
  <2> QED BY <1>4, <2>1, <2>2
<1>7. SUFFICES ASSUME Sound
               PROVE  /\ \A p \in 1 .. Len(delivered) : delivered[p].index = p - 1
                      /\ Len(delivered) = n.start
  BY <1>2, <1>3 DEF SkipInv, Sound
<1> QED BY <1>2, <1>6, <1>7 DEF SkipInv

\* The answer to the batch before is awaited: after "no" there is nothing more to
\* send.
LEMMA SkipWait ==
  ASSUME MemInv, CollectInv, SentInv, SkipInv, StopsLate(conf), WaitBeforeSend PROVE SkipInv'
<1> USE DEF SrvFields
<1>0. /\ srv.pc = "wait" /\ previous' = 0 /\ UNCHANGED <<conf, back, delivered>>
      /\ DOMAIN srv = SrvFields /\ srv.sent \in Nat /\ conf \in Setups /\ srv.last \in BOOLEAN
      /\ previous \in {0, srv.sent}
  BY DEF WaitBeforeSend, CollectInv, SentInv
<1>1. CASE AnswerOf = "OK" /\ srv' = [srv EXCEPT !.pc = "send"]
  <2>1. srv'.sent = srv.sent
    BY <1>0, <1>1
  <2>2. \/ previous' = previous \/ srv.sent = 0
        \/ back[srv.sent].run = "answered" /\ back[srv.sent].ret = "OK"
    BY <1>0, <1>1 DEF AnswerOf, Answered, WaitBeforeSend
  <2> QED BY <1>0, <2>1, <2>2, SkipFrame
<1>2. CASE AnswerOf # "OK" /\ NotSent(AnswerOf)
  <2>1. srv'.sent = srv.sent /\ srv'.pc \in {"finish", "flush"}
        /\ (srv'.pc = "flush" => Rpc.visits # "keys" /\ ~srv.last)
    BY <1>0, <1>2 DEF NotSent
  <2>2. CASE srv'.pc = "finish"
    BY <1>0, <2>1, <2>2, SkipFrame
  <2>3. ASSUME srv'.pc = "flush", Sound PROVE FALSE
    <3>1. PICK k : k = back[srv.sent]
      OBVIOUS
    <3>2. /\ previous = srv.sent /\ srv.sent > 0 /\ k.run = "answered" /\ k.ret # "OK"
          /\ LastSent(k)
      BY <1>0, <1>2, <3>1 DEF AnswerOf, Answered, WaitBeforeSend, SentInv
    <3>3. PICK i \in 1 .. Len(k.got) : k.start + i \in conf.stops
      BY <2>3, <3>1, <3>2 DEF SkipInv
    <3>4. Rpc.visits = "items" /\ Walk
      <4>1. Rpc.visits \in {"keys", "items"}
        BY <1>0, SetupsAssumption DEF SetupsAssumption, Rpc
      <4> QED BY <2>1, <2>3, <4>1 DEF CollectInv
    <3>5. /\ Len(srv.cur) = Size(conf) /\ srv.count = Base(conf, srv.sent)
          /\ srv.count + Len(srv.cur) <= Len(conf.items)
      BY <1>0, <2>1, <2>3, <3>4 DEF Walk, CollectInv, Ready, Sending, Part
    <3>6. /\ k.start + i - 1 \in Nat /\ k.start \in Nat
          /\ BatchOf(conf, k.start + i - 1) = srv.sent - 1
      BY <1>0, <3>1, <3>2, Places
    <3>7. PICK x : x = k.start + i
      OBVIOUS
    <3>8. x \in conf.stops /\ BatchOf(conf, x - 1) = srv.sent - 1
      BY <3>3, <3>6, <3>7
    <3>9. Len(conf.items) < Base(conf, BatchOf(conf, x - 1) + 2)
      BY <3>4, <3>8 DEF StopsLate, Rpc
    <3>10. BatchOf(conf, x - 1) + 2 = srv.sent + 1
      BY <1>0, <3>2, <3>8
    <3>11. Base(conf, srv.sent + 1) = Base(conf, srv.sent) + Size(conf) /\ Base(conf, srv.sent) \in Nat
      BY <1>0, Bases
    <3>12. Len(conf.items) \in Nat /\ Size(conf) \in Nat
      BY <1>0, Sizes
    <3> QED BY <3>5, <3>9, <3>10, <3>11, <3>12
  <2>4. CASE srv'.pc = "flush"
    <3>1. ~Sound /\ ~Sound'
      BY <1>0, <2>3, <2>4 DEF Sound
    <3> QED BY <3>1 DEF SkipInv
  <2> QED BY <2>1, <2>2, <2>4
<1> QED BY <1>1, <1>2 DEF WaitBeforeSend

LEMMA SkipNext ==
  MemInv /\ CollectInv /\ SentInv /\ DelInv /\ KeysRight(conf) /\ StopsLate(conf) /\ SkipInv
    /\ [Next]_vars => SkipInv'
<1> SUFFICES ASSUME MemInv, CollectInv, SentInv, DelInv, KeysRight(conf), StopsLate(conf), SkipInv,
                    [Next]_vars
             PROVE  SkipInv'
  OBVIOUS
<1> USE DEF SrvFields
<1>d. DOMAIN srv = SrvFields
  BY DEF CollectInv
<1>n. ASSUME NEW what, MayFail(what), conf' = conf PROVE SkipInv'
  BY <1>n DEF MayFail, SkipInv, Sound
<1>1. CASE SendBatch
  <2>1. srv.pc = "send" /\ conf' = conf /\ delivered' = delivered
    BY <1>1 DEF SendBatch
  <2>2. CASE /\ srv' = Advanced /\ previous' = srv.sent + 1
             /\ back' = [back EXCEPT ![srv.sent + 1] =
                   [NoBack EXCEPT !.run = "input", !.start = srv.count, !.got = srv.cur]]
    BY <2>1, <2>2, SkipSend
  <2>3. CASE MayFail("send")
    BY <1>n, <2>1, <2>3
  <2> QED BY <1>1, <2>2, <2>3 DEF SendBatch
<1>2. CASE Forward \/ Check
  <2>1. UNCHANGED <<conf, back, delivered>> /\ srv'.sent = srv.sent
    BY <1>d, <1>2 DEF Forward, Check
  <2>2. srv.sent = 0
    <3>1. srv.pc \in {"none", "checks"}
      BY <1>2 DEF Forward, Check, MemInv, Waits
    <3> QED BY <3>1 DEF CollectInv
  <2> QED BY <2>1, <2>2, SkipFrame
<1>3. CASE FetchBatch \/ IterItem \/ Flush
  <2>1. /\ UNCHANGED <<conf, previous, back, delivered>> /\ srv'.sent = srv.sent
        /\ srv.pc \in {"loop", "flush"}
    BY <1>d, <1>3 DEF FetchBatch, IterItem, Flush
  <2> QED BY <2>1, SkipFrame
<1>4. CASE ExposeBatch
  <2>1. UNCHANGED <<conf, previous, back, delivered>> /\ srv.pc = "expose"
    BY <1>4 DEF ExposeBatch
  <2>2. CASE srv' = [srv EXCEPT !.pc = "wait"]
    BY <1>d, <2>1, <2>2, SkipFrame
  <2>3. CASE MayFail("expose_batch")
    BY <1>n, <2>1, <2>3
  <2> QED BY <1>4, <2>2, <2>3 DEF ExposeBatch
<1>5. CASE Finish \/ Respond
  <2>1. /\ UNCHANGED <<conf, back, delivered>> /\ srv'.sent = srv.sent
        /\ srv'.pc \in {"respond", "over"}
    BY <1>d, <1>5 DEF Finish, Respond
  <2> QED BY <2>1, SkipFrame
<1>6. CASE GetOutput \/ UNCHANGED vars
  <2>1. UNCHANGED <<conf, srv, previous, back, delivered>>
    BY <1>6 DEF GetOutput, vars
  <2> QED BY <2>1 DEF SkipInv, Sound
<1> QED BY <1>1, <1>2, <1>3, <1>4, <1>5, <1>6, SkipWait, SkipBack DEF Next, ServerStep

-----------------------------------------------------------------------------
(* The order of the items *)

LEMMA InOrderInit == ASSUME Init PROVE DelInv /\ SkipInv
<1>1. srv.sent = 0 /\ delivered = <<>> /\ Len(delivered) = 0 /\ conf \in Setups
  BY DEF Init
<1>2. delivered \in Seq(Deliveries(conf)) /\ InOrder(conf, delivered)
  BY <1>1 DEF InOrder
<1> QED BY <1>1, <1>2 DEF DelInv, SkipInv

LEMMA DelSafe == MemInv /\ DelInv /\ SkipInv => ItemsDelivered
<1> SUFFICES ASSUME MemInv, DelInv, SkipInv, NEW p \in DOMAIN delivered
             PROVE  LET d == delivered[p] IN
                      /\ d.index + 1 \in DOMAIN conf.items
                      /\ d.key = conf.items[d.index + 1]
                      /\ d.val = ValueOf(d.key)
                      /\ IF conf.pool
                         THEN \A q \in 1 .. p - 1 :
                                /\ delivered[q].index # d.index
                                /\ delivered[q].index \div BatchSize <= d.index \div BatchSize
                         ELSE /\ \A q \in 1 .. p - 1 : delivered[q].index < d.index
                              /\ conf.faults = {} => d.index = p - 1
  BY DEF ItemsDelivered
<1>1. /\ conf \in Setups /\ delivered \in Seq(Deliveries(conf)) /\ InOrder(conf, delivered)
      /\ Len(delivered) \in Nat /\ p \in 1 .. Len(delivered)
  BY DEF MemInv, DelInv
<1>2. delivered[p] \in Deliveries(conf)
  BY <1>1
<1>3. /\ delivered[p].index + 1 \in DOMAIN conf.items
      /\ delivered[p].key = conf.items[delivered[p].index + 1]
      /\ delivered[p].val = ValueOf(delivered[p].key)
  BY <1>1, <1>2, DeliveryFacts
<1>4. ASSUME NEW q \in 1 .. p - 1
      PROVE  IF conf.pool
             THEN /\ delivered[q].index # delivered[p].index
                  /\ delivered[q].index \div BatchSize <= delivered[p].index \div BatchSize
             ELSE delivered[q].index < delivered[p].index
  <2>1. q \in 1 .. Len(delivered) /\ q < p
    BY <1>1
  <2>2. Before(conf, delivered[q].index, delivered[p].index)
    BY <1>1, <2>1 DEF InOrder
  <2>3. BatchSize = Size(conf)
    BY DEF BatchSize, Size
  <2> QED BY <2>2, <2>3 DEF Before, Apart, BatchOf
<1>5. ~conf.pool /\ conf.faults = {} => delivered[p].index = p - 1
  BY <1>1 DEF SkipInv, Sound
<1> QED BY <1>3, <1>4, <1>5

\* What the callback is given, for the calls that count items, read the keys of
\* the batch and send nothing after the callback stopped (CountsItems, KeysRight,
\* StopsLate name where the code does not): each item at most once, with its own
\* index, key and value, in order and without gaps, whatever the size of the
\* batches and with a pool or without.
THEOREM ItemsInOrder ==
  ASSUME \A c \in Setups : CountsItems(c) /\ KeysRight(c) /\ StopsLate(c)
  PROVE  Spec => []ItemsDelivered
<1> DEFINE Inv == MemInv /\ CollectInv /\ SentInv /\ DelInv /\ SkipInv
<1>1. Init => Inv
  BY MemInit, CollectInit, SentInit, InOrderInit
<1>2. Inv /\ [Next]_vars => Inv'
  <2> SUFFICES ASSUME Inv, [Next]_vars PROVE Inv'
    OBVIOUS
  <2>1. CountsItems(conf) /\ KeysRight(conf) /\ StopsLate(conf)
    BY DEF MemInv
  <2> QED BY <2>1, MemNext, CollectNext, SentNext, DelNext, SkipNext
<1>3. Inv => ItemsDelivered
  BY DelSafe
<1> QED BY <1>1, <1>2, <1>3, PTL DEF Spec

-----------------------------------------------------------------------------
(* What the call returns *)

\* The items where the callback stops are those where it says something else
\* than success.
StopsSay(c) == c.stops # {} => c.says # "OK"

\* A flaw is one that the client function refuses, or one that a check of the
\* handler is there to find.
Finds(check, bad) ==
    <<check, bad>> \in {<<"database", "database">>, <<"mode", "unsupported">>,
                        <<"sizes", "empty">>, <<"filter", "filter">>}
FoundFrom(c, n) == \E i \in n .. Len(c.fn.rpc.checks) : Finds(c.fn.rpc.checks[i], c.bad)
Flawed(c)       == c.bad \notin {"none", "nothing"}
FlawFound(c)    == IF Flawed(c) THEN c.bad \in c.fn.refuses \/ FoundFrom(c, 1)
                   ELSE "none" \notin c.fn.refuses

\* A flawed request never gets past the checks.
FlawInv ==
    Flawed(conf) =>
      /\ srv.pc \in {"none", "checks", "respond", "over"} /\ srv.check \in Nat /\ srv.sent = 0
      /\ srv.pc = "none" => srv.check = 1
      /\ srv.pc = "checks" => FoundFrom(conf, srv.check)
      /\ srv.pc \in {"respond", "over"} => srv.ret # "OK"
      /\ cl.run \in {"answered", "done"} => cl.ret # "OK"

\* The batch that was sent last, and how far the batches go.
Latest == back[srv.sent]
Covered == IF srv.sent = 0 THEN 0 ELSE Latest.start + Len(Latest.got)

Walking == {"loop", "flush", "expose", "wait", "send"}
Ending  == {"finish", "respond", "over"}

\* delivered is a sequence, empty before the first batch.
Given == /\ \E S : delivered \in Seq(S)
         /\ srv.sent = 0 => delivered = <<>>

\* A callback that said no, to somebody who listens, is the last one, and its
\* batch is the last one.
Refused == Stopped /\ Heeded
StopInv ==
    Refused =>
      /\ srv.sent > 0 /\ Latest.run \in {"respond", "answered"} /\ Latest.ret # "OK"
      /\ \E i \in 1 .. Len(Latest.got) : Latest.start + i \in conf.stops
      /\ ~Back.whole => Last(delivered).index + 1 \in conf.stops
      /\ srv.pc \in Walking => previous # 0
      /\ srv.pc \in Ending /\ previous = 0 /\ conf.says = "Error" => srv.ret # "OK"

\* The batch that was sent last is answered with the truth.
Truthful(k) ==
    /\ k.run \in {"input", "pull", "calls"} => k.ret = "OK"
    /\ \/ k.ret = "OK"
       \/ k.ret = conf.says /\ Refused
       \/ k.ret = "FromMercury" /\ conf.faults # {}

\* Nothing was skipped on the way to it, nor in it when all is well.
Complete(k) ==
    /\ k.run = "input" => Len(delivered) = k.start
    /\ k.run \in {"pull", "calls"} =>
         Len(delivered) + Cardinality(k.todo) = k.start + Len(k.got)
    /\ k.run \in {"respond", "answered"} /\ k.ret = "OK" =>
         Len(delivered) = k.start + Len(k.got)

\* As long as nothing has gone wrong the handler loses no item.
Lossless ==
    /\ srv.sent > 0 => Complete(Latest)
    /\ srv.pc \in Walking /\ previous = 0 /\ srv.sent > 0 =>
         Latest.run = "answered" /\ Latest.ret = "OK"
    /\ srv.pc = "flush" => previous = srv.sent
    /\ srv.pc = "flush" \/ (srv.pc \in Sending /\ srv.last) => srv.offset = Len(conf.items)
    /\ Rpc.visits = "items" /\ srv.pc \in Walking => srv.offset = Covered + Len(srv.cur)
    /\ srv.pc = "finish" => \/ Covered = Len(conf.items) /\ previous = srv.sent
                            \/ Refused /\ conf.says = "Stop" /\ previous = 0
    /\ srv.pc \in {"respond", "over"} =>
         Len(delivered) = Len(conf.items) \/ (Refused /\ conf.says = "Stop")

ReachInv ==
    /\ srv.pc \in {"none", "checks", "loop"} \cup Sending /\ ~srv.last => srv.ret = "OK"
    /\ srv.pc = "loop" => previous = srv.sent
    /\ srv.sent > 0 => Truthful(Latest)
    /\ srv.ret = "OK" => Lossless

\* What is told.
Allowed(r) ==
    conf.faults = {} /\ conf.bad = "none" => r = "OK" \/ (Refused /\ r = conf.says)
ToldInv ==
    /\ Allowed(srv.ret) /\ Allowed(cl.ret)
    /\ cl.run \in {"answered", "done"} /\ cl.ret = "OK" =>
         IF srv.pc = "none" THEN conf.bad = "nothing" ELSE srv.ret = "OK"

LEMMA ToldInit ==
  ASSUME \A c \in Setups : FlawFound(c), Init
  PROVE  FlawInv /\ Given /\ StopInv /\ ReachInv /\ ToldInv
<1>1. /\ srv.pc = "none" /\ srv.check = 1 /\ srv.sent = 0 /\ srv.last = FALSE /\ srv.ret = "OK"
      /\ cl.run = "start" /\ cl.ret = "OK" /\ delivered = <<>> /\ previous = 0
  BY DEF Init
<1>2. FlawInv
  BY <1>1 DEF FlawInv
<1>3. Given
  <2>1. delivered \in Seq({})
    BY <1>1
  <2> QED BY <1>1, <2>1 DEF Given
<1>4. ~Stopped
  BY <1>1 DEF Stopped
<1>5. StopInv
  BY <1>4 DEF StopInv, Refused
<1>6. ReachInv
  BY <1>1 DEF ReachInv, Lossless, Walking, Sending, Ending
<1>7. ToldInv
  BY <1>1 DEF ToldInv, Allowed
<1> QED BY <1>2, <1>3, <1>5, <1>6, <1>7

\* A flaw is found in one of the checks, and there no later than at the one
\* that looks for it.
LEMMA FlawRefused ==
  ASSUME NEW check
  PROVE  /\ Finds(check, conf.bad) => Refusal(check) # "OK"
         /\ Refusal(check) # "OK" => Flawed(conf)
BY DEF Finds, Refusal, Flawed

LEMMA FlawCheck ==
  ASSUME FlawInv, Flawed(conf), DOMAIN srv = SrvFields, Check
  PROVE  FlawInv'
<1> USE DEF SrvFields
<1>0. /\ srv.pc = "checks" /\ srv.check \in Nat /\ FoundFrom(conf, srv.check)
      /\ srv.sent = 0
      /\ UNCHANGED <<conf, cl>> /\ (cl.run \in {"answered", "done"} => cl.ret # "OK")
  BY DEF FlawInv, Check
<1>1. PICK i \in srv.check .. Len(conf.fn.rpc.checks) : Finds(conf.fn.rpc.checks[i], conf.bad)
  BY <1>0 DEF FoundFrom
<1>2. PICK check : check = Rpc.checks[srv.check]
  OBVIOUS
<1>3. CASE Refusal(check) = "OK" /\ srv' = IF srv.check = Len(Rpc.checks)
                                           THEN [srv EXCEPT !.pc = "loop"]
                                           ELSE [srv EXCEPT !.check = @ + 1]
  <2>1. i # srv.check
    BY <1>1, <1>2, <1>3, FlawRefused DEF Rpc
  <2>2. srv.check # Len(Rpc.checks) /\ i \in srv.check + 1 .. Len(conf.fn.rpc.checks)
    BY <1>0, <1>1, <2>1 DEF Rpc
  <2>3. srv' = [srv EXCEPT !.check = srv.check + 1]
    BY <1>3, <2>2
  <2>4. srv'.pc = "checks" /\ srv'.check = srv.check + 1 /\ srv'.check \in Nat /\ srv'.sent = 0
    BY <1>0, <2>3
  <2>5. FoundFrom(conf', srv'.check)
    BY <1>0, <1>1, <2>2, <2>4 DEF FoundFrom
  <2> QED BY <1>0, <2>4, <2>5 DEF FlawInv
<1>4. CASE Refusal(check) # "OK" /\ srv' = [srv EXCEPT !.pc = "respond", !.ret = Refusal(check)]
  <2>1. srv'.pc = "respond" /\ srv'.ret # "OK" /\ srv'.check = srv.check /\ srv'.sent = 0
    BY <1>0, <1>4
  <2> QED BY <1>0, <2>1 DEF FlawInv
<1>5. CASE srv' = [srv EXCEPT !.pc = "respond", !.ret = IF check = "buffer" THEN "Allocation"
                                                        ELSE "FromMercury"]
  <2>1. srv'.pc = "respond" /\ srv'.ret # "OK" /\ srv'.check = srv.check /\ srv'.sent = 0
    BY <1>0, <1>5
  <2> QED BY <1>0, <2>1 DEF FlawInv
<1> QED BY <1>2, <1>3, <1>4, <1>5 DEF Check

LEMMA FlawNext ==
  (\A c \in Setups : FlawFound(c)) /\ MemInv /\ SentInv /\ CollectInv /\ FlawInv /\ [Next]_vars => FlawInv'
<1> SUFFICES ASSUME \A c \in Setups : FlawFound(c), MemInv, SentInv, CollectInv, FlawInv,
                    Flawed(conf), [Next]_vars
             PROVE  FlawInv'
  <2>1. [Next]_vars => conf' = conf
    BY DEF Next, ServerStep, BackStep, Forward, GetOutput, Check, FetchBatch, IterItem, Flush,
           ExposeBatch, WaitBeforeSend, SendBatch, Finish, Respond, BackInput, BackPull, Callback,
           BulkCallback, BackRespond, vars
  <2> QED BY <2>1 DEF FlawInv
<1> USE DEF SrvFields
<1>0. /\ DOMAIN srv = SrvFields /\ srv.pc \in {"none", "checks", "respond", "over"}
      /\ srv.check \in Nat /\ srv.sent = 0 /\ conf \in Setups /\ Waits
      /\ (srv.pc = "none" => srv.check = 1)
      /\ (srv.pc \in {"respond", "over"} => srv.ret # "OK")
      /\ (cl.run \in {"answered", "done"} => cl.ret # "OK")
  BY DEF FlawInv, MemInv
<1>1. CASE Forward
  <2>1. srv.pc = "none" /\ conf' = conf
    BY <1>0, <1>1 DEF Forward, Waits
  <2>2. CASE conf.bad \in Fn.refuses
    <3>1. cl' = [run |-> "done", ret |-> EarlyReturn(conf.bad)] /\ srv' = srv
      BY <1>1, <2>2 DEF Forward
    <3>2. EarlyReturn(conf.bad) # "OK"
      BY DEF EarlyReturn, Flawed
    <3> QED BY <1>0, <2>1, <3>1, <3>2 DEF FlawInv
  <2>3. CASE conf.bad \notin Fn.refuses /\ cl' = [cl EXCEPT !.run = "waiting"]
             /\ srv' = [srv EXCEPT !.pc = "checks"]
    <3>1. FoundFrom(conf, 1)
      BY <1>0, <2>3 DEF FlawFound, Fn
    <3>2. srv'.pc = "checks" /\ srv'.check = 1 /\ cl'.run = "waiting" /\ srv'.sent = 0
      BY <1>0, <2>1, <2>3 DEF Waits
    <3> QED BY <2>1, <3>1, <3>2 DEF FlawInv
  <2>4. CASE cl' = [run |-> "done", ret |-> "FromMercury"] /\ srv' = srv
    BY <1>0, <2>1, <2>4 DEF FlawInv
  <2> QED BY <1>1, <2>2, <2>3, <2>4 DEF Forward
<1>2. CASE GetOutput
  <2>1. conf' = conf /\ srv' = srv /\ cl.run = "answered" /\ cl.ret # "OK"
    BY <1>0, <1>2 DEF GetOutput
  <2>2. cl'.ret # "OK"
    BY <1>0, <1>2, <2>1 DEF GetOutput, Waits
  <2> QED BY <1>0, <2>1, <2>2 DEF FlawInv
<1>3. CASE Check
  BY <1>0, <1>3, FlawCheck
<1>4. CASE Respond
  <2>1. conf' = conf /\ srv.ret # "OK" /\ srv' = [srv EXCEPT !.pc = "over"] /\ cl'.ret = srv.ret
    BY <1>0, <1>4 DEF Respond
  <2>2. srv'.pc = "over" /\ srv'.ret = srv.ret /\ srv'.check = srv.check /\ srv'.sent = 0
    BY <1>0, <2>1
  <2> QED BY <1>0, <2>1, <2>2 DEF FlawInv
<1>5. CASE UNCHANGED vars
  BY <1>5 DEF FlawInv, vars, FoundFrom
<1>6. CASE FetchBatch \/ IterItem \/ Flush \/ ExposeBatch \/ WaitBeforeSend \/ SendBatch \/ Finish
  BY <1>0, <1>6 DEF FetchBatch, IterItem, Flush, ExposeBatch, WaitBeforeSend, SendBatch, Finish
<1>7. ASSUME NEW b \in DOMAIN back, BackStep(b) PROVE FlawInv'
  <2>1. UNCHANGED <<conf, cl, srv>>
    BY <1>7 DEF BackStep, BackInput, BackPull, Callback, BulkCallback, BackRespond
  <2> QED BY <2>1 DEF FlawInv, FoundFrom
<1> QED BY <1>1, <1>2, <1>3, <1>4, <1>5, <1>6, <1>7 DEF Next, ServerStep

\* What is added to the calls that were made.
LEMMA Adds ==
  ASSUME NEW S, delivered \in Seq(S), NEW T, NEW e \in Seq(T), delivered' = delivered \o e, conf' = conf
  PROVE  /\ \E U : delivered' \in Seq(U)
         /\ Len(delivered) \in Nat /\ Len(delivered') = Len(delivered) + Len(e)
         /\ Stopped' <=> Stopped \/ \E q \in 1 .. Len(e) : e[q].index + 1 \in conf.stops
         /\ Len(e) > 0 => Last(delivered') = e[Len(e)]
<1> DEFINE U == S \cup T
<1>1. delivered \in Seq(U) /\ e \in Seq(U)
  OBVIOUS
<1> HIDE DEF U
<1>2. /\ delivered' \in Seq(U) /\ Len(delivered') = Len(delivered) + Len(e)
      /\ Len(delivered) \in Nat /\ Len(e) \in Nat
      /\ \A i \in 1 .. Len(delivered) + Len(e) :
           delivered'[i] = IF i <= Len(delivered) THEN delivered[i] ELSE e[i - Len(delivered)]
  BY <1>1, ConcatProperties
<1>3. DOMAIN delivered = 1 .. Len(delivered) /\ DOMAIN delivered' = 1 .. Len(delivered) + Len(e)
  BY <1>1, <1>2
<1>4. ASSUME Stopped PROVE Stopped'
  <2>1. PICK p \in DOMAIN delivered : delivered[p].index + 1 \in conf.stops
    BY <1>4 DEF Stopped
  <2>2. p \in DOMAIN delivered' /\ delivered'[p] = delivered[p]
    BY <1>2, <1>3
  <2> QED BY <2>1, <2>2 DEF Stopped
<1>5. ASSUME NEW q \in 1 .. Len(e), e[q].index + 1 \in conf.stops PROVE Stopped'
  <2>1. Len(delivered) + q \in DOMAIN delivered' /\ delivered'[Len(delivered) + q] = e[q]
    BY <1>2, <1>3
  <2> QED BY <1>5, <2>1 DEF Stopped
<1>6. ASSUME Stopped', ~Stopped PROVE \E q \in 1 .. Len(e) : e[q].index + 1 \in conf.stops
  <2>1. PICK p \in DOMAIN delivered' : delivered'[p].index + 1 \in conf.stops
    BY <1>6 DEF Stopped
  <2>2. p > Len(delivered)
    <3>1. CASE p <= Len(delivered)
      <4>1. p \in DOMAIN delivered /\ delivered'[p] = delivered[p]
        BY <1>2, <1>3, <3>1
      <4> QED BY <1>6, <2>1, <4>1 DEF Stopped
    <3> QED BY <1>2, <1>3, <3>1
  <2>3. p - Len(delivered) \in 1 .. Len(e) /\ delivered'[p] = e[p - Len(delivered)]
    BY <1>2, <1>3, <2>2
  <2> QED BY <2>1, <2>3
<1>7. Len(e) > 0 => Last(delivered') = e[Len(e)]
  <2> SUFFICES ASSUME Len(e) > 0 PROVE Last(delivered') = e[Len(e)]
    OBVIOUS
  <2>1. PICK m : m = Len(delivered) + Len(e)
    OBVIOUS
  <2>2. m \in 1 .. m /\ ~(m <= Len(delivered)) /\ m - Len(delivered) = Len(e)
    BY <1>2, <2>1
  <2>3. delivered'[m] = e[Len(e)]
    BY <1>2, <2>1, <2>2
  <2> QED BY <1>2, <2>1, <2>3 DEF Last
<1> QED BY <1>2, <1>4, <1>5, <1>6, <1>7

\* What a handler of the client adds.
LEMMA Effect ==
  ASSUME MemInv, SentInv, Given, NEW b \in DOMAIN back, BackStep(b),
         NEW k, k = back[b], NEW n, n = back'[b]
  PROVE  /\ Given' /\ Len(delivered) \in Nat
         /\ (Takes(k, n) \/ Pulls(k, n) \/ Fails(k, n) \/ RepliesTo(k, n)) =>
              delivered' = delivered /\ (Stopped' <=> Stopped)
         /\ \A i \in k.todo : CallsOne(k, n, i) =>
              /\ Len(delivered') = Len(delivered) + 1
              /\ Stopped' <=> Stopped \/ k.start + i \in conf.stops
              /\ Last(delivered').index + 1 = k.start + i
         /\ CallsAll(k, n) =>
              /\ Len(delivered') = Len(delivered) + Len(k.got)
              /\ Stopped' <=> Stopped \/ \E i \in 1 .. Len(k.got) : k.start + i \in conf.stops
<1>1. /\ b = srv.sent /\ srv.sent > 0 /\ srv.sent \in Nat /\ LastSent(k) /\ conf' = conf /\ srv' = srv
      /\ Works(k, n) /\ Len(k.got) \in Nat \ {0}
  BY BackCases
<1>2. PICK S : delivered \in Seq(S)
  BY DEF Given
<1>3. k.start \in Nat
  BY <1>1 DEF LastSent, Part
<1>4. (Takes(k, n) \/ Pulls(k, n) \/ Fails(k, n) \/ RepliesTo(k, n)) =>
         delivered' = delivered /\ (Stopped' <=> Stopped)
  BY <1>1 DEF Takes, Pulls, Fails, RepliesTo, Quietly, Stopped
<1>5. ASSUME NEW i \in k.todo, CallsOne(k, n, i)
      PROVE  /\ \E U : delivered' \in Seq(U)
             /\ Len(delivered') = Len(delivered) + 1
             /\ Stopped' <=> Stopped \/ k.start + i \in conf.stops
             /\ Last(delivered').index + 1 = k.start + i
  <2>1. i \in Nat
    BY <1>1, <1>5 DEF CallsOne, LastSent
  <2>2. PICK d : d = Argument(srv.sent, i)
    OBVIOUS
  <2>3. d.index = k.start + i - 1 /\ d.index + 1 = k.start + i
    <3>1. d.index = k.start + i - 1
      BY <1>1, <2>2 DEF Argument
    <3> QED BY <1>3, <2>1, <3>1
  <2>4. PICK e : e = <<d>>
    OBVIOUS
  <2>5. e \in Seq({d}) /\ Len(e) = 1 /\ e[1] = d
    BY <2>4
  <2>6. delivered' = delivered \o e
    <3>1. PICK U : U = S \cup {d}
      OBVIOUS
    <3>2. delivered \in Seq(U) /\ d \in U
      BY <1>2, <3>1
    <3>3. delivered' = Append(delivered, d)
      BY <1>5, <2>2 DEF CallsOne
    <3> QED BY <2>4, <3>2, <3>3, AppendIsConcat
  <2>7. /\ \E U : delivered' \in Seq(U)
        /\ Len(delivered') = Len(delivered) + Len(e)
        /\ Stopped' <=> Stopped \/ \E q \in 1 .. Len(e) : e[q].index + 1 \in conf.stops
        /\ Len(e) > 0 => Last(delivered') = e[Len(e)]
    BY <1>1, <1>2, <2>5, <2>6, Adds
  <2>8. (\E q \in 1 .. Len(e) : e[q].index + 1 \in conf.stops) <=> k.start + i \in conf.stops
    BY <2>3, <2>5
  <2> QED BY <2>3, <2>5, <2>7, <2>8
<1>6. ASSUME CallsAll(k, n)
      PROVE  /\ \E U : delivered' \in Seq(U)
             /\ Len(delivered') = Len(delivered) + Len(k.got)
             /\ Stopped' <=> Stopped \/ \E i \in 1 .. Len(k.got) : k.start + i \in conf.stops
  <2>1. PICK e : e = [i \in 1 .. Len(k.got) |-> Argument(srv.sent, i)]
    OBVIOUS
  <2>2. delivered' = delivered \o e
    BY <1>6, <2>1 DEF CallsAll
  <2>3. ASSUME NEW i \in 1 .. Len(k.got) PROVE e[i].index + 1 = k.start + i
    <3>1. e[i].index = k.start + i - 1
      BY <1>1, <2>1 DEF Argument
    <3> QED BY <1>1, <1>3, <3>1
  <2>4. PICK T : T = {e[i] : i \in 1 .. Len(k.got)}
    OBVIOUS
  <2>5. e \in Seq(T) /\ Len(e) = Len(k.got)
    <3>1. e \in [1 .. Len(k.got) -> T]
      BY <2>1, <2>4
    <3> QED BY <1>1, <3>1
  <2>6. /\ \E U : delivered' \in Seq(U)
        /\ Len(delivered') = Len(delivered) + Len(e)
        /\ Stopped' <=> Stopped \/ \E q \in 1 .. Len(e) : e[q].index + 1 \in conf.stops
    BY <1>1, <1>2, <2>2, <2>5, Adds
  <2>7. (\E q \in 1 .. Len(e) : e[q].index + 1 \in conf.stops)
          <=> \E i \in 1 .. Len(k.got) : k.start + i \in conf.stops
    BY <2>3, <2>5
  <2> QED BY <2>5, <2>6, <2>7
<1>7. Given'
  <2>1. \E U : delivered' \in Seq(U)
    BY <1>1, <1>2, <1>4, <1>5, <1>6 DEF Works
  <2> QED BY <1>1, <2>1 DEF Given
<1>8. Len(delivered) \in Nat
  BY <1>2
<1> QED BY <1>4, <1>5, <1>6, <1>7, <1>8

\* A failure of margo, or what the callback said.
LEMMA FailsOnlyByFault ==
  ASSUME MemInv, SentInv, NEW b \in DOMAIN back, BackStep(b), Fails(back[b], back'[b])
  PROVE  conf.faults # {}
<1>1. b = srv.sent /\ Active(b) /\ conf \in Setups
  BY BackCases DEF MemInv
<1>2. Rpc.exposes => b \in exposed
  BY <1>1, MemSafe DEF BatchesDoNotOutliveTheirMemory
<1>3. Back.pulls => Rpc.exposes
  BY <1>1, SetupsAssumption DEF SetupsAssumption, Back, Rpc
<1> QED BY <1>1, <1>2, <1>3 DEF Fails

LEMMA StopBack ==
  ASSUME MemInv, SentInv, Given, StopInv, StopsSay(conf), NEW b \in DOMAIN back, BackStep(b)
  PROVE  StopInv'
<1>1. PICK k : k = back[b]
  OBVIOUS
<1>2. PICK n : n = back'[b]
  OBVIOUS
<1>3. /\ b = srv.sent /\ srv.sent > 0 /\ srv.sent \in Nat /\ Active(b) /\ LastSent(k)
      /\ conf' = conf /\ srv' = srv /\ previous' = previous
      /\ n.start = k.start /\ n.got = k.got /\ Works(k, n) /\ k = Latest /\ n = Latest'
  BY <1>1, <1>2, BackCases DEF Latest
<1>4. previous # 0 /\ k.run # "answered"
  BY <1>1, <1>3 DEF MemInv, Active
<1>5. /\ (Takes(k, n) \/ Pulls(k, n) \/ Fails(k, n) \/ RepliesTo(k, n)) =>
           delivered' = delivered /\ (Stopped' <=> Stopped)
      /\ \A i \in k.todo : CallsOne(k, n, i) =>
           /\ Stopped' <=> Stopped \/ k.start + i \in conf.stops
           /\ Last(delivered').index + 1 = k.start + i
      /\ CallsAll(k, n) =>
           (Stopped' <=> Stopped \/ \E i \in 1 .. Len(k.got) : k.start + i \in conf.stops)
  BY <1>1, <1>2, Effect
<1>6. (Heeded' <=> Heeded) /\ Back' = Back
  BY <1>3 DEF Heeded, Back
<1>7. SUFFICES ASSUME Stopped', Heeded
               PROVE  /\ n.run \in {"respond", "answered"} /\ n.ret # "OK"
                      /\ \E i \in 1 .. Len(k.got) : k.start + i \in conf.stops
                      /\ ~Back.whole => Last(delivered').index + 1 \in conf.stops
  BY <1>3, <1>4, <1>6 DEF StopInv, Refused
<1>8. Stopped => /\ k.run = "respond" /\ k.ret # "OK"
                 /\ \E i \in 1 .. Len(k.got) : k.start + i \in conf.stops
                 /\ ~Back.whole => Last(delivered).index + 1 \in conf.stops
  BY <1>3, <1>4, <1>7 DEF StopInv, Refused
<1>9. CASE Takes(k, n) \/ Pulls(k, n) \/ RepliesTo(k, n)
  BY <1>5, <1>7, <1>8, <1>9 DEF Takes, Pulls, RepliesTo
<1>10. CASE Fails(k, n)
  BY <1>5, <1>7, <1>8, <1>10 DEF Fails
<1>11. ASSUME NEW i \in k.todo, CallsOne(k, n, i)
       PROVE  /\ n.run \in {"respond", "answered"} /\ n.ret # "OK"
              /\ \E x \in 1 .. Len(k.got) : k.start + x \in conf.stops
              /\ ~Back.whole => Last(delivered').index + 1 \in conf.stops
  <2>1. ~Stopped /\ ~Back.whole /\ i \in 1 .. Len(k.got) /\ ~conf.pool
    BY <1>3, <1>7, <1>8, <1>11 DEF CallsOne, LastSent, Heeded
  <2>2. k.start + i \in conf.stops /\ Last(delivered').index + 1 \in conf.stops
    BY <1>5, <1>7, <1>11, <2>1
  <2>3. Says(srv.sent, i) # "OK"
    BY <1>1, <1>3, <2>2 DEF Says, StopsSay
  <2> QED BY <1>11, <2>1, <2>2, <2>3 DEF CallsOne
<1>12. CASE CallsAll(k, n)
  <2>1. ~Stopped /\ Back.whole /\ n.run = "respond"
    BY <1>8, <1>12 DEF CallsAll
  <2>2. PICK i \in 1 .. Len(k.got) : k.start + i \in conf.stops
    BY <1>5, <1>7, <1>12, <2>1
  <2>3. n.ret # "OK"
    <3>1. BulkCallback(b)
      <4>1. k.run = "calls" /\ delivered' # delivered
        <5>1. Stopped' /\ ~Stopped
          BY <1>7, <2>1
        <5>2. k.run = "calls"
          BY <1>12 DEF CallsAll
        <5> QED BY <1>3, <5>1, <5>2 DEF Stopped
      <4> QED BY <1>1, <2>1, <4>1 DEF BackStep, BackInput, BackPull, Callback, BackRespond
    <3>2. DOMAIN k.got = 1 .. Len(k.got)
      BY <1>3 DEF LastSent, Part
    <3>3. {x \in DOMAIN back[b].got : Says(b, x) # "OK"} # {} /\ conf.says # "OK"
      <4>1. Says(b, i) = conf.says /\ conf.says # "OK"
        BY <1>1, <2>2 DEF Says, StopsSay
      <4> QED BY <1>1, <2>2, <3>2, <4>1
    <3>4. DOMAIN back[b] = BackFields
      BY DEF MemInv
    <3>5. back' = [back EXCEPT ![b].run = "respond", ![b].ret = conf.says]
      BY <3>1, <3>3 DEF BulkCallback
    <3>6. back'[b].ret = conf.says
      BY <3>4, <3>5 DEF BackFields
    <3> QED BY <1>2, <3>3, <3>6
  <2> QED BY <2>1, <2>2, <2>3
<1> QED BY <1>3, <1>7, <1>9, <1>10, <1>11, <1>12 DEF Works

LEMMA TruthBack ==
  ASSUME MemInv, SentInv, Given, NEW b \in DOMAIN back, BackStep(b),
         NEW k, k = back[b], NEW n, n = back'[b], Truthful(k)
  PROVE  Truthful(n)' /\ (Refused => Refused')
<1>1. /\ b = srv.sent /\ srv.sent > 0 /\ srv.sent \in Nat /\ LastSent(k)
      /\ conf' = conf /\ srv' = srv /\ Works(k, n)
  BY BackCases
<1>2. /\ (Takes(k, n) \/ Pulls(k, n) \/ Fails(k, n) \/ RepliesTo(k, n)) => (Stopped' <=> Stopped)
      /\ \A i \in k.todo : CallsOne(k, n, i) => (Stopped' <=> Stopped \/ k.start + i \in conf.stops)
      /\ CallsAll(k, n) =>
           (Stopped' <=> Stopped \/ \E i \in 1 .. Len(k.got) : k.start + i \in conf.stops)
  BY Effect
<1>3. (Heeded' <=> Heeded) /\ Back' = Back
  BY <1>1 DEF Heeded, Back
<1>4. Refused => Refused'
  BY <1>1, <1>2, <1>3 DEF Works, Refused
<1>5. CASE Takes(k, n) \/ Pulls(k, n) \/ RepliesTo(k, n)
  BY <1>1, <1>4, <1>5 DEF Takes, Pulls, RepliesTo, Truthful
<1>6. CASE Fails(k, n)
  <2>1. conf.faults # {} /\ n.run \in {"respond", "answered"} /\ n.ret = "FromMercury"
    BY <1>6, FailsOnlyByFault DEF Fails
  <2> QED BY <1>1, <1>4, <2>1 DEF Truthful
<1>7. ASSUME NEW i \in k.todo, CallsOne(k, n, i) PROVE Truthful(n)'
  <2>1. CASE n.run = "calls" /\ n.ret = k.ret
    BY <1>1, <1>4, <1>7, <2>1 DEF CallsOne, Truthful
  <2>2. CASE ~conf.pool /\ n.run = "respond" /\ n.ret = Says(srv.sent, i) /\ n.ret # "OK"
    <3>1. n.ret = conf.says /\ k.start + i \in conf.stops
      BY <1>1, <2>2 DEF Says
    <3>2. Refused'
      BY <1>2, <1>3, <1>7, <2>2, <3>1 DEF Refused, Heeded
    <3> QED BY <1>1, <2>2, <3>1, <3>2 DEF Truthful
  <2> QED BY <1>7, <2>1, <2>2 DEF CallsOne
<1>8. CASE CallsAll(k, n)
  <2>1. CASE n.ret = "OK"
    BY <1>4, <1>8, <2>1 DEF Truthful, CallsAll
  <2>2. ASSUME n.ret = conf.says, NEW i \in 1 .. Len(k.got), Says(srv.sent, i) # "OK"
        PROVE  Truthful(n)'
    <3>1. k.start + i \in conf.stops
      BY <1>1, <2>2 DEF Says
    <3>2. Refused'
      BY <1>2, <1>3, <1>8, <3>1 DEF Refused, Heeded, CallsAll
    <3> QED BY <1>1, <1>8, <2>2, <3>2 DEF Truthful, CallsAll
  <2> QED BY <1>4, <1>8, <2>1, <2>2 DEF CallsAll
<1> QED BY <1>1, <1>4, <1>5, <1>6, <1>7, <1>8 DEF Works

LEMMA CompleteBack ==
  ASSUME MemInv, SentInv, Given, NEW b \in DOMAIN back, BackStep(b),
         NEW k, k = back[b], NEW n, n = back'[b], Truthful(k), Complete(k)
  PROVE  Complete(n)'
<1>1. /\ b = srv.sent /\ LastSent(k) /\ Works(k, n) /\ n.start = k.start /\ n.got = k.got
      /\ Len(k.got) \in Nat \ {0} /\ k.start \in Nat /\ Active(b)
  BY BackCases DEF LastSent, Part
<1>2. /\ Len(delivered) \in Nat
      /\ (Takes(k, n) \/ Pulls(k, n) \/ Fails(k, n) \/ RepliesTo(k, n)) => delivered' = delivered
      /\ \A i \in k.todo : CallsOne(k, n, i) => Len(delivered') = Len(delivered) + 1
      /\ CallsAll(k, n) => Len(delivered') = Len(delivered) + Len(k.got)
  BY Effect
<1>3. IsFiniteSet(1 .. Len(k.got)) /\ Cardinality(1 .. Len(k.got)) = Len(k.got)
  <2>1. \A m \in Nat \ {0} : IsFiniteSet(1 .. m) /\ Cardinality(1 .. m) = m
    <3> TAKE m \in Nat \ {0}
    <3>1. /\ IsFiniteSet(1 .. m)
          /\ Cardinality(1 .. m) = IF 1 > m THEN 0 ELSE m - 1 + 1
      BY FS_Interval
    <3> QED BY <3>1
  <2> QED BY <1>1, <2>1
<1>4. k.run \in {"pull", "calls"} => IsFiniteSet(k.todo) /\ Cardinality(k.todo) \in Nat
  <2> SUFFICES ASSUME k.run \in {"pull", "calls"}
               PROVE  IsFiniteSet(k.todo) /\ Cardinality(k.todo) \in Nat
    OBVIOUS
  <2>1. k.todo \subseteq 1 .. Len(k.got)
    BY <1>1 DEF LastSent
  <2>2. IsFiniteSet(k.todo)
    BY <1>3, <2>1, FS_Subset
  <2> QED BY <2>2, FS_CardinalityType
<1>5. CASE Takes(k, n)
  BY <1>1, <1>2, <1>3, <1>5 DEF Takes, Complete
<1>6. CASE Pulls(k, n)
  BY <1>1, <1>2, <1>6 DEF Pulls, Complete
<1>7. CASE Fails(k, n)
  BY <1>7 DEF Fails, Complete
<1>8. ASSUME NEW i \in k.todo, CallsOne(k, n, i) PROVE Complete(n)'
  <2>1. CASE n.run = "calls" /\ n.todo = k.todo \ {i} /\ n.ret = k.ret
    <3>1. k.run = "calls"
      BY <1>8 DEF CallsOne
    <3>2. Cardinality(k.todo \ {i}) = Cardinality(k.todo) - 1
      <4>1. IsFiniteSet(k.todo) /\ i \in k.todo
        BY <1>4, <3>1, <1>8
      <4> QED BY <4>1, FS_RemoveElement
    <3>3. Cardinality(n.todo) = Cardinality(k.todo) - 1
      BY <2>1, <3>2
    <3>4. Len(delivered') + Cardinality(n.todo) = n.start + Len(n.got)
      <4>1. Len(delivered') = Len(delivered) + 1
        BY <1>2, <1>8
      <4>2. Len(delivered) + Cardinality(k.todo) = k.start + Len(k.got)
        BY <3>1 DEF Complete
      <4>3. n.start = k.start /\ n.got = k.got /\ Cardinality(k.todo) \in Nat
        BY <1>1, <1>4, <3>1
      <4> QED BY <1>1, <1>2, <3>3, <4>1, <4>2, <4>3
    <3> QED BY <2>1, <3>4 DEF Complete
  <2>2. CASE n.run = "respond" /\ n.ret # "OK"
    BY <2>2 DEF Complete
  <2> QED BY <1>8, <2>1, <2>2 DEF CallsOne
<1>9. CASE CallsAll(k, n)
  <2>1. k.run = "calls" /\ Back.whole /\ n.run = "respond"
    BY <1>9 DEF CallsAll
  <2>2. k.todo = 1 .. Len(k.got)
    BY <1>1, <2>1 DEF LastSent
  <2>3. Len(delivered) + Len(k.got) = k.start + Len(k.got)
    BY <1>3, <2>1, <2>2 DEF Complete
  <2> QED BY <1>1, <1>2, <1>9, <2>1, <2>3 DEF Complete
<1>10. CASE RepliesTo(k, n)
  <2>1. CASE k.run = "respond"
    BY <1>1, <1>2, <1>10, <2>1 DEF RepliesTo, Complete
  <2>2. CASE k.run = "calls" /\ k.todo = {}
    <3>1. Cardinality(k.todo) = 0
      BY <2>2, FS_EmptySet
    <3>2. Len(delivered) = k.start + Len(k.got)
      BY <1>1, <1>2, <2>2, <3>1 DEF Complete
    <3> QED BY <1>1, <1>2, <1>10, <3>2 DEF RepliesTo, Complete
  <2> QED BY <1>10, <2>1, <2>2 DEF RepliesTo
<1> QED BY <1>1, <1>5, <1>6, <1>7, <1>8, <1>9, <1>10 DEF Works

LEMMA ReachBack ==
  ASSUME MemInv, SentInv, Given, ReachInv, ToldInv, NEW b \in DOMAIN back, BackStep(b)
  PROVE  ReachInv' /\ ToldInv'
<1>1. PICK k : k = back[b]
  OBVIOUS
<1>2. PICK n : n = back'[b]
  OBVIOUS
<1>3. /\ b = srv.sent /\ srv.sent > 0 /\ srv.sent \in Nat /\ Active(b)
      /\ conf' = conf /\ srv' = srv /\ previous' = previous
      /\ n.start = k.start /\ n.got = k.got /\ k = Latest /\ n = Latest'
  BY <1>1, <1>2, BackCases DEF Latest
<1>4. previous # 0 /\ previous = b /\ cl.run = "waiting" /\ cl' = cl
  <2>1. cl' = cl
    BY DEF BackStep, BackInput, BackPull, Callback, BulkCallback, BackRespond
  <2>2. previous # 0 /\ previous = b
    BY <1>3 DEF MemInv
  <2> QED BY <1>3, <2>1, <2>2, MemSafe DEF BatchesDoNotOutliveTheirMemory
<1>5. Truthful(k) /\ Truthful(n)' /\ (Refused => Refused')
  <2>1. Truthful(k)
    BY <1>3 DEF ReachInv
  <2> QED BY <1>1, <1>2, <2>1, TruthBack
<1>6. srv.ret = "OK" => Complete(n)'
  BY <1>1, <1>2, <1>3, <1>5, CompleteBack DEF ReachInv, Lossless
<1>7. Covered' = Covered
  BY <1>3 DEF Covered
<1>8. srv.pc \notin {"respond", "over"}
  BY <1>4 DEF MemInv
<1>9. srv.ret = "OK" => Lossless'
  BY <1>3, <1>4, <1>6, <1>7, <1>8 DEF ReachInv, Lossless, Rpc, Walking, Sending
<1>10. ReachInv'
  BY <1>3, <1>5, <1>9 DEF ReachInv, Sending
<1>11. ToldInv'
  BY <1>3, <1>4, <1>5 DEF ToldInv, Allowed
<1> QED BY <1>10, <1>11

\* The steps of the handler that send nothing, and what stays as it is.
LEMMA ToldFrame ==
  ASSUME UNCHANGED <<conf, back, delivered>>, srv'.sent = srv.sent
  PROVE  /\ (Given => Given') /\ (Refused' <=> Refused) /\ Covered' = Covered /\ Latest' = Latest
         /\ srv.sent > 0 => /\ Truthful(Latest) => Truthful(Latest)'
                            /\ Complete(Latest) => Complete(Latest)'
<1>1. (Refused' <=> Refused) /\ Covered' = Covered /\ Latest' = Latest /\ (Given => Given')
  BY DEF Refused, Stopped, Heeded, Back, Covered, Latest, Given
<1> QED BY <1>1 DEF Truthful, Complete, Latest

LEMMA StopFrame ==
  ASSUME StopInv, UNCHANGED <<conf, back, delivered>>, srv'.sent = srv.sent,
         Refused => /\ srv'.pc \in Walking => previous' # 0
                    /\ srv'.pc \in Ending /\ previous' = 0 /\ conf.says = "Error" => srv'.ret # "OK"
  PROVE  StopInv'
<1>1. (Refused' <=> Refused) /\ Latest' = Latest /\ Back' = Back
  BY ToldFrame DEF Back
<1> QED BY <1>1 DEF StopInv

\* The handler gives up with an error.
LEMMA ReachOut ==
  ASSUME ReachInv, UNCHANGED <<conf, back, delivered>>, srv'.sent = srv.sent,
         srv'.pc \in {"flush", "finish", "respond", "over"}, srv'.ret # "OK"
  PROVE  ReachInv'
<1>1. srv.sent > 0 => Truthful(Latest)'
  BY ToldFrame DEF ReachInv
<1> QED BY <1>1 DEF ReachInv, Sending

\* NotSent with anything but a stop is an error.
LEMMA NotSentFails ==
  ASSUME DOMAIN srv = SrvFields, NEW ret, ret # "OK", NotSent(ret)
  PROVE  /\ DOMAIN srv' = SrvFields /\ srv'.sent = srv.sent /\ srv'.pc \in {"flush", "finish"}
         /\ srv'.ret = "OK" => ret = "Stop" /\ (Rpc.visits = "keys" \/ ~srv.last)
         /\ srv'.ret \in {"OK", ret, srv.ret}
         /\ srv'.pc = "flush" => Rpc.visits # "keys" /\ ~srv.last
BY DEF NotSent, SrvFields, Continue, First

\* What the handler learns when it waits for an answer that is no success.  When
\* the callback said no it gives up.
LEMMA WaitLearns ==
  ASSUME MemInv, CollectInv, SentInv, StopInv, ReachInv, StopsLate(conf), WaitBeforeSend,
         AnswerOf # "OK", NotSent(AnswerOf)
  PROVE  /\ previous = srv.sent /\ srv.sent > 0 /\ srv.sent \in Nat
         /\ Latest.run = "answered" /\ Latest.ret = AnswerOf /\ Truthful(Latest)
         /\ AnswerOf = "Stop" => Refused /\ conf.says = "Stop"
         /\ Refused => srv'.pc = "finish"
<1>0. /\ srv.pc = "wait" /\ DOMAIN srv = SrvFields /\ srv.sent \in Nat /\ conf \in Setups
      /\ srv.last \in BOOLEAN /\ previous \in {0, srv.sent}
  BY DEF WaitBeforeSend, CollectInv, SentInv
<1>1. PICK k : k = Latest
  OBVIOUS
<1>2. /\ previous = srv.sent /\ srv.sent > 0 /\ k.run = "answered" /\ k.ret = AnswerOf
      /\ LastSent(k) /\ Truthful(k) /\ k = back[srv.sent]
  BY <1>0, <1>1 DEF AnswerOf, Answered, WaitBeforeSend, SentInv, ReachInv, Latest
<1>3. AnswerOf = "Stop" => Refused /\ conf.says = "Stop"
  BY <1>2 DEF Truthful
<1>4. srv'.pc \in {"flush", "finish"} /\ (srv'.pc = "flush" => Rpc.visits # "keys" /\ ~srv.last)
  BY <1>0, NotSentFails
<1>5. ASSUME Refused, srv'.pc = "flush" PROVE FALSE
  <2>1. PICK i \in 1 .. Len(k.got) : k.start + i \in conf.stops
    BY <1>1, <1>5 DEF StopInv
  <2>2. Rpc.visits = "items" /\ Walk
    <3>1. Rpc.visits \in {"keys", "items"}
      BY <1>0, SetupsAssumption DEF SetupsAssumption, Rpc
    <3> QED BY <1>4, <1>5, <3>1 DEF CollectInv
  <2>3. /\ Len(srv.cur) = Size(conf) /\ srv.count = Base(conf, srv.sent)
        /\ srv.count + Len(srv.cur) <= Len(conf.items)
    BY <1>0, <1>4, <1>5, <2>2 DEF Walk, CollectInv, Ready, Sending, Part
  <2>4. /\ k.start + i - 1 \in Nat /\ k.start \in Nat
        /\ BatchOf(conf, k.start + i - 1) = srv.sent - 1
    BY <1>0, <1>2, Places
  <2>5. PICK x : x = k.start + i
    OBVIOUS
  <2>6. x \in conf.stops /\ BatchOf(conf, x - 1) = srv.sent - 1
    BY <2>1, <2>4, <2>5
  <2>7. Len(conf.items) < Base(conf, BatchOf(conf, x - 1) + 2)
    BY <2>2, <2>6 DEF StopsLate, Rpc
  <2>8. BatchOf(conf, x - 1) + 2 = srv.sent + 1
    BY <1>0, <1>2, <2>6
  <2>9. Base(conf, srv.sent + 1) = Base(conf, srv.sent) + Size(conf) /\ Base(conf, srv.sent) \in Nat
    BY <1>0, Bases
  <2>10. Len(conf.items) \in Nat /\ Size(conf) \in Nat
    BY <1>0, Sizes
  <2> QED BY <2>3, <2>7, <2>8, <2>9, <2>10
<1> QED BY <1>0, <1>1, <1>2, <1>3, <1>4, <1>5

LEMMA StopServer ==
  ASSUME MemInv, CollectInv, SentInv, StopInv, ReachInv, StopsLate(conf),
         Forward \/ GetOutput \/ ServerStep
  PROVE  StopInv'
<1> USE DEF SrvFields
<1>0. DOMAIN srv = SrvFields /\ srv.sent \in Nat /\ conf \in Setups
  BY DEF CollectInv
<1>1. CASE Forward \/ Check
  <2>1. UNCHANGED <<conf, back, delivered>> /\ srv'.sent = srv.sent
    BY <1>0, <1>1 DEF Forward, Check
  <2>2. ~Refused
    <3>1. srv.pc \in {"none", "checks"}
      BY <1>1 DEF Forward, Check, MemInv, Waits
    <3>2. srv.sent = 0
      BY <3>1 DEF CollectInv
    <3> QED BY <3>2 DEF StopInv
  <2> QED BY <2>1, <2>2, StopFrame
<1>2. CASE GetOutput
  BY <1>2 DEF GetOutput, StopInv, Refused, Stopped, Heeded, Back, Latest
<1>3. CASE FetchBatch \/ IterItem \/ Flush
  <2>1. /\ UNCHANGED <<conf, previous, back, delivered>> /\ srv'.sent = srv.sent
        /\ srv.pc \in {"loop", "flush"}
    BY <1>0, <1>3 DEF FetchBatch, IterItem, Flush
  <2>2. Refused => previous' # 0
    BY <2>1 DEF StopInv, Walking
  <2> QED BY <2>1, <2>2, StopFrame
<1>4. CASE ExposeBatch
  <2>1. UNCHANGED <<conf, previous, back, delivered>> /\ srv.pc = "expose"
    BY <1>4 DEF ExposeBatch
  <2>2. srv'.sent = srv.sent
    BY <1>0, <1>4, NotSentFails DEF ExposeBatch
  <2>3. Refused => previous' # 0
    BY <2>1 DEF StopInv, Walking
  <2> QED BY <2>1, <2>2, <2>3, StopFrame
<1>5. CASE WaitBeforeSend
  <2>1. UNCHANGED <<conf, back, delivered>> /\ srv.pc = "wait" /\ previous' = 0
    BY <1>5 DEF WaitBeforeSend
  <2>2. CASE AnswerOf = "OK" /\ srv' = [srv EXCEPT !.pc = "send"]
    <3>1. ~Refused
      BY <2>1, <2>2 DEF StopInv, Walking, AnswerOf, SentInv, Latest
    <3>2. srv'.sent = srv.sent
      BY <1>0, <2>2
    <3> QED BY <2>1, <3>1, <3>2, StopFrame
  <2>3. CASE AnswerOf # "OK" /\ NotSent(AnswerOf)
    <3>1. srv'.sent = srv.sent /\ (srv'.ret = "OK" => AnswerOf = "Stop")
      BY <1>0, <2>3, NotSentFails
    <3>2. /\ AnswerOf = "Stop" => conf.says = "Stop"
          /\ Refused => srv'.pc = "finish"
      BY <1>5, <2>3, WaitLearns
    <3>3. Refused => /\ srv'.pc \in Walking => previous' # 0
                     /\ srv'.pc \in Ending /\ previous' = 0 /\ conf.says = "Error" => srv'.ret # "OK"
      BY <3>1, <3>2 DEF Walking
    <3> QED BY <2>1, <3>1, <3>3, StopFrame
  <2> QED BY <1>5, <2>2, <2>3 DEF WaitBeforeSend
<1>6. CASE SendBatch
  <2>1. srv.pc = "send" /\ previous = 0 /\ UNCHANGED <<conf, delivered>>
    BY <1>6 DEF SendBatch, MemInv
  <2>2. ~Refused
    BY <2>1 DEF StopInv, Walking
  <2>3. ~Refused'
    BY <2>1, <2>2 DEF Refused, Stopped, Heeded, Back
  <2> QED BY <2>3 DEF StopInv
<1>7. CASE Finish
  <2>1. /\ UNCHANGED <<conf, back, delivered>> /\ srv.pc = "finish" /\ previous' = 0
        /\ srv'.sent = srv.sent /\ srv'.pc = "respond" /\ srv'.ret = First(srv.ret, AnswerOf)
    BY <1>0, <1>7 DEF Finish
  <2>2. ASSUME Refused, conf.says = "Error" PROVE srv'.ret # "OK"
    <3>1. CASE previous = 0
      BY <2>1, <2>2, <3>1 DEF StopInv, Ending, First
    <3>2. CASE previous # 0
      <4>1. AnswerOf # "OK"
        BY <2>2, <3>2 DEF StopInv, AnswerOf, SentInv, Latest
      <4> QED BY <2>1, <4>1 DEF First
    <3> QED BY <3>1, <3>2
  <2> QED BY <2>1, <2>2, StopFrame DEF Walking
<1>8. CASE Respond
  <2>1. /\ UNCHANGED <<conf, previous, back, delivered>> /\ srv.pc = "respond"
        /\ srv'.sent = srv.sent /\ srv'.pc = "over" /\ srv'.ret = srv.ret
    BY <1>0, <1>8 DEF Respond
  <2>2. Refused /\ previous' = 0 /\ conf.says = "Error" => srv'.ret # "OK"
    BY <2>1 DEF StopInv, Ending
  <2> QED BY <2>1, <2>2, StopFrame DEF Walking
<1> QED BY <1>1, <1>2, <1>3, <1>4, <1>5, <1>6, <1>7, <1>8 DEF ServerStep

\* How far the batches go: everything is covered by those that were sent and the
\* one that is ready.
LEMMA ReadyCovers ==
  ASSUME MemInv, CollectInv, SentInv, srv.sent > 0, Ends(conf, Latest.got, Latest.start)
  PROVE  /\ Covered \in Nat /\ Covered = Latest.start + Len(Latest.got)
         /\ Base(conf, srv.sent) >= Len(conf.items) => Covered = Len(conf.items)
         /\ Base(conf, srv.sent) < Len(conf.items) => Covered = Base(conf, srv.sent)
<1>1. PICK k : k = Latest
  OBVIOUS
<1>2. /\ k.start = Base(conf, srv.sent - 1) /\ Len(k.got) \in Nat /\ k.start \in Nat
      /\ Len(k.got) <= Size(conf) /\ k.start + Len(k.got) <= Len(conf.items)
      /\ (Len(k.got) = Size(conf) \/ k.start + Len(k.got) = Len(conf.items))
      /\ conf \in Setups /\ srv.sent \in Nat /\ Size(conf) \in Nat /\ Len(conf.items) \in Nat
  BY <1>1, Sizes DEF SentInv, LastSent, Part, Ends, Latest, CollectInv
<1>3. PICK m \in Nat : m = srv.sent - 1 /\ srv.sent = m + 1
  <2>1. srv.sent - 1 \in Nat /\ srv.sent = (srv.sent - 1) + 1
    BY <1>2
  <2> QED BY <2>1
<1>4. Base(conf, srv.sent) = k.start + Size(conf)
  <2>1. Base(conf, m + 1) = Base(conf, m) + Size(conf)
    BY <1>2, Bases
  <2> QED BY <1>2, <1>3, <2>1
<1>5. Covered = k.start + Len(k.got)
  BY <1>1, <1>2 DEF Covered
<1> QED BY <1>1, <1>2, <1>4, <1>5

\* No batch is left when the handler stops looking keys up.
LEMMA NoBatchLeft ==
  ASSUME NEW c \in Setups, NEW i \in Nat, conf = c, Len(c.items) > 0, i >= NumBatches
  PROVE  Base(c, i) >= Len(c.items)
<1> DEFINE L == Len(c.items)
           B == Size(c)
           q == (L + B - 1) \div B
<1>0. L \in Nat /\ B \in Nat \ {0}
  BY Sizes
<1>1. i >= q
  BY DEF NumBatches, BatchSize, Size
<1> HIDE DEF L, B
<1>2. q \in Nat /\ L + B - 1 < B * q + B
  <2>1. L + B - 1 \in Nat
    BY <1>0
  <2> QED BY <1>0, <2>1, Quotient
<1> HIDE DEF q
<1>3. q * B <= i * B
  BY <1>0, <1>1, <1>2, Monotone
<1>4. q * B = B * q /\ q * B \in Nat /\ i * B \in Nat
  BY <1>0, <1>2, NextMultiple
<1>5. L <= i * B
  BY <1>0, <1>2, <1>3, <1>4
<1> QED BY <1>5 DEF Base, B, L

LEMMA ReachLookup ==
  ASSUME MemInv, CollectInv, SentInv, Given, ReachInv, FetchBatch \/ IterItem \/ Flush
  PROVE  ReachInv'
<1> USE DEF SrvFields
<1>0. /\ DOMAIN srv = SrvFields /\ srv.sent \in Nat /\ srv.index = srv.sent /\ conf \in Setups
      /\ srv.pc \in {"loop", "flush"} /\ UNCHANGED <<conf, previous, back, delivered>>
      /\ srv.offset \in Nat /\ Len(conf.items) \in Nat /\ Rpc' = Rpc
      /\ ToSend \in {"expose", "wait"} /\ srv.last \in BOOLEAN
  BY Sizes DEF CollectInv, FetchBatch, IterItem, Flush, Rpc, ToSend
<1>e. srv.sent > 0 => Ends(conf, Latest.got, Latest.start)
  BY <1>0 DEF SentInv, LastSent, Latest
<1>t. srv'.sent = srv.sent /\ srv.sent > 0 =>
        Truthful(Latest)' /\ (srv.ret = "OK" => Complete(Latest)')
  BY <1>0, ToldFrame DEF ReachInv, Lossless
<1>c. srv'.sent = srv.sent => Covered' = Covered /\ Latest' = Latest /\ (Refused' <=> Refused)
  BY <1>0, ToldFrame
<1>1. ASSUME NEW p \in {"flush", "finish"}, srv' = [srv EXCEPT !.pc = p, !.ret = "DatabaseError"]
      PROVE  ReachInv'
  <2>1. srv'.pc = p /\ srv'.ret = "DatabaseError" /\ srv'.sent = srv.sent
    BY <1>0, <1>1
  <2> QED BY <1>0, <2>1, ReachOut
<1>2. CASE FetchBatch
  <2>0. srv.pc = "loop" /\ Rpc.visits = "keys" /\ ~srv.last /\ srv.ret = "OK" /\ previous = srv.sent
    BY <1>0, <1>2 DEF FetchBatch, CollectInv, Lookup, ReachInv
  <2>1. ASSUME NEW n, NEW s, srv' = [srv EXCEPT !.pc = ToSend, !.count = n, !.cur = s]
        PROVE  ReachInv'
    <3>1. /\ srv'.pc \in {"expose", "wait"} /\ srv'.sent = srv.sent /\ srv'.ret = "OK"
          /\ srv'.last = srv.last
      BY <1>0, <2>0, <2>1
    <3>2. previous' = 0 /\ srv'.sent > 0 => FALSE
      BY <1>0, <2>0, <3>1
    <3> QED BY <1>0, <1>t, <2>0, <3>1, <3>2 DEF ReachInv, Lossless, Sending
  <2>2. CASE srv.index >= NumBatches /\ srv' = [srv EXCEPT !.pc = "finish"]
    <3>1. srv'.pc = "finish" /\ srv'.sent = srv.sent /\ srv'.ret = "OK"
      BY <1>0, <2>0, <2>2
    <3>2. Len(conf.items) > 0
      <4>1. conf.items # <<>> /\ conf.items \in Seq(ToSet(conf.items))
        BY <1>0, <2>0, SetupsAssumption DEF SetupsAssumption, Rpc
      <4> QED BY <1>0, <4>1, EmptySeq
    <3>3. Base(conf, srv.sent) >= Len(conf.items)
      BY <1>0, <2>2, <3>2, NoBatchLeft
    <3>4. srv.sent > 0
      <4>1. Base(conf, 0) = 0
        BY <1>0, Bases
      <4> QED BY <1>0, <3>2, <3>3, <4>1
    <3>5. Covered = Len(conf.items)
      BY <1>e, <3>3, <3>4, ReadyCovers
    <3> QED BY <1>0, <1>c, <1>t, <2>0, <3>1, <3>5 DEF ReachInv, Lossless, Sending, Walking
  <2> QED BY <1>1, <1>2, <2>1, <2>2 DEF FetchBatch
<1>3. CASE IterItem
  <2>0. /\ srv.pc = "loop" /\ Rpc.visits = "items" /\ ~srv.last /\ srv.ret = "OK"
        /\ previous = srv.sent /\ srv.offset = Covered + Len(srv.cur)
    <3>1. Rpc.visits = "items" /\ srv.pc = "loop"
      BY <1>3 DEF IterItem
    <3>2. ~srv.last
      BY <3>1 DEF CollectInv, Walk
    <3> QED BY <3>1, <3>2 DEF ReachInv, Lossless, Walking
  <2>1. CASE srv.offset = Len(conf.items) /\ srv' = [srv EXCEPT !.pc = "flush"]
    <3>1. /\ srv'.pc = "flush" /\ srv'.sent = srv.sent /\ srv'.ret = "OK" /\ srv'.last = srv.last
          /\ srv'.offset = srv.offset /\ srv'.cur = srv.cur
      BY <1>0, <2>0, <2>1
    <3> QED BY <1>0, <1>c, <1>t, <2>0, <2>1, <3>1 DEF ReachInv, Lossless, Sending
  <2>2. ASSUME NEW e, srv' = [srv EXCEPT !.offset = @ + 1, !.cur = Append(srv.cur, e),
                                !.pc = IF Len(Append(srv.cur, e)) = BatchSize THEN ToSend ELSE "loop"]
        PROVE  ReachInv'
    <3>1. PICK s : s = Append(srv.cur, e)
      OBVIOUS
    <3>2. Len(s) = Len(srv.cur) + 1 /\ Len(srv.cur) \in Nat
      <4>1. PICK S : srv.cur \in Seq(S)
        <5>1. srv.cur \in Seq(Found(conf)) \/ srv.cur = <<>>
          BY <1>0, <2>0 DEF CollectInv, Walk, Part
        <5>2. <<>> \in Seq(Found(conf))
          OBVIOUS
        <5> QED BY <5>1, <5>2
      <4>2. PICK T : T = S \cup {e}
        OBVIOUS
      <4>3. srv.cur \in Seq(T) /\ e \in T
        BY <4>1, <4>2
      <4> QED BY <3>1, <4>3, AppendProperties
    <3>3. /\ srv'.pc \in {"loop", "expose", "wait"} /\ srv'.sent = srv.sent /\ srv'.ret = "OK"
          /\ srv'.last = srv.last /\ srv'.offset = srv.offset + 1 /\ srv'.cur = s
      BY <1>0, <2>0, <2>2, <3>1
    <3>4. previous' = 0 /\ srv'.sent > 0 => FALSE
      BY <1>0, <2>0, <3>3
    <3>5. srv'.offset = Covered' + Len(srv'.cur)
      <4>1. Covered \in Nat
        <5>1. CASE srv.sent = 0
          BY <5>1 DEF Covered
        <5>2. CASE srv.sent > 0
          BY <1>e, <5>2, ReadyCovers
        <5> QED BY <1>0, <5>1, <5>2
      <4> QED BY <1>0, <1>c, <2>0, <3>2, <3>3, <4>1
    <3> QED BY <1>0, <1>t, <2>0, <3>3, <3>4, <3>5 DEF ReachInv, Lossless, Sending
  <2> QED BY <1>1, <1>3, <2>1, <2>2 DEF IterItem
<1>4. CASE Flush
  <2>0. srv.pc = "flush" /\ Rpc.visits = "items"
    <3>1. srv.pc = "flush" /\ Rpc.visits \in {"keys", "items"}
      BY <1>0, <1>4, SetupsAssumption DEF SetupsAssumption, Rpc, Flush
    <3> QED BY <3>1 DEF CollectInv, Lookup
  <2>1. CASE srv.ret # "OK"
    <3>1. /\ srv'.pc \in {"finish", "expose", "wait"} /\ srv'.sent = srv.sent /\ srv'.ret # "OK"
          /\ srv'.last = TRUE
      BY <1>0, <1>4, <2>1 DEF Flush
    <3> QED BY <1>0, <1>t, <3>1 DEF ReachInv
  <2>2. CASE srv.ret = "OK"
    <3>0. /\ previous = srv.sent /\ srv.offset = Len(conf.items) /\ srv.offset = Covered + Len(srv.cur)
      BY <2>0, <2>2 DEF ReachInv, Lossless, Walking
    <3>1. /\ srv'.sent = srv.sent /\ srv'.ret = "OK" /\ srv'.last = TRUE /\ srv'.cur = srv.cur
          /\ srv'.offset = srv.offset
          /\ srv'.pc = IF srv.cur = <<>> THEN "finish" ELSE ToSend
      BY <1>0, <1>4, <2>2 DEF Flush
    <3>2. CASE srv.cur = <<>>
      <4>1. Len(srv.cur) = 0 /\ Covered \in Nat
        <5>1. CASE srv.sent = 0
          BY <3>2, <5>1 DEF Covered
        <5>2. CASE srv.sent > 0
          BY <1>e, <3>2, <5>2, ReadyCovers
        <5> QED BY <1>0, <5>1, <5>2
      <4>2. Covered = Len(conf.items)
        BY <3>0, <4>1
      <4> QED BY <1>0, <1>c, <1>t, <2>2, <3>0, <3>1, <3>2, <4>2 DEF ReachInv, Lossless, Sending, Walking
    <3>3. CASE srv.cur # <<>>
      <4>1. srv'.pc \in {"expose", "wait"}
        BY <1>0, <3>1, <3>3
      <4>2. previous' = 0 /\ srv'.sent > 0 => FALSE
        BY <1>0, <3>0, <3>1
      <4> QED BY <1>0, <1>c, <1>t, <2>0, <2>2, <3>0, <3>1, <4>1, <4>2 DEF ReachInv, Lossless, Sending, Walking
    <3> QED BY <3>2, <3>3
  <2> QED BY <2>1, <2>2
<1> QED BY <1>2, <1>3, <1>4

\* The batch that goes begins where the one before has ended.
LEMMA ReachSend ==
  ASSUME MemInv, CollectInv, SentInv, Given, ReachInv, srv.pc = "send",
         UNCHANGED <<conf, delivered>>, srv' = Advanced, previous' = srv.sent + 1,
         back' = [back EXCEPT ![srv.sent + 1] =
                   [NoBack EXCEPT !.run = "input", !.start = srv.count, !.got = srv.cur]]
  PROVE  ReachInv'
<1> USE DEF SrvFields
<1>1. PICK n : n = [NoBack EXCEPT !.run = "input", !.start = srv.count, !.got = srv.cur]
  OBVIOUS
<1>2. n.start = srv.count /\ n.got = srv.cur /\ n.run = "input" /\ n.ret = "OK"
  BY <1>1 DEF NoBack
<1>3. srv'.sent = srv.sent + 1 /\ srv'.sent > 0 /\ n = Latest'
  BY <1>1, SentSend DEF Latest
<1>4. /\ srv.sent \in Nat /\ conf \in Setups /\ srv.count = Base(conf, srv.sent)
      /\ srv.count \in Nat /\ Len(srv.cur) \in Nat /\ srv.cur \in Seq(Found(conf)) /\ srv.cur # <<>>
      /\ srv.count + Len(srv.cur) <= Len(conf.items) /\ Len(conf.items) \in Nat
      /\ previous = 0 /\ DOMAIN srv = SrvFields /\ srv.last \in BOOLEAN
  BY Sizes DEF CollectInv, Ready, Sending, Part, MemInv
<1>5. Len(srv.cur) > 0
  BY <1>4, EmptySeq
<1>6. /\ srv'.ret = srv.ret /\ srv'.last = srv.last /\ srv'.cur = <<>> /\ Len(srv'.cur) = 0
      /\ srv'.pc = IF srv.last THEN "finish" ELSE "loop"
      /\ Rpc.visits # "keys" => srv'.offset = srv.offset
  <2>1. PICK m : m = srv.count + Numbered
    OBVIOUS
  <2>2. srv' = [srv EXCEPT !.index = @ + 1, !.sent = @ + 1, !.cur = <<>>,
                        !.offset = IF Rpc.visits = "keys" THEN @ + Len(srv.cur) ELSE @,
                        !.pc = IF srv.last THEN "finish" ELSE "loop",
                        !.count = m]
    BY <1>4, <2>1 DEF Advanced
  <2> QED BY <1>4, <2>2
<1>7. Truthful(n)' /\ (~srv.last => srv.ret = "OK") /\ previous' = srv'.sent
  BY <1>2, <1>3 DEF Truthful, ReachInv, Sending
<1>8. ASSUME srv.ret = "OK" PROVE Len(delivered) = srv.count
  <2>1. CASE srv.sent = 0
    <3>1. delivered = <<>> /\ srv.count = 0
      BY <1>4, <2>1, Bases DEF Given
    <3> QED BY <3>1
  <2>2. CASE srv.sent > 0
    <3>1. Latest.run = "answered" /\ Latest.ret = "OK" /\ Complete(Latest)
      BY <1>4, <1>8, <2>2 DEF ReachInv, Lossless, Walking
    <3>2. Len(delivered) = Latest.start + Len(Latest.got)
      BY <3>1 DEF Complete
    <3>3. Ends(conf, Latest.got, Latest.start)
      BY <2>2 DEF SentInv, LastSent, Latest
    <3>4. Base(conf, srv.sent) < Len(conf.items)
      BY <1>4, <1>5
    <3> QED BY <1>4, <2>2, <3>2, <3>3, <3>4, ReadyCovers
  <2> QED BY <1>4, <2>1, <2>2
<1>9. Covered' = srv.count + Len(srv.cur)
  BY <1>2, <1>3, <1>4 DEF Covered
<1>10. ASSUME Rpc.visits = "items" PROVE srv.offset = srv.count + Len(srv.cur)
  BY <1>10 DEF CollectInv, Walk, Sending
<1>11. srv.last => Rpc.visits = "items"
  <2>1. Rpc.visits \in {"keys", "items"}
    BY <1>4, SetupsAssumption DEF SetupsAssumption, Rpc
  <2> QED BY <2>1 DEF CollectInv, Lookup
<1>12. ASSUME srv.ret = "OK" PROVE Lossless'
  <2>1. Complete(n)'
    BY <1>2, <1>8, <1>12 DEF Complete
  <2>2. srv.last => Covered' = Len(conf.items)
    BY <1>9, <1>10, <1>11, <1>12 DEF ReachInv, Lossless, Sending
  <2>3. Rpc' = Rpc
    BY DEF Rpc
  <2>4. Rpc.visits = "items" => srv'.offset = Covered' + Len(srv'.cur)
    BY <1>4, <1>6, <1>9, <1>10
  <2>5. ~(previous' = 0)
    BY <1>3, <1>4, <1>7
  <2> QED BY <1>3, <1>6, <1>7, <2>1, <2>2, <2>3, <2>4, <2>5 DEF Lossless, Sending, Walking
<1> QED BY <1>3, <1>6, <1>7, <1>12 DEF ReachInv, Sending

LEMMA ReachWait ==
  ASSUME MemInv, CollectInv, SentInv, Given, StopInv, ReachInv, StopsLate(conf), WaitBeforeSend
  PROVE  ReachInv'
<1> USE DEF SrvFields
<1>0. /\ srv.pc = "wait" /\ previous' = 0 /\ UNCHANGED <<conf, back, delivered>>
      /\ DOMAIN srv = SrvFields /\ srv.sent \in Nat /\ conf \in Setups /\ srv.last \in BOOLEAN
      /\ previous \in {0, srv.sent} /\ Rpc' = Rpc
  BY DEF WaitBeforeSend, CollectInv, SentInv, Rpc
<1>1. CASE AnswerOf = "OK" /\ srv' = [srv EXCEPT !.pc = "send"]
  <2>1. /\ srv'.pc = "send" /\ srv'.sent = srv.sent /\ srv'.ret = srv.ret /\ srv'.last = srv.last
        /\ srv'.offset = srv.offset /\ srv'.cur = srv.cur
    BY <1>0, <1>1
  <2>2. /\ Covered' = Covered /\ Latest' = Latest
        /\ srv.sent > 0 => Truthful(Latest)' /\ (srv.ret = "OK" => Complete(Latest)')
    BY <1>0, <2>1, ToldFrame DEF ReachInv, Lossless
  <2>3. srv.ret = "OK" /\ srv.sent > 0 => Latest.run = "answered" /\ Latest.ret = "OK"
    <3>1. CASE previous = 0
      BY <1>0, <3>1 DEF ReachInv, Lossless, Walking
    <3>2. CASE previous # 0
      BY <1>0, <1>1, <3>2 DEF AnswerOf, Answered, WaitBeforeSend, Latest
    <3> QED BY <3>1, <3>2
  <2>4. srv.ret = "OK" => Lossless'
    BY <1>0, <2>1, <2>2, <2>3 DEF ReachInv, Lossless, Sending, Walking
  <2> QED BY <1>0, <2>1, <2>2, <2>4 DEF ReachInv, Sending
<1>2. CASE AnswerOf # "OK" /\ NotSent(AnswerOf)
  <2>1. /\ srv'.sent = srv.sent /\ srv'.pc \in {"flush", "finish"}
        /\ srv'.ret = "OK" => AnswerOf = "Stop" /\ (Rpc.visits = "keys" \/ ~srv.last)
    BY <1>0, <1>2, NotSentFails
  <2>2. CASE srv'.ret # "OK"
    BY <1>0, <2>1, <2>2, ReachOut
  <2>3. CASE srv'.ret = "OK"
    <3>1. Refused /\ conf.says = "Stop" /\ srv'.pc = "finish" /\ srv.sent > 0
      BY <1>2, <2>1, <2>3, WaitLearns
    <3>2. ~srv.last
      BY <2>1, <2>3 DEF CollectInv, Lookup
    <3>3. srv.ret = "OK"
      BY <1>0, <3>2 DEF ReachInv, Sending
    <3>4. /\ Covered' = Covered /\ Latest' = Latest /\ (Refused' <=> Refused)
          /\ srv.sent > 0 => Truthful(Latest)' /\ (srv.ret = "OK" => Complete(Latest)')
      BY <1>0, <2>1, ToldFrame DEF ReachInv, Lossless
    <3>5. Lossless'
      BY <1>0, <2>1, <3>1, <3>3, <3>4 DEF Lossless, Sending, Walking
    <3> QED BY <1>0, <2>1, <3>1, <3>4, <3>5 DEF ReachInv, Sending
  <2> QED BY <2>2, <2>3
<1> QED BY <1>1, <1>2 DEF WaitBeforeSend

LEMMA ReachEnd ==
  ASSUME MemInv, CollectInv, SentInv, Given, ReachInv, Finish \/ Respond
  PROVE  ReachInv'
<1> USE DEF SrvFields
<1>0. /\ UNCHANGED <<conf, back, delivered>> /\ DOMAIN srv = SrvFields /\ srv.sent \in Nat
      /\ conf \in Setups /\ previous \in {0, srv.sent} /\ Len(conf.items) \in Nat
      /\ srv.pc \in {"finish", "respond"}
  BY Sizes DEF Finish, Respond, CollectInv, SentInv
<1>1. srv'.sent = srv.sent /\ srv'.pc \in {"respond", "over"}
  BY <1>0 DEF Finish, Respond
<1>2. /\ (Refused' <=> Refused)
      /\ srv.sent > 0 => Truthful(Latest)' /\ (srv.ret = "OK" => Complete(Latest)')
  BY <1>0, <1>1, ToldFrame DEF ReachInv, Lossless
<1>3. CASE srv'.ret # "OK"
  BY <1>0, <1>1, <1>3, ReachOut
<1>4. CASE srv'.ret = "OK" /\ Respond
  <2>1. srv.ret = "OK" /\ srv.pc = "respond"
    BY <1>0, <1>4 DEF Respond
  <2>2. Lossless'
    BY <1>0, <1>1, <1>2, <2>1 DEF ReachInv, Lossless, Sending, Walking
  <2> QED BY <1>1, <1>2, <2>1, <2>2 DEF ReachInv, Sending
<1>5. CASE srv'.ret = "OK" /\ Finish
  <2>1. srv.ret = "OK" /\ srv.pc = "finish" /\ AnswerOf = "OK" /\ Answered
    BY <1>0, <1>5 DEF Finish, First
  <2>2. Len(delivered) = Len(conf.items) \/ (Refused /\ conf.says = "Stop")
    <3>1. CASE Refused /\ conf.says = "Stop"
      BY <3>1
    <3>2. CASE Covered = Len(conf.items) /\ previous = srv.sent
      <4>1. CASE srv.sent = 0
        <5>1. delivered = <<>> /\ Len(conf.items) = 0
          BY <3>2, <4>1 DEF Given, Covered
        <5> QED BY <5>1
      <4>2. CASE srv.sent # 0
        <5>1. Latest.run = "answered" /\ Latest.ret = "OK" /\ Complete(Latest)
          BY <1>0, <2>1, <3>2, <4>2 DEF Answered, AnswerOf, Latest, ReachInv, Lossless
        <5> QED BY <3>2, <4>2, <5>1 DEF Complete, Covered
      <4> QED BY <4>1, <4>2
    <3> QED BY <2>1, <3>1, <3>2 DEF ReachInv, Lossless
  <2>3. Lossless'
    BY <1>0, <1>1, <1>2, <2>1, <2>2 DEF Lossless, Sending, Walking
  <2> QED BY <1>1, <1>2, <2>1, <2>3 DEF ReachInv, Sending
<1> QED BY <1>3, <1>4, <1>5

LEMMA ReachServer ==
  ASSUME MemInv, CollectInv, SentInv, Given, StopInv, ReachInv, StopsLate(conf),
         Forward \/ GetOutput \/ ServerStep
  PROVE  ReachInv'
<1> USE DEF SrvFields
<1>0. /\ DOMAIN srv = SrvFields /\ srv.sent \in Nat /\ conf \in Setups /\ srv.last \in BOOLEAN
      /\ Len(conf.items) \in Nat
  BY Sizes DEF CollectInv
<1>1. CASE Forward \/ Check
  <2>1. /\ UNCHANGED <<conf, previous, back, delivered>> /\ srv.pc \in {"none", "checks"}
    BY <1>1 DEF Forward, Check, MemInv, Waits
  <2>2. /\ srv.sent = 0 /\ srv.offset = 0 /\ srv.cur = <<>> /\ Len(srv.cur) = 0 /\ srv.last = FALSE
        /\ previous = 0 /\ srv.ret = "OK"
    BY <2>1 DEF CollectInv, SentInv, ReachInv
  <2>3. CASE srv' = srv
    BY <1>1, <2>1, <2>2, <2>3 DEF ReachInv, Lossless, Sending, Walking, Ending
  <2>4. CASE srv' = [srv EXCEPT !.pc = "checks"] \/ srv' = [srv EXCEPT !.check = @ + 1]
             \/ srv' = [srv EXCEPT !.pc = "loop"]
    <3>1. /\ srv'.sent = 0 /\ srv'.offset = 0 /\ srv'.cur = <<>> /\ srv'.last = FALSE /\ srv'.ret = "OK"
          /\ srv'.pc \in {"none", "checks", "loop"} /\ previous' = 0
      BY <1>0, <2>1, <2>2, <2>4
    <3>2. Covered' = 0 /\ Len(srv'.cur) = 0
      BY <2>2, <3>1 DEF Covered
    <3> QED BY <3>1, <3>2 DEF ReachInv, Lossless, Sending, Walking
  <2>5. ASSUME NEW r, r # "OK", srv' = [srv EXCEPT !.pc = "respond", !.ret = r] PROVE ReachInv'
    <3>1. srv'.sent = srv.sent /\ srv'.pc = "respond" /\ srv'.ret # "OK"
      BY <1>0, <2>5
    <3> QED BY <2>1, <3>1, ReachOut
  <2> QED BY <1>1, <2>3, <2>4, <2>5 DEF Forward, Check
<1>2. CASE GetOutput
  <2>1. UNCHANGED <<conf, srv, previous, back, delivered>>
    BY <1>2 DEF GetOutput
  <2>2. srv.ret = "OK" => (Lossless => Lossless')
    <3>1. /\ Covered' = Covered /\ Latest' = Latest /\ (Refused' <=> Refused) /\ Rpc' = Rpc
          /\ srv.sent > 0 => (Complete(Latest) => Complete(Latest)')
      BY <2>1, ToldFrame DEF Rpc
    <3> QED BY <2>1, <3>1 DEF Lossless
  <2>3. srv.sent > 0 => (Truthful(Latest) => Truthful(Latest)')
    BY <2>1, ToldFrame
  <2> QED BY <2>1, <2>2, <2>3 DEF ReachInv
<1>3. CASE ExposeBatch
  <2>1. UNCHANGED <<conf, previous, back, delivered>> /\ srv.pc = "expose"
    BY <1>3 DEF ExposeBatch
  <2>2. CASE srv' = [srv EXCEPT !.pc = "wait"]
    <3>1. /\ srv'.pc = "wait" /\ srv'.sent = srv.sent /\ srv'.ret = srv.ret /\ srv'.last = srv.last
          /\ srv'.offset = srv.offset /\ srv'.cur = srv.cur
      BY <1>0, <2>2
    <3>2. /\ Covered' = Covered /\ Latest' = Latest /\ Rpc' = Rpc
          /\ srv.sent > 0 => Truthful(Latest)' /\ (srv.ret = "OK" => Complete(Latest)')
      BY <2>1, <3>1, ToldFrame DEF ReachInv, Lossless, Rpc
    <3>3. srv.ret = "OK" => Lossless'
      BY <2>1, <3>1, <3>2 DEF ReachInv, Lossless, Sending, Walking
    <3> QED BY <2>1, <3>1, <3>2, <3>3 DEF ReachInv, Sending
  <2>3. CASE NotSent("FromMercury")
    BY <1>0, <2>1, <2>3, NotSentFails, ReachOut
  <2> QED BY <1>3, <2>2, <2>3 DEF ExposeBatch
<1>4. CASE SendBatch
  <2>1. srv.pc = "send" /\ UNCHANGED <<conf, delivered>>
    BY <1>4 DEF SendBatch
  <2>2. CASE NotSent("FromMercury") /\ back' = back
    BY <1>0, <2>1, <2>2, NotSentFails, ReachOut
  <2>3. CASE /\ srv' = Advanced /\ previous' = srv.sent + 1
             /\ back' = [back EXCEPT ![srv.sent + 1] =
                   [NoBack EXCEPT !.run = "input", !.start = srv.count, !.got = srv.cur]]
    BY <2>1, <2>3, ReachSend
  <2> QED BY <1>4, <2>2, <2>3 DEF SendBatch
<1> QED BY <1>1, <1>2, <1>3, <1>4, ReachLookup, ReachWait, ReachEnd DEF ServerStep

LEMMA AnswerAllowed == ASSUME MemInv, SentInv, ReachInv PROVE Allowed(AnswerOf)
<1>1. CASE previous = 0
  BY <1>1 DEF AnswerOf, Allowed
<1>2. CASE previous # 0
  <2>1. previous = srv.sent /\ srv.sent > 0 /\ AnswerOf = Latest.ret
    BY <1>2 DEF SentInv, AnswerOf, Latest
  <2>2. Truthful(Latest)
    BY <2>1 DEF ReachInv
  <2> QED BY <2>1, <2>2 DEF Truthful, Allowed
<1> QED BY <1>1, <1>2

\* What is told changes only when somebody answers.
LEMMA ToldStep ==
  ASSUME ToldInv, UNCHANGED <<conf, back, delivered>>, srv'.sent = srv.sent,
         Allowed(srv'.ret), Allowed(cl'.ret),
         cl'.run \in {"answered", "done"} /\ cl'.ret = "OK" =>
           IF srv'.pc = "none" THEN conf.bad = "nothing" ELSE srv'.ret = "OK"
  PROVE  ToldInv'
<1>1. Refused' <=> Refused
  BY ToldFrame
<1> QED BY <1>1 DEF ToldInv, Allowed

LEMMA ToldServer ==
  ASSUME MemInv, CollectInv, SentInv, ReachInv, ToldInv, FlawFound(conf),
         Forward \/ GetOutput \/ ServerStep
  PROVE  ToldInv'
<1> USE DEF SrvFields
<1>0. /\ DOMAIN srv = SrvFields /\ DOMAIN cl = {"run", "ret"} /\ Waits
      /\ Allowed(srv.ret) /\ Allowed(cl.ret)
  BY DEF MemInv, Waits, ToldInv
<1>1. CASE Forward
  <2>0. UNCHANGED <<conf, back, delivered>> /\ cl.run = "start" /\ srv.pc = "none"
    BY <1>1 DEF Forward, MemInv, Waits
  <2>1. ASSUME NEW r, cl' = [run |-> "done", ret |-> r], srv' = srv, Allowed(r),
               r = "OK" => conf.bad = "nothing"
        PROVE  ToldInv'
    BY <1>0, <2>0, <2>1, ToldStep
  <2>2. CASE conf.bad \in Fn.refuses
    <3>1. cl' = [run |-> "done", ret |-> EarlyReturn(conf.bad)] /\ srv' = srv
      BY <1>1, <2>2 DEF Forward
    <3>2. conf.bad # "none"
      BY <2>2 DEF FlawFound, Flawed, Fn
    <3>3. Allowed(EarlyReturn(conf.bad)) /\ (EarlyReturn(conf.bad) = "OK" => conf.bad = "nothing")
      BY <3>2 DEF Allowed, EarlyReturn
    <3> QED BY <2>1, <3>1, <3>3
  <2>3. CASE cl' = [cl EXCEPT !.run = "waiting"] /\ srv' = [srv EXCEPT !.pc = "checks"]
    <3>1. cl'.run = "waiting" /\ cl'.ret = cl.ret /\ srv'.ret = srv.ret /\ srv'.sent = srv.sent
      BY <1>0, <2>3
    <3> QED BY <1>0, <2>0, <3>1, ToldStep
  <2>4. CASE /\ MayFail("forward") \/ (Fn.exposes /\ MayFail("expose"))
             /\ cl' = [run |-> "done", ret |-> "FromMercury"] /\ srv' = srv
    <3>1. Allowed("FromMercury")
      BY <2>4 DEF Allowed, MayFail
    <3> QED BY <2>1, <2>4, <3>1
  <2> QED BY <1>1, <2>2, <2>3, <2>4 DEF Forward
<1>2. CASE GetOutput
  <2>1. UNCHANGED <<conf, srv, back, delivered>> /\ cl.run = "answered"
    BY <1>2 DEF GetOutput
  <2>2. \/ cl'.ret = cl.ret \/ (cl'.ret = "FromMercury" /\ conf.faults # {})
    BY <1>0, <1>2 DEF GetOutput, MayFail
  <2>3. Allowed(cl'.ret)
    BY <1>0, <2>2 DEF Allowed
  <2>4. cl'.ret = "OK" => IF srv.pc = "none" THEN conf.bad = "nothing" ELSE srv.ret = "OK"
    BY <2>1, <2>2 DEF ToldInv
  <2> QED BY <1>0, <2>1, <2>3, <2>4, ToldStep
<1>3. ASSUME UNCHANGED <<conf, cl, back, delivered>>, srv'.sent = srv.sent, srv.pc \notin {"none", "over"},
             Allowed(srv'.ret)
      PROVE  ToldInv'
  <2>1. cl.run = "waiting"
    BY <1>0, <1>3 DEF Waits
  <2> QED BY <1>0, <1>3, <2>1, ToldStep
<1>4. CASE Check
  <2>1. UNCHANGED <<conf, cl, back, delivered>> /\ srv.pc = "checks"
    BY <1>4 DEF Check
  <2>2. PICK check : check = Rpc.checks[srv.check]
    OBVIOUS
  <2>3. CASE Refusal(check) # "OK" /\ srv' = [srv EXCEPT !.pc = "respond", !.ret = Refusal(check)]
    <3>1. conf.bad # "none"
      BY <2>3, FlawRefused DEF Flawed
    <3>2. Allowed(srv'.ret) /\ srv'.sent = srv.sent
      BY <1>0, <2>3, <3>1 DEF Allowed
    <3> QED BY <1>3, <2>1, <3>2
  <2>4. CASE /\ MayFail(check)
             /\ srv' = [srv EXCEPT !.pc = "respond", !.ret = IF check = "buffer" THEN "Allocation"
                                                             ELSE "FromMercury"]
    <3>1. Allowed(srv'.ret) /\ srv'.sent = srv.sent
      BY <1>0, <2>4 DEF Allowed, MayFail
    <3> QED BY <1>3, <2>1, <3>1
  <2>5. CASE srv' = [srv EXCEPT !.pc = "loop"] \/ srv' = [srv EXCEPT !.check = @ + 1]
    <3>1. srv'.ret = srv.ret /\ srv'.sent = srv.sent
      BY <1>0, <2>5
    <3> QED BY <1>0, <1>3, <2>1, <3>1
  <2> QED BY <1>4, <2>2, <2>3, <2>4, <2>5 DEF Check
<1>5. CASE FetchBatch \/ IterItem \/ Flush
  <2>1. UNCHANGED <<conf, cl, back, delivered>> /\ srv.pc \in {"loop", "flush"} /\ srv'.sent = srv.sent
    BY <1>0, <1>5 DEF FetchBatch, IterItem, Flush
  <2>2. srv'.ret = srv.ret \/ (srv'.ret = "DatabaseError" /\ conf.faults # {})
    BY <1>0, <1>5 DEF FetchBatch, IterItem, Flush, MayFail
  <2>3. Allowed(srv'.ret)
    BY <1>0, <2>2 DEF Allowed
  <2> QED BY <1>3, <2>1, <2>3
<1>n. ASSUME NEW ret, ret # "OK", NotSent(ret), Allowed(ret)
      PROVE  Allowed(srv'.ret) /\ srv'.sent = srv.sent
  <2>1. srv'.ret \in {"OK", ret, srv.ret} /\ srv'.sent = srv.sent
    BY <1>0, <1>n, NotSentFails
  <2>2. Allowed("OK")
    BY DEF Allowed
  <2> QED BY <1>0, <1>n, <2>1, <2>2
<1>6. CASE ExposeBatch
  <2>1. UNCHANGED <<conf, cl, back, delivered>> /\ srv.pc = "expose"
    BY <1>6 DEF ExposeBatch
  <2>2. CASE srv' = [srv EXCEPT !.pc = "wait"]
    BY <1>0, <1>3, <2>1, <2>2
  <2>3. CASE MayFail("expose_batch") /\ NotSent("FromMercury")
    <3>1. Allowed("FromMercury")
      BY <2>3 DEF Allowed, MayFail
    <3> QED BY <1>3, <1>n, <2>1, <2>3, <3>1
  <2> QED BY <1>6, <2>2, <2>3 DEF ExposeBatch
<1>7. CASE WaitBeforeSend
  <2>1. UNCHANGED <<conf, cl, back, delivered>> /\ srv.pc = "wait"
    BY <1>7 DEF WaitBeforeSend
  <2>2. CASE srv' = [srv EXCEPT !.pc = "send"]
    BY <1>0, <1>3, <2>1, <2>2
  <2>3. CASE AnswerOf # "OK" /\ NotSent(AnswerOf)
    BY <1>3, <1>n, <2>1, <2>3, AnswerAllowed
  <2> QED BY <1>7, <2>2, <2>3 DEF WaitBeforeSend
<1>8. CASE SendBatch
  <2>1. UNCHANGED <<conf, cl, delivered>> /\ srv.pc = "send"
    BY <1>8 DEF SendBatch
  <2>2. CASE MayFail("send") /\ NotSent("FromMercury") /\ back' = back
    <3>1. Allowed("FromMercury")
      BY <2>2 DEF Allowed, MayFail
    <3> QED BY <1>3, <1>n, <2>1, <2>2, <3>1
  <2>3. CASE srv' = Advanced
    <3>1. srv'.ret = srv.ret
      BY <1>0, <2>3 DEF Advanced
    <3>2. cl.run = "waiting" /\ (Refused' <=> Refused)
      BY <1>0, <2>1 DEF Waits, Refused, Stopped, Heeded, Back
    <3> QED BY <2>1, <3>1, <3>2 DEF ToldInv, Allowed
  <2> QED BY <1>8, <2>2, <2>3 DEF SendBatch
<1>9. CASE Finish
  <2>1. UNCHANGED <<conf, cl, back, delivered>> /\ srv.pc = "finish"
    BY <1>9 DEF Finish
  <2>2. srv'.sent = srv.sent /\ srv'.ret \in {srv.ret, AnswerOf}
    BY <1>0, <1>9 DEF Finish, First
  <2> QED BY <1>0, <1>3, <2>1, <2>2, AnswerAllowed
<1>10. CASE Respond
  <2>1. /\ UNCHANGED <<conf, back, delivered>> /\ srv'.ret = srv.ret /\ srv'.sent = srv.sent
        /\ srv'.pc = "over" /\ cl'.ret = srv.ret
    BY <1>0, <1>10 DEF Respond
  <2> QED BY <1>0, <2>1, ToldStep
<1> QED BY <1>1, <1>2, <1>4, <1>5, <1>6, <1>7, <1>8, <1>9, <1>10 DEF ServerStep

\* Everything that is known about what the caller is told.
TellInv == Given /\ StopInv /\ ReachInv /\ ToldInv /\ FlawInv

\* What a setup must be like for it.
Hearable(c) == CountsItems(c) /\ StopsLate(c) /\ StopsSay(c) /\ FlawFound(c)

LEMMA TellNext ==
  (\A c \in Setups : Hearable(c)) /\ MemInv /\ CollectInv /\ SentInv /\ TellInv /\ [Next]_vars
    => TellInv'
<1> SUFFICES ASSUME \A c \in Setups : Hearable(c), MemInv, CollectInv, SentInv, TellInv, [Next]_vars
             PROVE  TellInv'
  OBVIOUS
<1>0. StopsLate(conf) /\ StopsSay(conf) /\ FlawFound(conf) /\ srv.sent \in Nat
  BY DEF MemInv, Hearable
<1>f. FlawInv'
  BY FlawNext DEF Hearable, TellInv
<1>1. CASE Forward \/ GetOutput \/ ServerStep
  <2>1. StopInv' /\ ReachInv' /\ ToldInv'
    BY <1>0, <1>1, StopServer, ReachServer, ToldServer DEF TellInv
  <2>2. Given'
    <3>1. delivered' = delivered
      BY <1>1 DEF ServerStep, Forward, GetOutput, Check, FetchBatch, IterItem, Flush, ExposeBatch,
                  WaitBeforeSend, SendBatch, Finish, Respond
    <3>2. srv'.sent = srv.sent \/ srv'.sent = srv.sent + 1
      <4>1. DOMAIN srv = SrvFields
        BY DEF MemInv
      <4> QED BY <1>1, <4>1, NotSentFails
              DEF ServerStep, Forward, GetOutput, Check, FetchBatch, IterItem, Flush, ExposeBatch,
                  WaitBeforeSend, SendBatch, Finish, Respond, Advanced, SrvFields
    <3> QED BY <1>0, <3>1, <3>2 DEF Given, TellInv
  <2> QED BY <1>f, <2>1, <2>2 DEF TellInv
<1>2. ASSUME NEW b \in DOMAIN back, BackStep(b) PROVE TellInv'
  <2>1. Given'
    BY <1>2, Effect DEF TellInv
  <2>2. StopInv'
    BY <1>0, <1>2, StopBack DEF TellInv
  <2>3. ReachInv' /\ ToldInv'
    BY <1>2, ReachBack DEF TellInv
  <2> QED BY <1>f, <2>1, <2>2, <2>3 DEF TellInv
<1>3. CASE UNCHANGED vars
  <2>1. UNCHANGED <<conf, cl, srv, previous, back, delivered>>
    BY <1>3 DEF vars
  <2>2. Given' /\ StopInv'
    <3>1. StopInv'
      BY <2>1, StopFrame DEF TellInv, StopInv
    <3> QED BY <2>1, <3>1, ToldFrame DEF TellInv
  <2>3. ReachInv'
    <3>1. /\ Covered' = Covered /\ Latest' = Latest /\ (Refused' <=> Refused) /\ Rpc' = Rpc
          /\ srv.sent > 0 => /\ Truthful(Latest) => Truthful(Latest)'
                             /\ Complete(Latest) => Complete(Latest)'
      BY <2>1, ToldFrame DEF Rpc
    <3>2. Lossless => Lossless'
      BY <2>1, <3>1 DEF Lossless
    <3> QED BY <2>1, <3>1, <3>2 DEF TellInv, ReachInv
  <2>4. ToldInv'
    BY <2>1, ToldStep DEF TellInv, ToldInv
  <2> QED BY <1>f, <2>2, <2>3, <2>4 DEF TellInv
<1> QED BY <1>1, <1>2, <1>3 DEF Next

LEMMA ToldSafe == MemInv /\ CollectInv /\ TellInv => OutcomeTold
<1> SUFFICES ASSUME MemInv, CollectInv, TellInv PROVE OutcomeTold
  OBVIOUS
<1>1. ASSUME Stopped, ~conf.pool, ~Back.whole PROVE Last(delivered).index + 1 \in conf.stops
  BY <1>1 DEF TellInv, StopInv, Refused, Heeded
<1>2. SUFFICES ASSUME cl.run = "done"
               PROVE  /\ cl.ret = "OK" /\ conf.bad # "nothing" =>
                           \/ Len(delivered) = Len(conf.items)
                           \/ Stopped /\ Heeded /\ conf.says = "Stop"
                      /\ Stopped /\ Heeded /\ conf.says = "Error" => cl.ret # "OK"
                      /\ conf.faults = {} /\ conf.bad = "none" =>
                           cl.ret \in {"OK"} \cup IF Stopped /\ Heeded THEN {conf.says} ELSE {}
                      /\ conf.bad \notin {"none", "nothing"} => cl.ret # "OK" /\ delivered = <<>>
  BY <1>1 DEF OutcomeTold
<1>3. srv.pc \in {"none", "over"} /\ previous = 0
  <2>1. srv.pc \in {"none", "over"}
    BY <1>2 DEF MemInv, Waits
  <2> QED BY <2>1 DEF MemInv
<1>4. cl.ret = "OK" => IF srv.pc = "none" THEN conf.bad = "nothing" ELSE srv.ret = "OK"
  BY <1>2 DEF TellInv, ToldInv
<1>5. srv.pc = "none" => ~Stopped
  BY DEF CollectInv, TellInv, Given, Stopped
<1>6. cl.ret = "OK" /\ conf.bad # "nothing" =>
        Len(delivered) = Len(conf.items) \/ (Stopped /\ Heeded /\ conf.says = "Stop")
  BY <1>3, <1>4 DEF TellInv, ReachInv, Lossless, Refused
<1>7. Stopped /\ Heeded /\ conf.says = "Error" => cl.ret # "OK"
  BY <1>3, <1>4, <1>5 DEF TellInv, StopInv, Refused, Ending
<1>8. conf.faults = {} /\ conf.bad = "none" =>
        cl.ret \in {"OK"} \cup IF Stopped /\ Heeded THEN {conf.says} ELSE {}
  BY DEF TellInv, ToldInv, Allowed, Refused
<1>9. conf.bad \notin {"none", "nothing"} => cl.ret # "OK" /\ delivered = <<>>
  <2> SUFFICES ASSUME conf.bad \notin {"none", "nothing"} PROVE cl.ret # "OK" /\ delivered = <<>>
    OBVIOUS
  <2>1. cl.ret # "OK"
    BY <1>2 DEF TellInv, FlawInv, Flawed
  <2>2. delivered = <<>>
    BY DEF TellInv, FlawInv, Flawed, Given
  <2> QED BY <2>1, <2>2
<1> QED BY <1>6, <1>7, <1>8, <1>9

\* What the call returns is true, for any number of items, size of the batches and
\* set of failures, with a pool or without: success means that every item was
\* delivered or that the callback asked to stop, the error of a callback reaches
\* the caller, and without a failure or an invalid request there is no other.  The
\* call must count items and have no full batch after the one in which the callback
\* stops (CountsItems, StopsLate); the keys it gives need not be right.
THEOREM OutcomeToldHolds ==
  ASSUME \A c \in Setups : Hearable(c) PROVE Spec => []OutcomeTold
<1> DEFINE Inv == MemInv /\ CollectInv /\ SentInv /\ TellInv
<1>1. Init => Inv
  <2>1. \A c \in Setups : FlawFound(c)
    BY DEF Hearable
  <2> QED BY <2>1, MemInit, CollectInit, SentInit, ToldInit DEF TellInv
<1>2. Inv /\ [Next]_vars => Inv'
  <2> SUFFICES ASSUME Inv, [Next]_vars PROVE Inv'
    OBVIOUS
  <2>1. CountsItems(conf)
    BY DEF MemInv, Hearable
  <2> QED BY <2>1, MemNext, CollectNext, SentNext, TellNext
<1>3. Inv => OutcomeTold
  BY ToldSafe
<1> QED BY <1>1, <1>2, <1>3, PTL DEF Spec

=============================================================================
