------------------------------ MODULE KVStore -------------------------------
(***************************************************************************)
(* What a key/value backend promises (include/yokan/backend.hpp and the     *)
(* modes of include/yokan/common.h): a batch of pairs is stored at once,    *)
(* every key judged by the mode on its own; keys are removed together or one *)
(* by one, all of them when the database is destroyed or handed over.       *)
(***************************************************************************)
EXTENDS Naturals, Sequences

CONSTANTS
  Keys, Absent,
  Batches,    \* requests with keys, vals and mode
  Contents    \* what a database may hold when it is opened

VARIABLE store

Accepts(mode, old) ==
  CASE mode = "new_only"                       -> old = Absent
    [] mode \in {"exist_only", "exist_append"} -> old # Absent
    [] OTHER                                   -> TRUE

Written(mode, old, v) ==
  IF mode \in {"append", "exist_append"} /\ old # Absent THEN Append(old, v) ELSE <<v>>

Put(b, s, n) ==
  IF Accepts(b.mode, s[b.keys[n]])
    THEN [s EXCEPT ![b.keys[n]] = Written(b.mode, @, b.vals[n])] ELSE s

Init == store \in Contents

\* What s has become with the first n pairs of a batch.
Stages(b, s) ==
  LET stage[n \in 0 .. Len(b.keys)] == IF n = 0 THEN s ELSE Put(b, stage[n - 1], n)
  IN  stage

PutAll(b)   == store' = Stages(b, store)[Len(b.keys)]
EraseAll(K) == store' = [k \in Keys |-> IF k \in K THEN Absent ELSE store[k]]

Next == (\E b \in Batches : PutAll(b)) \/ (\E K \in SUBSET Keys : EraseAll(K))

Spec == Init /\ [][Next]_store
=============================================================================
