----------------------------- MODULE DocStore ------------------------------
(***************************************************************************)
(* What a collection promises to its clients (include/yokan/collection.h    *)
(* and the doc* functions of include/yokan/backend.hpp): documents get      *)
(* consecutive ids, one operation changes one document at a time, ids are   *)
(* never given to another document, and a document changes in one step      *)
(* unless the process dies in the middle of overwriting it.                 *)
(***************************************************************************)
EXTENDS Naturals, Sequences

CONSTANTS Documents,   \* what clients may store, sequences of words
          Erased,     \* the document of an id that was erased or skipped
          Damaged     \* the document of an id that is being overwritten

VARIABLE store        \* store[id + 1] is the document with this id

Init == store = << >>

Store(d)       == store' = Append(store, d)
Reserve        == store' = Append(store, Erased)
Damage(n)      == store' = [store EXCEPT ![n] = Damaged]
Replace(n, d)  == store' = [store EXCEPT ![n] = d]
Remove(n)      == store[n] # Erased /\ store' = [store EXCEPT ![n] = Erased]

Next == \/ Reserve
        \/ \E d \in Documents : Store(d)
        \/ \E n \in 1 .. Len(store) :
             \/ Damage(n) \/ Remove(n)
             \/ \E d \in Documents : Replace(n, d)

Spec == Init /\ [][Next]_store
=============================================================================
