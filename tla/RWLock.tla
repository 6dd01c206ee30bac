------------------------------- MODULE RWLock -------------------------------
(***************************************************************************)
(* The readers-writer lock of Argobots (ABT_rwlock), as the scoped locks of *)
(* include/yokan/util/locks.hpp use it: a flag for the writer and an        *)
(* unsigned count of readers.  Releasing takes no owner: it clears the flag *)
(* if it is set and decrements the count otherwise.                         *)
(***************************************************************************)
EXTENDS Naturals

CONSTANT UnsignedMax   \* the largest value of the count, 2^64 - 1

ASSUME UnsignedMaxAssumption == UnsignedMax \in Nat \ {0}

VARIABLES readers, writing

lock == <<readers, writing>>

LockInit == readers = 0 /\ writing = FALSE

CanWrite == ~writing /\ readers = 0

Rdlock == /\ ~writing
          /\ readers' = (readers + 1) % (UnsignedMax + 1)
          /\ UNCHANGED writing

Wrlock == CanWrite /\ writing' = TRUE /\ UNCHANGED readers

Unlock == IF writing THEN writing' = FALSE /\ UNCHANGED readers
          ELSE /\ readers' = IF readers = 0 THEN UnsignedMax ELSE readers - 1
               /\ UNCHANGED writing
=============================================================================
