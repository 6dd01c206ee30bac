----------------------------- MODULE KeyWatcher ------------------------------
(***************************************************************************)
(* KeyWatcher (include/yokan/watcher.hpp): threads that wait for a key add  *)
(* an entry for it, leave the lock of the database, and sleep until a       *)
(* writer notifies the key or the watcher is destroyed.                     *)
(*                                                                          *)
(* The operations are actions on the entries and on the mutex, to be        *)
(* combined with the steps of a database.                                   *)
(***************************************************************************)
EXTENDS Naturals, Sequences, SequencesExt

CONSTANT Free      \* nobody holds m_mutex

VARIABLES
  expected,        \* m_expected_keys, equal keys in the order they were added
  mutex            \* m_mutex, which only a spinning waitKey holds for long

watcher == <<expected, mutex>>

WatcherInit == expected = << >> /\ mutex = Free

Positions(k)   == {n \in 1 .. Len(expected) : expected[n].key = k}
EntryOf(t)     == CHOOSE n \in 1 .. Len(expected) : expected[n].thread = t
Signalled(t)   == expected[EntryOf(t)].status # "Pending"

\* waitKey looks for the entry of its caller among those of the key, but never
\* moves on from the first one.
FirstIsOwn(t) == \A n \in Positions(expected[EntryOf(t)].key) : EntryOf(t) <= n

addKey(t, k) ==
  /\ mutex = Free
  /\ expected' = Append(expected, [thread |-> t, key |-> k, status |-> "Pending"])
  /\ UNCHANGED mutex

\* Before it sleeps, which releases the mutex, waitKey looks for the entry of
\* its caller: when somebody else's is first it keeps the mutex forever.
Search(t) ==
  /\ mutex = Free
  /\ mutex' = IF FirstIsOwn(t) THEN Free ELSE t
  /\ UNCHANGED expected

\* Mutant of Wake: the entry is left behind.
WakeKeepsEntry(t) == mutex = Free /\ Signalled(t) /\ UNCHANGED watcher

\* Once it is signalled it removes its entry and returns the status.
Wake(t) ==
  /\ mutex = Free /\ Signalled(t)
  /\ expected' = RemoveAt(expected, EntryOf(t))
  /\ UNCHANGED mutex

Signal(P, s) ==
  expected' = [n \in 1 .. Len(expected) |->
                 IF n \in P THEN [expected[n] EXCEPT !.status = s] ELSE expected[n]]

notifyKey(k) == mutex = Free /\ Signal(Positions(k), "KeyPresent") /\ UNCHANGED mutex

\* Mutants of WakeAll and AllAwake: nobody is woken, nobody is waited for.
WakeNobody == mutex = Free /\ UNCHANGED watcher
SomeAwake  == mutex = Free

\* The destructor wakes everybody and then waits for them to leave.
WakeAll  == mutex = Free /\ Signal(1 .. Len(expected), "Timeout") /\ UNCHANGED mutex
AllAwake == mutex = Free /\ expected = << >>
=============================================================================
