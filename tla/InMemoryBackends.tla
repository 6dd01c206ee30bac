-------------------------- MODULE InMemoryBackends ---------------------------
(***************************************************************************)
(* The key/value backends that keep their data in memory, side by side: a   *)
(* setup names one of them.  The properties are those of MapDatabase.       *)
(***************************************************************************)
EXTENDS UnorderedSet

Received(t) == IF conf.backend = "unordered_set"
                 THEN Rejected(t) \/ (Start(t) /\ unordered_set_supportsMode(req'[t]))
                 ELSE Start(t)

RunAny(t) == \/ conf.backend = "map" /\ Run(t)
             \/ conf.backend = "unordered_map" /\ unordered_map_Run(t)
             \/ conf.backend = "set" /\ set_Run(t)
             \/ conf.backend = "unordered_set" /\ unordered_set_Run(t)

NextAny == Finalize \/ \E t \in Threads : Received(t) \/ RunAny(t)

\* As for MapDatabase.
FairnessAny == WF_vars(Delete) /\ WF_vars(DeleteEnd) /\ \A t \in Threads : WF_vars(RunAny(t))

SpecAny == Init /\ [][NextAny]_vars /\ FairnessAny
=============================================================================
