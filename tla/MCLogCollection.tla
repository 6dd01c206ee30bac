-------------------------- MODULE MCLogCollection --------------------------
(* Instances of LogCollection for TLC. *)
EXTENDS LogCollection

CONSTANTS a, b

D(n, v) == [size |-> n, val |-> v]
Update(is, ds, new) == [ids |-> is, docs |-> ds, update_new |-> new]

\* Documents that make a chunk of 4 words rotate after one or two of them,
\* an append that fails in the middle of its batch, updates in place, to the
\* tail, mixed, out of order, and beyond the end.
SmallBatches == { << D(1, a) >>, << D(2, b) >>, << D(2, a), D(1, b) >>, << D(1, b), D(4, a) >> }
SmallUpdates == { Update(<<0>>, << D(1, b) >>, FALSE),
                  Update(<<1, 0>>, << D(2, a), D(1, a) >>, FALSE),
                  Update(<<2>>, << D(1, b) >>, TRUE) }

\* Documents that no chunk can hold, empty documents, and enough ids to
\* outgrow a metadata file that was reopened.
LimitBatches == { << D(1, a) >>, << D(0, a), D(3, b) >>, << D(4, a) >> }
LimitUpdates == { Update(<<3>>, << D(1, b) >>, TRUE),
                  Update(<<1, 0>>, << D(3, a), D(0, a) >>, FALSE) }

\* A document larger than a chunk minus its header.
FullUpdates == { Update(<<0>>, << D(4, b) >>, FALSE) }

OneBatch == { << D(1, a) >> }
OneUpdate == { Update(<<0>>, << D(1, b) >>, FALSE) }
=============================================================================
