------------------------------ MODULE Listing -------------------------------
(***************************************************************************)
(* How listKeys and listKeyValues of the backends fill the arrays of their  *)
(* caller with n slots.  Unpacked, every slot has room of its own; packed,  *)
(* the slots share one buffer and are filled one behind the other until one *)
(* does not fit.                                                            *)
(***************************************************************************)
EXTENDS Naturals, Sequences, FiniteSets, FiniteSetsExt, SequencesExt, Functions

CONSTANTS
  TooSmall,   \* YOKAN_SIZE_TOO_SMALL
  NoMore      \* YOKAN_NO_MORE_KEYS

Total(sizes) == FoldFunction(+, 0, sizes)

\* How many leading items of the given sizes fit in the room.
Fitting(sizes, room) ==
  Max({0} \cup {n \in 1 .. Len(sizes) : Total(SubSeq(sizes, 1, n)) <= room})

CopySlots(items, sizes, room) ==
  [n \in 1 .. Len(room) |-> IF n > Len(items) THEN NoMore
                            ELSE IF sizes[n] <= room[n] THEN items[n] ELSE TooSmall]

\* Once an item does not fit none is copied any more.  The loop either goes on
\* through the items that are left, or, if it gives up, marks all slots.
CopyPacked(items, sizes, n, room, givesUp) ==
  LET fit == Fitting(sizes, room)
  IN  [m \in 1 .. n |-> IF m <= fit THEN items[m]
                        ELSE IF m <= Len(items) \/ (givesUp /\ fit < Len(items)) THEN TooSmall
                        ELSE NoMore]
=============================================================================
