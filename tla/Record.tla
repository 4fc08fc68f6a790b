------------------------------- MODULE Record -------------------------------
(***************************************************************************)
(* What a store promises of the record of a life (trait Store, store.rs):  *)
(* a log that only grows while the machine has power, and whose durable    *)
(* first part no loss of power takes.                                      *)
(***************************************************************************)
EXTENDS Naturals, Sequences, SequencesExt

VARIABLES kept,    \* the entries of the record, in the order the store kept them
          durable  \* those of them that a loss of power cannot take

Init == kept = <<>> /\ durable = <<>>

\* Entries are kept after each entry kept before them, and a sync makes more of the record durable.
Grow ==
  /\ IsPrefix(kept, kept')
  /\ IsPrefix(durable, durable') /\ IsPrefix(durable', kept')

\* A loss of power takes a last part of what no sync made durable; what it leaves is on the disk.
\* It can leave the line whose write it cut, when all of the line but its end was written.
Lose ==
  /\ IsPrefix(durable, kept')
  /\ IsPrefix(kept', kept) \/ \E e \in Range(kept') : kept' = Append(kept, e)
  /\ durable' = kept'

Next == Grow \/ Lose

Spec == Init /\ [][Next]_<<kept, durable>>
=============================================================================
