------------------------------- MODULE Gathering -------------------------------
(***************************************************************************)
(* What the messages of a sequence carry, put together in their order.     *)
(***************************************************************************)
EXTENDS Naturals, Sequences

Seqs == INSTANCE SequencesExt

Gathered(ms, Of(_)) == Seqs!FlattenSeq([i \in 1..Len(ms) |-> Of(ms[i])])
=============================================================================
