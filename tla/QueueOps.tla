------------------------------ MODULE QueueOps ------------------------------
(***************************************************************************)
(* Operations on queues that the models share.                             *)
(***************************************************************************)
EXTENDS Integers, Sequences, SequencesExt

\* The first n elements, and the rest.
FirstOf(seq, n) == SubSeq(seq, 1, IF Len(seq) < n THEN Len(seq) ELSE n)
RestOf(seq, n) == SubSeq(seq, n + 1, Len(seq))

\* The queue after its element x left it (deque.remove).
Without(seq, x) ==
    IF Contains(seq, x)
    THEN RemoveAt(seq, CHOOSE i \in DOMAIN seq : seq[i] = x)
    ELSE seq

\* The elements of a queue, and that none occurs twice.
Elems(seq) == {seq[i] : i \in 1..Len(seq)}
Distinct(seq) == \A i, j \in 1..Len(seq) : seq[i] = seq[j] => i = j
=============================================================================
