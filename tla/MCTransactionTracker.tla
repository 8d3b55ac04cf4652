------------------------ MODULE MCTransactionTracker ------------------------
(* Bounds for TLC: every well-formed snapshot over a few transactions. *)
EXTENDS TransactionTracker, TLC

CONSTANT MaxTxid    \* bound: transaction ids

MCTxids == 1..MaxTxid

MCSnapshots ==
  {s \in [xmin : 1..(MaxTxid + 1), xmax : 1..(MaxTxid + 1), xip : SUBSET MCTxids] :
     WellFormed(s)}

Symmetry == Permutations(Waiters)

=============================================================================
