-------------------------------- MODULE Mvcc --------------------------------
(***************************************************************************)
(* PostgreSQL snapshots as evidence of which transactions a client has     *)
(* applied: parsing, visibility, and the merge of two proofs into one.     *)
(***************************************************************************)
EXTENDS Integers

Snapshot == [xmin : Nat, xmax : Nat, xip : SUBSET Nat]

\* What parseMvccSnapshot() accepts: exclusions lie in [xmin, xmax).
WellFormed(s) ==
  /\ s \in Snapshot
  /\ s.xmin <= s.xmax
  /\ \A t \in s.xip : s.xmin <= t /\ t < s.xmax

IsVisible(s, t) == t < s.xmin \/ (t < s.xmax /\ t \notin s.xip)

\* Faulty variant: the holes of the wider proof are kept.
MergeKeepingHoles(previous, incoming) ==
  LET wider == IF previous.xmax >= incoming.xmax THEN previous ELSE incoming
  IN  [xmin |-> IF previous.xmin > incoming.xmin THEN previous.xmin ELSE incoming.xmin,
       xmax |-> wider.xmax, xip |-> wider.xip]

\* Faulty variant: only the holes both proofs have are kept.
MergeCommonHoles(previous, incoming) ==
  [xmin |-> IF previous.xmin > incoming.xmin THEN previous.xmin ELSE incoming.xmin,
   xmax |-> IF previous.xmax > incoming.xmax THEN previous.xmax ELSE incoming.xmax,
   xip  |-> previous.xip \cap incoming.xip]

\* mergeMvccSnapshots(): the wider proof, without the holes the other one fills.
Merge(previous, incoming) ==
  LET wider == IF previous.xmax >= incoming.xmax THEN previous ELSE incoming
      other == IF previous.xmax >= incoming.xmax THEN incoming ELSE previous
  IN  [xmin |-> IF previous.xmin > incoming.xmin THEN previous.xmin ELSE incoming.xmin,
       xmax |-> wider.xmax,
       xip  |-> {t \in wider.xip : ~IsVisible(other, t)}]

=============================================================================
