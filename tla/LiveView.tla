------------------------------ MODULE LiveView ------------------------------
(***************************************************************************)
(* What a Realtime connection promises its application, without frames,    *)
(* epochs or listeners: the current queries all show one cut of the        *)
(* database's history.  The cut moves forward one publication at a time    *)
(* and moves for every current query at once.  A query that is not current *)
(* keeps what it showed until it is refreshed to the cut.                  *)
(***************************************************************************)
EXTENDS Naturals, SequencesExt

CONSTANT LiveIds

VARIABLES
  hist,       \* the change batches of every query; a batch names its publication
  published,  \* publications committed by the service
  cut,        \* publications the connection has taken in
  current,    \* queries that are up to date with the cut
  shown       \* what each query shows

vars == <<hist, published, cut, current, shown>>

\* Every fragment of a batch carries the transaction of its publication.
Transaction(batch) == batch[1][1]

\* A query shows what the first k publications make of it.
AtCut(seen, l, k) ==
  /\ IsPrefix(seen, hist[l])
  /\ \A i \in DOMAIN hist[l] : i <= Len(seen) <=> Transaction(hist[l][i]) <= k

Init ==
  /\ hist \in [LiveIds -> Seq({<<<<0, 0>>>>})]
  /\ published = 0
  /\ cut = 0
  /\ current = {}
  /\ shown = [l \in LiveIds |-> <<>>]

\* A publication changes each query by one batch or not at all.
Publish ==
  /\ published' = published + 1
  /\ \A l \in LiveIds :
       \/ hist'[l] = hist[l]
       \/ /\ Len(hist'[l]) = Len(hist[l]) + 1
          /\ SubSeq(hist'[l], 1, Len(hist[l])) = hist[l]
          /\ Transaction(hist'[l][Len(hist'[l])]) = published'
  /\ UNCHANGED <<cut, current, shown>>

\* Queries may drop out, but those that stay move together.
Advance ==
  /\ cut < published
  /\ cut' = cut + 1
  /\ current' \subseteq current
  /\ \A l \in LiveIds :
       IF l \in current' THEN AtCut(shown'[l], l, cut') ELSE shown'[l] = shown[l]
  /\ DOMAIN shown' = LiveIds
  /\ UNCHANGED <<hist, published>>

Refresh(l) ==
  /\ l \notin current
  /\ AtCut(shown'[l], l, cut)
  /\ shown' = [shown EXCEPT ![l] = shown'[l]]
  /\ UNCHANGED <<hist, published, cut, current>>

Join(l) ==
  /\ AtCut(shown[l], l, cut)
  /\ current' = current \cup {l}
  /\ UNCHANGED <<hist, published, cut, shown>>

Drop ==
  /\ current' \subseteq current
  /\ UNCHANGED <<hist, published, cut, shown>>

Next == Publish \/ Advance \/ Drop \/ \E l \in LiveIds : Refresh(l) \/ Join(l)

Spec == Init /\ [][Next]_vars

=============================================================================
