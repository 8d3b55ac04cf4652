-------------------------- MODULE RealtimeUnordered --------------------------
(***************************************************************************)
(* A client that may be handed, at any moment, any frame that is true of   *)
(* the service's history: again, too late, ahead of others, or never.  The *)
(* reconciler checks epochs, attempts, sequences, body indices and counts  *)
(* on every frame; here nothing else keeps the rows right.  RealtimeStream *)
(* is the special case in which frames come once and in order.             *)
(***************************************************************************)
EXTENDS ReconcilerServer

unorderedVars == <<clientVars, serverVars>>

UnorderedInit == ClientInit /\ ServerInit

Admitted == {l \in LiveIds : bases[l] # <<>>}

BaselineFrames ==
  UNION {UNION {
    {StartFrame(l, e, a), EndFrame(l, e, a)}
      \cup {BatchFrame(l, e, a, i) : i \in 0..(bases[l][e].at - 1)}
    : e \in DOMAIN bases[l], a \in 1..MaxAttempts} : l \in Admitted}

Done == {p \in DOMAIN log : log[p].done}

PublicationFrames ==
  {OpenFrame(p) : p \in DOMAIN log}
    \cup (UNION {{BodyFrame(p, i) : i \in 0..(Len(log[p].bodies) - 1)} : p \in DOMAIN log})
    \cup {CommitFrame(p, ordered) : p \in Done, ordered \in BOOLEAN}
    \cup {ProgressFrame(p) : p \in Done \cup {0}}

\* Every frame the service can truthfully have sent by now.
Frames ==
  {SubscribedFrame(l) : l \in Admitted} \cup {UnsubscribedFrame(l) : l \in detached}
    \cup BaselineFrames \cup PublicationFrames

Serve ==
  /\ \/ \E l \in LiveIds : Admit(l) \/ Detach(l)
     \/ OpenPublication
     \/ \E targets \in SUBSET LiveIds : AddChanges(targets) \/ AddReset(targets)
     \/ CommitPublication
  /\ UNCHANGED clientVars

DeliverAny ==
  /\ \E m \in Frames : Receive(m)
  /\ UNCHANGED serverVars

Local ==
  /\ Notify \/ Close \/ \E l \in LiveIds : Unsubscribe(l)
  /\ UNCHANGED serverVars

UnorderedNext == Serve \/ DeliverAny \/ Local

UnorderedSpec == UnorderedInit /\ [][UnorderedNext]_unorderedVars

-----------------------------------------------------------------------------
(* Properties.                                                             *)

\* Whatever reaches the client, a query never shows anything but a state its
\* result once had: every frame that would skip, repeat, reorder or tear a
\* batch is ignored or ends the connection.
PrefixConsistent == \A l \in LiveIds : IsPrefix(rows[l], hist[l])

\* No frame takes a query back: a replacement baseline, an old attempt or an
\* old epoch never removes a batch that was shown.
RowsGrow == [][\A l \in LiveIds : IsPrefix(rows[l], rows'[l])]_unorderedVars

=============================================================================
