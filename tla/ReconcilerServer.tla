-------------------------- MODULE ReconcilerServer --------------------------
(***************************************************************************)
(* The Realtime service as the client code relies on it: the history of    *)
(* every live query, and the frames that tell the truth about it.  The     *)
(* service is not part of this repository; what it promises is read from   *)
(* the reconciler's comments, its oracle test and the wire schema.         *)
(*                                                                         *)
(* hist[l] is the true sequence of change batches of query l.  An epoch    *)
(* starts at a frontier of it: every baseline of the epoch holds exactly   *)
(* the batches before the frontier, and the n-th batch after the frontier  *)
(* is published with sequence n - 1.  A reset publishes no batch: the      *)
(* change it stands for is at the end of the next epoch's baseline.        *)
(***************************************************************************)
EXTENDS Reconciler

CONSTANTS
  MaxPublications,  \* bound: publications the database commits
  MaxBodies,        \* bound: bodies of one publication
  MaxAttempts       \* bound: baseline sync attempts in one epoch

ASSUME ServerBounds ==
  /\ MaxPublications \in Nat
  /\ MaxBodies \in Nat
  /\ MaxAttempts \in Nat \ {0}

VARIABLES
  log,      \* the publications: bodies, staged batches after each body, done
  hist,     \* the true batches of every query
  bases,    \* for every admitted query, the frontier of each of its epochs
  detached  \* queries whose unsubscribe the server has acknowledged

serverVars == <<log, hist, bases, detached>>

\* Rows that exist before the first publication.
InitialBatch == <<<<0, 0>>>>

ServerInit ==
  /\ log = <<>>
  /\ hist \in [LiveIds -> {<<>>, <<InitialBatch>>}]
  /\ bases = [l \in LiveIds |-> <<>>]
  /\ detached = {}

Attached   == {l \in LiveIds : bases[l] # <<>>} \ detached
Publishing == log # <<>> /\ ~log[Len(log)].done
Epoch(l)   == Len(bases[l])

\* Where the next batch of l belongs: its epoch and its sequence in it.
Position(l) == [epoch |-> Epoch(l), seq |-> Len(hist[l]) - bases[l][Epoch(l)].at]
NoPosition  == [epoch |-> 0, seq |-> 0]

-----------------------------------------------------------------------------
(* The frames that are true of the history.                                *)

SubscribedFrame(l) ==
  [type |-> "subscribed", id |-> l, epoch |-> 1, first |-> 0]

UnsubscribedFrame(l) == [type |-> "unsubscribed", id |-> l]

StartFrame(l, e, a) ==
  [type |-> "baseline_sync_start", id |-> l, epoch |-> e, attempt |-> a,
   upto |-> bases[l][e].upto]

BatchFrame(l, e, a, i) ==
  [type |-> "baseline_sync_batch", id |-> l, epoch |-> e, attempt |-> a,
   index |-> i, rows |-> <<hist[l][i + 1]>>]

EndFrame(l, e, a) ==
  [type |-> "baseline_sync_end", id |-> l, epoch |-> e, attempt |-> a,
   count |-> bases[l][e].at]

OpenFrame(p) == [type |-> "open", pub |-> p]

BodyFrame(p, i) ==
  LET body == log[p].bodies[i + 1]
  IN  [type |-> body.type, pub |-> p, index |-> i, targets |-> body.targets,
       at |-> body.at, tx |-> p]

CommitFrame(p, ordered) ==
  [type |-> "commit", pub |-> p, count |-> Len(log[p].bodies), ordered |-> ordered]

ProgressFrame(upto) == [type |-> "progress", upto |-> upto]

-----------------------------------------------------------------------------
(* What the service does to the history.  Emitting frames is left to the   *)
(* modules that compose it with a client.                                  *)

Frontier(l) == [at |-> Len(hist[l]), upto |-> Len(log)]

\* A request is admitted between two publications.
Admit(l) ==
  /\ bases[l] = <<>>
  /\ ~Publishing
  /\ bases' = [bases EXCEPT ![l] = <<Frontier(l)>>]
  /\ UNCHANGED <<log, hist, detached>>

\* An unsubscribe is acknowledged: the client has had the admission, and has
\* closed or failed the subscription.
Detach(l) ==
  /\ l \in Attached \cap (registered \ subscribed)
  /\ detached' = detached \cup {l}
  /\ UNCHANGED <<log, hist, bases>>

OpenPublication ==
  /\ ~Publishing
  /\ Len(log) < MaxPublications
  /\ log' = Append(log, [bodies |-> <<>>, staged |-> <<Nothing>>,
                         resets |-> {}, done |-> FALSE])
  /\ UNCHANGED <<hist, bases, detached>>

AddBody(type, targets, staged, resets, at) ==
  LET p == Len(log)
  IN  /\ Len(log[p].bodies) < MaxBodies
      /\ log' = [log EXCEPT
                   ![p].bodies = Append(@, [type |-> type, targets |-> targets, at |-> at]),
                   ![p].staged = Append(@, staged),
                   ![p].resets = @ \cup resets]
      /\ UNCHANGED <<hist, bases, detached>>

Staged(p, n) == log[p].staged[n + 1]

AddChanges(targets) ==
  LET p == Len(log)
      n == Len(log[p].bodies)
  IN  /\ Publishing
      /\ targets # {}
      /\ targets \subseteq Attached \ log[p].resets
      /\ AddBody("keyed_results", targets,
                 [l \in LiveIds |-> IF l \in targets
                    THEN Append(Staged(p, n)[l], <<p, n>>) ELSE Staged(p, n)[l]],
                 {},
                 [l \in LiveIds |-> IF l \in targets THEN Position(l) ELSE NoPosition])

AddReset(targets) ==
  LET p == Len(log)
      n == Len(log[p].bodies)
  IN  /\ Publishing
      /\ targets # {}
      /\ targets \subseteq {l \in Attached \ log[p].resets : Staged(p, n)[l] = <<>>}
      /\ AddBody("reset_required", targets, Staged(p, n), targets,
                 [l \in LiveIds |-> IF l \in targets
                    THEN [epoch |-> Epoch(l) + 1, seq |-> 0] ELSE NoPosition])

\* The publication becomes part of the history of the queries it changes.
CommitPublication ==
  LET p     == Len(log)
      n     == Len(log[p].bodies)
      batch == [l \in LiveIds |-> IF l \in log[p].resets THEN <<<<p, n>>>>
                                  ELSE Staged(p, n)[l]]
  IN  /\ Publishing
      /\ log' = [log EXCEPT ![p].done = TRUE]
      /\ hist' = [l \in LiveIds |-> IF batch[l] # <<>>
                    THEN Append(hist[l], batch[l]) ELSE hist[l]]
      /\ bases' = [l \in LiveIds |-> IF l \in log[p].resets
                     THEN Append(bases[l], [at |-> Len(hist[l]) + 1, upto |-> p])
                     ELSE bases[l]]
      /\ UNCHANGED detached

=============================================================================
