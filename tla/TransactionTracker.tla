------------------------- MODULE TransactionTracker -------------------------
(***************************************************************************)
(* TransactionTracker: the promises of awaitTxId().  A promise resolves    *)
(* when its transaction comes with a batch (seen), when a snapshot proves  *)
(* it visible (applyProgress), or at once when the tracker knows it        *)
(* already; it is rejected by its timeout or when the subscription ends.   *)
(*                                                                         *)
(* applied is what the subscription's rows reflect.  Subscription and the  *)
(* reconciler call the tracker only after they install: seen(t) when t is  *)
(* applied, and applyProgress(s) when all that s proves visible is.        *)
(***************************************************************************)
EXTENDS Mvcc, Sequences, FiniteSets

CONSTANTS
  Txids,            \* transactions
  Waiters,          \* calls of awaitTxId()
  MaxRecentTxids,   \* MAX_RECENT_TXIDS
  Snapshots         \* snapshots the service may send

ASSUME TrackerConstants ==
  /\ Txids \subseteq Nat
  /\ MaxRecentTxids \in Nat
  /\ \A s \in Snapshots : WellFormed(s)

VARIABLES
  applied,      \* transactions the subscription's rows reflect
  recent,       \* this.recent
  recentOrder,  \* this.recentOrder
  visibility,   \* this.visibility
  waiting,      \* this.waiting, empty for a transaction that is no key of it
  promise,      \* the state of each call's promise
  awaited,      \* the transaction of each call
  timers,       \* calls whose timeout is armed
  closed        \* this.closed

vars == <<applied, recent, recentOrder, visibility, waiting, promise, awaited, timers, closed>>

NoSnapshot == [xmin |-> 0, xmax |-> 0, xip |-> {}]

Init ==
  /\ applied = {}
  /\ recent = {}
  /\ recentOrder = <<>>
  /\ visibility = NoSnapshot
  /\ waiting = [t \in Txids |-> {}]
  /\ promise = [w \in Waiters |-> "none"]
  /\ awaited \in [Waiters -> Txids]
  /\ timers = {}
  /\ closed = FALSE

Known(t) == t \in recent \/ IsVisible(visibility, t)

\* The row changes of a transaction are installed; the tracker hears later.
Install(t) ==
  /\ applied' = applied \cup {t}
  /\ UNCHANGED <<recent, recentOrder, visibility, waiting, promise, awaited, timers, closed>>

\* wait(): the answer is known, or the call waits, with or without a timeout.
Wait(w) ==
  LET t == awaited[w]
  IN  /\ promise[w] = "none"
      /\ \/ /\ closed
            /\ promise' = [promise EXCEPT ![w] = "rejected"]
            /\ UNCHANGED <<waiting, timers>>
         \/ /\ ~closed /\ Known(t)
            /\ promise' = [promise EXCEPT ![w] = "resolved"]
            /\ UNCHANGED <<waiting, timers>>
         \/ /\ ~closed /\ ~Known(t)
            /\ promise' = [promise EXCEPT ![w] = "pending"]
            /\ waiting' = [waiting EXCEPT ![t] = @ \cup {w}]
            /\ timers' \in {timers, timers \cup {w}}
      /\ UNCHANGED <<applied, recent, recentOrder, visibility, awaited, closed>>

\* Faulty variant: a resolved call's timeout is not cleared.
ResolveLeavingTimers(ts) ==
  LET settled == UNION {waiting[t] : t \in ts}
  IN  /\ waiting' = [t \in Txids |-> IF t \in ts THEN {} ELSE waiting[t]]
      /\ promise' = [w \in Waiters |-> IF w \in settled THEN "resolved" ELSE promise[w]]
      /\ UNCHANGED timers

\* resolve(), for each of the transactions ts.
Resolve(ts) ==
  LET settled == UNION {waiting[t] : t \in ts}
  IN  /\ waiting' = [t \in Txids |-> IF t \in ts THEN {} ELSE waiting[t]]
      /\ promise' = [w \in Waiters |-> IF w \in settled THEN "resolved" ELSE promise[w]]
      /\ timers'  = timers \ settled

\* Faulty variant: the oldest transaction leaves the queue but not the set.
RememberWithoutForgetting(t) ==
  \/ /\ t \in recent
     /\ UNCHANGED <<recent, recentOrder>>
  \/ /\ t \notin recent
     /\ recent' = recent \cup {t}
     /\ recentOrder' = IF Len(recentOrder) < MaxRecentTxids
                         THEN Append(recentOrder, t) ELSE Tail(Append(recentOrder, t))

\* The oldest of the remembered transactions makes room for a new one.
Remember(t) ==
  \/ /\ t \in recent
     /\ UNCHANGED <<recent, recentOrder>>
  \/ /\ t \notin recent
     /\ Len(recentOrder) < MaxRecentTxids
     /\ recent' = recent \cup {t}
     /\ recentOrder' = Append(recentOrder, t)
  \/ /\ t \notin recent
     /\ Len(recentOrder) >= MaxRecentTxids
     /\ recent' = (recent \cup {t}) \ {Head(Append(recentOrder, t))}
     /\ recentOrder' = Tail(Append(recentOrder, t))

\* seen(): publishBatch() names a transaction of an installed batch.
Seen(t) ==
  /\ t \in applied
  /\ ~closed
  /\ Remember(t)
  /\ Resolve({t})
  /\ UNCHANGED <<applied, visibility, awaited, closed>>

\* Faulty variant: the new proof resolves calls before it is merged.
ApplyProgressUnmerged(s) ==
  /\ \A t \in Txids : IsVisible(s, t) => t \in applied
  /\ ~closed
  /\ visibility' = Merge(visibility, s)
  /\ Resolve({t \in Txids : IsVisible(visibility, t)})
  /\ UNCHANGED <<applied, recent, recentOrder, awaited, closed>>

\* applyProgress() and applySnapshot(): proofs accumulate, in any order.
ApplyProgress(s) ==
  /\ \A t \in Txids : IsVisible(s, t) => t \in applied
  /\ ~closed
  /\ visibility' = Merge(visibility, s)
  /\ Resolve({t \in Txids : IsVisible(visibility', t)})
  /\ UNCHANGED <<applied, recent, recentOrder, awaited, closed>>

\* A timeout removes its call before it rejects it.
Timeout(w) ==
  /\ w \in timers
  /\ timers' = timers \ {w}
  /\ waiting' = [waiting EXCEPT ![awaited[w]] = @ \ {w}]
  /\ promise' = [promise EXCEPT ![w] = IF @ = "pending" THEN "rejected" ELSE @]
  /\ UNCHANGED <<applied, recent, recentOrder, visibility, awaited, closed>>

Pending == UNION {waiting[t] : t \in Txids}

\* close(): the subscription ended or failed.
Close ==
  /\ ~closed
  /\ closed' = TRUE
  /\ promise' = [w \in Waiters |-> IF w \in Pending THEN "rejected" ELSE promise[w]]
  /\ timers'  = timers \ Pending
  /\ waiting' = [t \in Txids |-> {}]
  /\ recent' = {}
  /\ recentOrder' = <<>>
  /\ visibility' = NoSnapshot
  /\ UNCHANGED <<applied, awaited>>

Next ==
  \/ \E t \in Txids : Install(t) \/ Seen(t)
  \/ \E s \in Snapshots : ApplyProgress(s)
  \/ \E w \in Waiters : Wait(w) \/ Timeout(w)
  \/ Close

Spec == Init /\ [][Next]_vars

-----------------------------------------------------------------------------
(* Properties.                                                             *)

TypeOK ==
  /\ applied \subseteq Txids
  /\ recent \subseteq Txids
  /\ recentOrder \in Seq(Txids)
  /\ WellFormed(visibility)
  /\ waiting \in [Txids -> SUBSET Waiters]
  /\ promise \in [Waiters -> {"none", "pending", "resolved", "rejected"}]
  /\ awaited \in [Waiters -> Txids]
  /\ timers \subseteq Waiters
  /\ closed \in BOOLEAN

\* awaitTxId() resolves only for a transaction the rows reflect, whatever
\* sequence of capped and overlapping proofs the tracker merged.
ResolvedIsApplied ==
  \A w \in Waiters : promise[w] = "resolved" => awaited[w] \in applied

\* Nothing is left waiting for an answer the tracker has: a pending call is in
\* the map under its transaction, and its transaction is not known.
NobodyForgotten ==
  \A w \in Waiters : promise[w] = "pending" =>
    w \in waiting[awaited[w]] /\ ~Known(awaited[w]) /\ ~closed

\* Only pending calls hold a timer, so a settled call keeps nothing alive.
TimersArePending == \A w \in timers : promise[w] = "pending"

\* The set and the queue of remembered transactions hold the same ones, each
\* once, and at most MAX_RECENT_TXIDS.
RecentBounded ==
  /\ recent = {recentOrder[i] : i \in DOMAIN recentOrder}
  /\ Cardinality(recent) = Len(recentOrder)
  /\ Len(recentOrder) <= MaxRecentTxids

\* A transaction a snapshot once proved visible stays known until the end,
\* though later proofs may be narrower.
ProofsAccumulate ==
  [][~closed' => \A t \in Txids : IsVisible(visibility, t) => IsVisible(visibility', t)]_vars

=============================================================================
