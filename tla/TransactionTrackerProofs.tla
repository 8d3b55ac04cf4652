---------------------- MODULE TransactionTrackerProofs ----------------------
(***************************************************************************)
(* Proofs about snapshots and the promises of awaitTxId(), for any number  *)
(* of transactions, calls and snapshots.                                   *)
(***************************************************************************)
EXTENDS TransactionTracker, SequenceTheorems, FiniteSetTheorems, TLAPS

\* mergeMvccSnapshots() keeps the fields in order, so that a merged proof can
\* be merged again.
LEMMA MergeWellFormed ==
  ASSUME NEW p, NEW q, WellFormed(p), WellFormed(q)
  PROVE  WellFormed(Merge(p, q))
<1>1. p \in Snapshot /\ q \in Snapshot
  BY DEF WellFormed
<1>2. Merge(p, q) \in Snapshot
  BY <1>1 DEF Merge, Snapshot
<1>3. Merge(p, q).xmin <= Merge(p, q).xmax
  BY <1>1 DEF Merge, Snapshot, WellFormed
<1>4. \A t \in Merge(p, q).xip : Merge(p, q).xmin <= t /\ t < Merge(p, q).xmax
  BY <1>1 DEF Merge, Snapshot, WellFormed, IsVisible
<1> QED
  BY <1>2, <1>3, <1>4 DEF WellFormed

\* A merged proof shows exactly the transactions one of its parts shows: no
\* confirmation is lost, and none appears that neither proof gave.
THEOREM MergeIsUnion ==
  ASSUME NEW p, NEW q, WellFormed(p), WellFormed(q), NEW t \in Nat
  PROVE  IsVisible(Merge(p, q), t) <=> IsVisible(p, t) \/ IsVisible(q, t)
<1>1. p \in Snapshot /\ q \in Snapshot
  BY DEF WellFormed
<1>2. CASE p.xmax >= q.xmax
  BY <1>1, <1>2 DEF Merge, Snapshot, WellFormed, IsVisible
<1>3. CASE ~(p.xmax >= q.xmax)
  BY <1>1, <1>3 DEF Merge, Snapshot, WellFormed, IsVisible
<1> QED
  BY <1>2, <1>3

-----------------------------------------------------------------------------
\* What the tracker knows, it knows rightly, and each call waits under the
\* transaction it asked for.
IInv ==
  /\ TypeOK
  /\ recent \subseteq applied
  /\ \A t \in Txids : IsVisible(visibility, t) => t \in applied
  /\ \A t \in Txids : \A w \in waiting[t] : awaited[w] = t
  /\ ResolvedIsApplied

LEMMA NothingVisible == WellFormed(NoSnapshot) /\ \A t \in Nat : ~IsVisible(NoSnapshot, t)
BY DEF WellFormed, NoSnapshot, Snapshot, IsVisible

\* The queue stays a queue of transactions.
LEMMA RememberType ==
  ASSUME TypeOK, NEW t \in Txids, Remember(t)
  PROVE  /\ recent' \subseteq recent \cup {t}
         /\ recentOrder' \in Seq(Txids)
<1>1. Append(recentOrder, t) \in Seq(Txids) /\ Append(recentOrder, t) # <<>>
  BY AppendProperties DEF TypeOK
<1>2. Tail(Append(recentOrder, t)) \in Seq(Txids)
  BY <1>1, HeadTailProperties
<1> QED
  BY <1>1, <1>2 DEF Remember, TypeOK

\* Resolving calls whose transactions are applied keeps every promise right.
LEMMA ResolveApplied ==
  ASSUME IInv, NEW ts \in SUBSET Txids, Resolve(ts), awaited' = awaited,
         applied' = applied, ts \subseteq applied
  PROVE  /\ waiting' \in [Txids -> SUBSET Waiters]
         /\ promise' \in [Waiters -> {"none", "pending", "resolved", "rejected"}]
         /\ timers' \subseteq Waiters
         /\ \A t \in Txids : \A w \in waiting'[t] : awaited'[w] = t
         /\ ResolvedIsApplied'
<1>1. waiting' \in [Txids -> SUBSET Waiters]
  BY DEF IInv, TypeOK, Resolve
<1>2. promise' \in [Waiters -> {"none", "pending", "resolved", "rejected"}]
  BY DEF IInv, TypeOK, Resolve
<1>3. timers' \subseteq Waiters
  BY DEF IInv, TypeOK, Resolve
<1>4. \A t \in Txids : \A w \in waiting'[t] : awaited'[w] = t
  BY DEF IInv, TypeOK, Resolve
<1>5. ResolvedIsApplied'
  <2> SUFFICES ASSUME NEW w \in Waiters, promise'[w] = "resolved"
               PROVE  awaited[w] \in applied
    BY DEF ResolvedIsApplied
  <2>1. CASE w \in UNION {waiting[t] : t \in ts}
    <3>1. PICK t \in ts : w \in waiting[t]
      BY <2>1
    <3> QED
      BY <3>1 DEF IInv
  <2>2. CASE w \notin UNION {waiting[t] : t \in ts}
    BY <2>2 DEF Resolve, IInv, ResolvedIsApplied
  <2> QED
    BY <2>1, <2>2
<1> QED
  BY <1>1, <1>2, <1>3, <1>4, <1>5

LEMMA InitInv == Init => IInv
<1> SUFFICES ASSUME Init PROVE IInv
  OBVIOUS
<1>1. TypeOK
  BY NothingVisible, EmptySeq DEF Init, TypeOK
<1>2. \A t \in Txids : IsVisible(visibility, t) => t \in applied
  BY NothingVisible, TrackerConstants DEF Init
<1> QED
  BY <1>1, <1>2 DEF Init, IInv, ResolvedIsApplied

LEMMA WaitInv == ASSUME IInv, NEW w \in Waiters, Wait(w) PROVE IInv'
<1>1. TypeOK'
  BY DEF IInv, TypeOK, Wait
<1>2. \A t \in Txids : \A x \in waiting'[t] : awaited'[x] = t
  BY DEF IInv, TypeOK, Wait
<1>3. ResolvedIsApplied'
  BY DEF IInv, TypeOK, Wait, Known, ResolvedIsApplied
<1> QED
  BY <1>1, <1>2, <1>3 DEF IInv, Wait

LEMMA SeenInv == ASSUME IInv, NEW t \in Txids, Seen(t) PROVE IInv'
<1>1. recent' \subseteq recent \cup {t} /\ recentOrder' \in Seq(Txids)
  BY RememberType DEF Seen, IInv
<1>2. /\ waiting' \in [Txids -> SUBSET Waiters]
      /\ promise' \in [Waiters -> {"none", "pending", "resolved", "rejected"}]
      /\ timers' \subseteq Waiters
      /\ \A u \in Txids : \A w \in waiting'[u] : awaited'[w] = u
      /\ ResolvedIsApplied'
  BY ResolveApplied DEF Seen
<1> QED
  BY <1>1, <1>2 DEF IInv, TypeOK, Seen

LEMMA ProgressInv == ASSUME IInv, NEW s \in Snapshots, ApplyProgress(s) PROVE IInv'
<1>1. WellFormed(visibility) /\ WellFormed(s)
  BY TrackerConstants DEF IInv, TypeOK
<1>2. WellFormed(visibility')
  BY <1>1, MergeWellFormed DEF ApplyProgress
<1>3. \A t \in Txids : IsVisible(visibility', t) => t \in applied
  <2> SUFFICES ASSUME NEW t \in Txids, IsVisible(visibility', t)
               PROVE  t \in applied
    OBVIOUS
  <2>1. t \in Nat
    BY TrackerConstants
  <2>2. IsVisible(visibility, t) \/ IsVisible(s, t)
    BY <1>1, <2>1, MergeIsUnion DEF ApplyProgress
  <2> QED
    BY <2>2 DEF IInv, ApplyProgress
<1>4. DEFINE ts == {t \in Txids : IsVisible(visibility', t)}
<1>5. ts \subseteq applied /\ ts \in SUBSET Txids
  BY <1>3
<1>6. Resolve(ts)
  BY DEF ApplyProgress
<1> HIDE DEF ts
<1>7. /\ waiting' \in [Txids -> SUBSET Waiters]
      /\ promise' \in [Waiters -> {"none", "pending", "resolved", "rejected"}]
      /\ timers' \subseteq Waiters
      /\ \A u \in Txids : \A w \in waiting'[u] : awaited'[w] = u
      /\ ResolvedIsApplied'
  BY <1>5, <1>6, ResolveApplied DEF ApplyProgress
<1> QED
  BY <1>2, <1>3, <1>7 DEF IInv, TypeOK, ApplyProgress

LEMMA TimeoutInv == ASSUME IInv, NEW w \in Waiters, Timeout(w) PROVE IInv'
<1>1. TypeOK'
  BY DEF IInv, TypeOK, Timeout
<1>2. \A t \in Txids : \A x \in waiting'[t] : awaited'[x] = t
  BY DEF IInv, TypeOK, Timeout
<1>3. ResolvedIsApplied'
  BY DEF IInv, TypeOK, Timeout, ResolvedIsApplied
<1> QED
  BY <1>1, <1>2, <1>3 DEF IInv, Timeout

LEMMA CloseInv == ASSUME IInv, Close PROVE IInv'
<1>1. TypeOK'
  BY NothingVisible DEF IInv, TypeOK, Close, Pending
<1>2. \A t \in Txids : IsVisible(visibility', t) => t \in applied'
  BY NothingVisible, TrackerConstants DEF Close
<1>3. ResolvedIsApplied'
  BY DEF IInv, TypeOK, Close, ResolvedIsApplied
<1> QED
  BY <1>1, <1>2, <1>3 DEF IInv, Close

LEMMA NextInv == IInv /\ [Next]_vars => IInv'
<1> SUFFICES ASSUME IInv, [Next]_vars PROVE IInv'
  OBVIOUS
<1>1. ASSUME NEW t \in Txids, Install(t) PROVE IInv'
  BY <1>1 DEF IInv, TypeOK, Install, ResolvedIsApplied
<1>2. CASE UNCHANGED vars
  BY <1>2 DEF IInv, TypeOK, ResolvedIsApplied, vars
<1> QED
  BY <1>1, <1>2, SeenInv, ProgressInv, WaitInv, TimeoutInv, CloseInv DEF Next

\* The tracker's state is well formed in every reachable state.
THEOREM TypeCorrect == Spec => []TypeOK
BY InitInv, NextInv, PTL DEF Spec, IInv

\* awaitTxId() never resolves for a transaction the rows do not reflect.
THEOREM ResolvedIsAppliedAlways == Spec => []ResolvedIsApplied
BY InitInv, NextInv, PTL DEF Spec, IInv

-----------------------------------------------------------------------------
\* The map of waiting calls, the promises and the timers agree, and no call
\* waits for what the tracker knows.
WInv ==
  /\ NobodyForgotten
  /\ TimersArePending
  /\ \A t \in Txids : \A w \in waiting[t] : promise[w] = "pending"

\* Resolving everybody who waits for what the tracker learns keeps it so.
LEMMA ResolveWaiting ==
  ASSUME IInv, WInv, NEW ts \in SUBSET Txids, Resolve(ts), awaited' = awaited,
         closed' = closed, ~closed,
         \A t \in Txids : Known(t)' => Known(t) \/ t \in ts
  PROVE  WInv'
<1>1. ASSUME NEW w \in Waiters, promise'[w] = "pending"
      PROVE  /\ promise[w] = "pending"
             /\ w \notin UNION {waiting[t] : t \in ts}
  BY <1>1 DEF Resolve, IInv, TypeOK
<1>2. NobodyForgotten'
  <2> SUFFICES ASSUME NEW w \in Waiters, promise'[w] = "pending"
               PROVE  w \in waiting'[awaited[w]] /\ ~Known(awaited[w])' /\ ~closed'
    BY DEF NobodyForgotten
  <2>1. w \in waiting[awaited[w]] /\ ~Known(awaited[w]) /\ awaited[w] \in Txids
    BY <1>1 DEF WInv, NobodyForgotten, IInv, TypeOK
  <2>2. awaited[w] \notin ts
    BY <1>1, <2>1
  <2> QED
    BY <2>1, <2>2 DEF Resolve
<1>3. TimersArePending'
  <2> SUFFICES ASSUME NEW w \in timers' PROVE promise'[w] = "pending"
    BY DEF TimersArePending
  <2>1. w \in timers /\ w \notin UNION {waiting[t] : t \in ts} /\ w \in Waiters
    BY DEF Resolve, IInv, TypeOK
  <2> QED
    BY <2>1 DEF Resolve, WInv, TimersArePending
<1>4. \A t \in Txids : \A w \in waiting'[t] : promise'[w] = "pending"
  <2> SUFFICES ASSUME NEW t \in Txids, NEW w \in waiting'[t]
               PROVE  promise'[w] = "pending"
    OBVIOUS
  <2>1. t \notin ts /\ w \in waiting[t] /\ w \in Waiters
    BY DEF Resolve, IInv, TypeOK
  <2>2. awaited[w] = t
    BY <2>1 DEF IInv
  <2>3. w \notin UNION {waiting[u] : u \in ts}
    BY <2>1, <2>2 DEF IInv
  <2> QED
    BY <2>1, <2>3 DEF Resolve, WInv
<1> QED
  BY <1>2, <1>3, <1>4 DEF WInv

LEMMA WInit == Init => WInv
BY DEF Init, WInv, NobodyForgotten, TimersArePending

LEMMA WNext == IInv /\ WInv /\ [Next]_vars => WInv'
<1> SUFFICES ASSUME IInv, WInv, [Next]_vars PROVE WInv'
  OBVIOUS
<1>1. ASSUME NEW t \in Txids, Install(t) PROVE WInv'
  BY <1>1 DEF WInv, NobodyForgotten, TimersArePending, Known, Install
<1>2. ASSUME NEW t \in Txids, Seen(t) PROVE WInv'
  <2>1. recent' \subseteq recent \cup {t}
    BY <1>2, RememberType DEF Seen, IInv
  <2>2. \A u \in Txids : Known(u)' => Known(u) \/ u \in {t}
    BY <1>2, <2>1 DEF Known, Seen
  <2> QED
    BY <1>2, <2>2, ResolveWaiting DEF Seen
<1>3. ASSUME NEW s \in Snapshots, ApplyProgress(s) PROVE WInv'
  <2> DEFINE ts == {t \in Txids : IsVisible(visibility', t)}
  <2>1. \A u \in Txids : Known(u)' => Known(u) \/ u \in ts
    BY <1>3 DEF Known, ApplyProgress
  <2>2. Resolve(ts) /\ ts \in SUBSET Txids
    BY <1>3 DEF ApplyProgress
  <2> HIDE DEF ts
  <2> QED
    BY <1>3, <2>1, <2>2, ResolveWaiting DEF ApplyProgress
<1>4. ASSUME NEW w \in Waiters, Wait(w) PROVE WInv'
  <2>1. NobodyForgotten'
    BY <1>4 DEF Wait, WInv, NobodyForgotten, Known, IInv, TypeOK
  <2>2. TimersArePending'
    BY <1>4 DEF Wait, WInv, TimersArePending, IInv, TypeOK
  <2>3. \A t \in Txids : \A x \in waiting'[t] : promise'[x] = "pending"
    BY <1>4 DEF Wait, WInv, IInv, TypeOK
  <2> QED
    BY <2>1, <2>2, <2>3 DEF WInv
<1>5. ASSUME NEW w \in Waiters, Timeout(w) PROVE WInv'
  <2>1. NobodyForgotten'
    BY <1>5 DEF Timeout, WInv, NobodyForgotten, TimersArePending, Known, IInv, TypeOK
  <2>2. TimersArePending'
    BY <1>5 DEF Timeout, WInv, TimersArePending, IInv, TypeOK
  <2>3. \A t \in Txids : \A x \in waiting'[t] : promise'[x] = "pending"
    BY <1>5 DEF Timeout, WInv, IInv, TypeOK
  <2> QED
    BY <2>1, <2>2, <2>3 DEF WInv
<1>6. ASSUME Close PROVE WInv'
  <2>1. \A w \in Waiters : promise[w] = "pending" => w \in Pending
    BY DEF WInv, NobodyForgotten, IInv, TypeOK, Pending
  <2>2. \A w \in Waiters : promise'[w] # "pending"
    BY <1>6, <2>1 DEF Close, IInv, TypeOK
  <2>3. timers' = {}
    BY <1>6, <2>1 DEF Close, WInv, TimersArePending, IInv, TypeOK
  <2> QED
    BY <1>6, <2>2, <2>3 DEF WInv, NobodyForgotten, TimersArePending, Close
<1>7. CASE UNCHANGED vars
  BY <1>7 DEF WInv, NobodyForgotten, TimersArePending, Known, vars
<1> QED
  BY <1>1, <1>2, <1>3, <1>4, <1>5, <1>6, <1>7 DEF Next

\* No call is left waiting for an answer the tracker has.
THEOREM NobodyForgottenAlways == Spec => []NobodyForgotten
BY InitInv, NextInv, WInit, WNext, PTL DEF Spec, WInv

\* Only pending calls hold a timer.
THEOREM TimersArePendingAlways == Spec => []TimersArePending
BY InitInv, NextInv, WInit, WNext, PTL DEF Spec, WInv

\* What a proof once showed stays known while the subscription lives.
THEOREM ProofsAccumulateAlways == Spec => ProofsAccumulate
<1>1. IInv /\ [Next]_vars =>
        [~closed' => \A t \in Txids : IsVisible(visibility, t) => IsVisible(visibility', t)]_vars
  <2> SUFFICES ASSUME IInv, Next, ~closed', NEW t \in Txids, IsVisible(visibility, t)
               PROVE  IsVisible(visibility', t)
    BY DEF vars
  <2>1. ASSUME NEW s \in Snapshots, ApplyProgress(s) PROVE IsVisible(visibility', t)
    BY <2>1, MergeIsUnion, TrackerConstants DEF ApplyProgress, IInv, TypeOK
  <2>2. CASE UNCHANGED visibility
    BY <2>2
  <2> QED
    BY <2>1, <2>2 DEF Next, Install, Seen, Wait, Timeout, Close
<1> QED
  BY <1>1, InitInv, NextInv, PTL DEF Spec, ProofsAccumulate

-----------------------------------------------------------------------------
\* The queue q lists the set r, each element once.
Lists(q, r) ==
  /\ q \in Seq(Txids)
  /\ r = {q[i] : i \in DOMAIN q}
  /\ \A i, j \in DOMAIN q : q[i] = q[j] => i = j

LEMMA ListsAppend ==
  ASSUME NEW q, NEW r, Lists(q, r), NEW t \in Txids, t \notin r
  PROVE  /\ Lists(Append(q, t), r \cup {t})
         /\ Len(Append(q, t)) = Len(q) + 1
<1> DEFINE a == Append(q, t)
<1>1. q \in Seq(Txids) /\ Len(q) \in Nat /\ DOMAIN q = 1..Len(q)
  BY LenProperties DEF Lists
<1>2. /\ a \in Seq(Txids) /\ Len(a) = Len(q) + 1 /\ DOMAIN a = 1..(Len(q) + 1)
      /\ \A i \in 1..Len(q) : a[i] = q[i]
      /\ a[Len(q) + 1] = t
  BY <1>1, AppendProperties, LenProperties
<1> HIDE DEF a
<1>3. \A i, j \in DOMAIN a : a[i] = a[j] => i = j
  <2> SUFFICES ASSUME NEW i \in DOMAIN a, NEW j \in DOMAIN a, a[i] = a[j]
               PROVE  i = j
    OBVIOUS
  <2>1. \A k \in 1..Len(q) : q[k] # t
    BY <1>1 DEF Lists
  <2>2. CASE i \in 1..Len(q) /\ j \in 1..Len(q)
    BY <1>1, <1>2, <2>2 DEF Lists
  <2>3. CASE ~(i \in 1..Len(q) /\ j \in 1..Len(q))
    BY <1>1, <1>2, <2>1, <2>3
  <2> QED
    BY <2>2, <2>3
<1>4. r \cup {t} = {a[i] : i \in DOMAIN a}
  BY <1>1, <1>2 DEF Lists
<1> QED
  BY <1>2, <1>3, <1>4 DEF Lists, a

LEMMA ListsTail ==
  ASSUME NEW q, NEW r, Lists(q, r), q # <<>>
  PROVE  /\ Lists(Tail(q), r \ {Head(q)})
         /\ Len(Tail(q)) = Len(q) - 1
<1> DEFINE b == Tail(q)
<1>1. q \in Seq(Txids) /\ Len(q) \in Nat \ {0} /\ DOMAIN q = 1..Len(q) /\ Head(q) = q[1]
  BY LenProperties, EmptySeq DEF Lists
<1>2. /\ b \in Seq(Txids) /\ Len(b) = Len(q) - 1 /\ DOMAIN b = 1..(Len(q) - 1)
      /\ \A i \in 1..(Len(q) - 1) : b[i] = q[i + 1]
  BY <1>1, HeadTailProperties, LenProperties
<1> HIDE DEF b
<1>3. \A i, j \in DOMAIN b : b[i] = b[j] => i = j
  <2> SUFFICES ASSUME NEW i \in 1..(Len(q) - 1), NEW j \in 1..(Len(q) - 1), b[i] = b[j]
               PROVE  i = j
    BY <1>2
  <2>1. q[i + 1] = q[j + 1] /\ i + 1 \in DOMAIN q /\ j + 1 \in DOMAIN q
    BY <1>1, <1>2
  <2>2. i + 1 = j + 1
    BY <2>1 DEF Lists
  <2> QED
    BY <2>2
<1>4. ASSUME NEW x \in r \ {Head(q)} PROVE \E i \in DOMAIN b : x = b[i]
  <2>1. PICK k \in 1..Len(q) : x = q[k]
    BY <1>1 DEF Lists
  <2>2. k # 1
    BY <1>1, <2>1
  <2>3. k - 1 \in 1..(Len(q) - 1) /\ (k - 1) + 1 = k
    BY <1>1, <2>2
  <2>4. b[k - 1] = q[k]
    BY <1>2, <2>3
  <2> QED
    BY <1>2, <2>1, <2>3, <2>4
<1>5. ASSUME NEW i \in DOMAIN b PROVE b[i] \in r \ {Head(q)}
  <2>1. i + 1 \in DOMAIN q /\ 1 \in DOMAIN q /\ i + 1 # 1 /\ b[i] = q[i + 1]
    BY <1>1, <1>2
  <2> QED
    BY <1>1, <2>1 DEF Lists
<1>6. r \ {Head(q)} = {b[i] : i \in DOMAIN b}
  BY <1>4, <1>5
<1> QED
  BY <1>2, <1>3, <1>6 DEF Lists, b

\* A queue without repetitions is as long as its set is large.
LEMMA ListsCardinality ==
  ASSUME NEW q, NEW r, Lists(q, r)
  PROVE  Cardinality(r) = Len(q)
<1>1. q \in Seq(Txids) /\ Len(q) \in Nat /\ DOMAIN q = 1..Len(q) /\ q \in [1..Len(q) -> r]
  BY LenProperties DEF Lists
<1>2. \A i, j \in 1..Len(q) : q[i] = q[j] => i = j
  BY <1>1 DEF Lists
<1>3. \A x \in r : \E i \in 1..Len(q) : q[i] = x
  BY <1>1 DEF Lists
<1>4. q \in Bijection(1..Len(q), r)
  BY <1>1, <1>2, <1>3 DEF Bijection, Injection, Surjection, IsInjective
<1> QED
  BY <1>1, <1>4, FS_CountingElements DEF ExistsBijection

QInv == Lists(recentOrder, recent) /\ Len(recentOrder) <= MaxRecentTxids

LEMMA RememberQueue == ASSUME QInv, NEW t \in Txids, Remember(t) PROVE QInv'
<1>1. Len(recentOrder) \in Nat /\ MaxRecentTxids \in Nat
  BY TrackerConstants, LenProperties DEF QInv, Lists
<1>2. CASE t \in recent
  BY <1>2 DEF Remember, QInv, Lists
<1>3. CASE t \notin recent
  <2>1. PICK a : a = Append(recentOrder, t)
    OBVIOUS
  <2>2. PICK r : r = recent \cup {t}
    OBVIOUS
  <2>3. Lists(a, r) /\ Len(a) = Len(recentOrder) + 1
    BY <1>3, <2>1, <2>2, ListsAppend DEF QInv
  <2>4. a # <<>>
    BY <1>1, <2>1, AppendProperties DEF QInv, Lists
  <2>5. Lists(Tail(a), r \ {Head(a)}) /\ Len(Tail(a)) = Len(a) - 1
    BY <2>3, <2>4, ListsTail
  <2>6. CASE Len(recentOrder) < MaxRecentTxids
    <3>1. recent' = r /\ recentOrder' = a
      BY <1>1, <1>3, <2>1, <2>2, <2>6 DEF Remember
    <3>2. Len(recentOrder') <= MaxRecentTxids
      BY <1>1, <2>3, <2>6, <3>1
    <3>3. Lists(recentOrder', recent')
      BY <2>3, <3>1
    <3> QED
      BY <3>2, <3>3 DEF QInv
  <2>7. CASE Len(recentOrder) >= MaxRecentTxids
    <3>0. ~(Len(recentOrder) < MaxRecentTxids)
      BY <1>1, <2>7
    <3>1. recent' = r \ {Head(a)} /\ recentOrder' = Tail(a)
      BY <1>3, <2>1, <2>2, <3>0 DEF Remember
    <3>2. Len(recentOrder) = MaxRecentTxids
      BY <1>1, <2>7 DEF QInv
    <3>3. Len(recentOrder') <= MaxRecentTxids
      BY <1>1, <2>3, <2>5, <3>1, <3>2
    <3>4. Lists(recentOrder', recent')
      BY <2>5, <3>1
    <3> QED
      BY <3>3, <3>4 DEF QInv
  <2>8. Len(recentOrder) < MaxRecentTxids \/ Len(recentOrder) >= MaxRecentTxids
    BY <1>1
  <2> QED
    BY <2>6, <2>7, <2>8
<1> QED
  BY <1>2, <1>3

\* The set and the queue of remembered transactions stay the same list.
THEOREM RecentBoundedAlways == Spec => []RecentBounded
<1>1. Lists(<<>>, {})
  BY EmptySeq DEF Lists
<1>2. Init => QInv
  BY <1>1, TrackerConstants DEF Init, QInv
<1>3. QInv /\ [Next]_vars => QInv'
  <2> SUFFICES ASSUME QInv, [Next]_vars PROVE QInv'
    OBVIOUS
  <2>1. ASSUME NEW t \in Txids, Seen(t) PROVE QInv'
    BY <2>1, RememberQueue DEF Seen
  <2>2. CASE Close
    BY <2>2, <1>1, TrackerConstants DEF Close, QInv
  <2>3. CASE UNCHANGED <<recent, recentOrder>>
    BY <2>3 DEF QInv, Lists
  <2> QED
    BY <2>1, <2>2, <2>3 DEF Next, vars, Install, ApplyProgress, Wait, Timeout
<1>4. QInv => RecentBounded
  BY ListsCardinality DEF QInv, Lists, RecentBounded
<1> QED
  BY <1>2, <1>3, <1>4, PTL DEF Spec

=============================================================================
